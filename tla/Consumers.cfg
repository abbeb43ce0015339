\* A group that writes rows and one that notifies; a sound and an unreadable event.
SPECIFICATION Spec
\* The topic of the bounded instance may be read to its end.
CHECK_DEADLOCK FALSE
CONSTANTS
    Events = {e1, e2}
    Unreadable = {e2}
    Groups = {audit, notification}
    Tables = {audit}
    MaxRetries = 1
    MaxDeliveries = 1
    MaxFaults = 1
INVARIANTS TypeOK NothingSkipped DeadLetterAfterRetries RetriesBounded EffectsExplained
PROPERTY EveryEventHandled
