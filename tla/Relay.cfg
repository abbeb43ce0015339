\* Two relays, two events, lost acknowledgements, a crash.
SPECIFICATION Spec
\* All events of the bounded instance may be delivered and cleaned up.
CHECK_DEADLOCK FALSE
CONSTANTS
    NEvents = 2
    Relays = {r1, r2}
    BatchSize = 2
    MaxRetries = 2
    AckLoss = TRUE
    MaxCrashes = 1
SYMMETRY Symmetry
INVARIANTS TypeOK PublishedIsDelivered NothingVanishes DuplicatesExplained
PROPERTIES PublishedIsFinal
