\* Two relays, a crash; Kafka may refuse everything.
SPECIFICATION Spec
\* All events of the bounded instance may be delivered and cleaned up.
CHECK_DEADLOCK FALSE
CONSTANTS
    NEvents = 2
    Relays = {r1, r2}
    BatchSize = 2
    MaxRetries = 2
    AckLoss = FALSE
    MaxCrashes = 1
PROPERTIES DeliveredOrFailed
