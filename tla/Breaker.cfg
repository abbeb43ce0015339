\* Three callers; the second failure trips the circuit; probe keys expire at any time.
SPECIFICATION Spec
CONSTANTS
    Callers = {c1, c2, c3}
    FailureThreshold = 2
INVARIANTS TypeOK ClosedBelowThreshold TrippedIsDated SingleProbe
PROPERTIES SelfHeals
