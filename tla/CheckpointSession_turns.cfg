\* Two hook processes, two stop events, a limit of three rows.
SPECIFICATION Spec
CONSTANTS
    s1 = s1
    s2 = s2
    c1 = c1
    Session = {s1, s2}
    Delivery = {d1, d2}
    StopKey = {k1, k2}
    SessionOf <- OfFirstSession
    Command = {c1}
    Observed <- FewEvents
    None = None
    SliceLimit = 3
    MaxEvents = 5
SYMMETRY Interchangeable
CHECK_DEADLOCK FALSE
INVARIANTS ConflictNeedsIntrusion EvidenceIsOneTurn TurnIsCheckpointedOnce FailureIsClosed
