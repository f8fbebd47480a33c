CONSTANTS
    s1 = s1
    p2 = p2
    p1 = p1
    t1 = t1
    t2 = t2
    None = None
    Streams = {s1}
    Plains = {p1, p2}
    Turns = {t1, t2}
    TurnOf <- MCTurnOf
    Capacity = 1
    MaxActive = 1
    MaxParts = 2
SPECIFICATION Spec
CHECK_DEADLOCK FALSE
INVARIANTS SlotsBalanced CommittedIsWhole CompleteIsCanonical
PROPERTIES ResourcesReturned OutcomeReachesClient StreamsEnd
