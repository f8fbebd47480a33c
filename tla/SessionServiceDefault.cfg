CONSTANTS
    Hooks = {h1}
    TurnLimits = {2}
    Policies = {"default"}
    Requests = {r1, r2}
    MessageIds = {m1, m2}
    OperationNames = {"read", "submit", "close", "complete", "resume", "reflect", "postpone", "turn_in"}
    Faults = {"cancel", "restart", "inference", "log", "retention"}
    MaxRevision = 4
SYMMETRY ServiceSymmetry
SPECIFICATION Spec
INVARIANTS
    AtMostOncePerMessage
    AckedIsKept
    TranscriptMatchesTurns
    AckedIsLogged
PROPERTY AtomicLifecycle
