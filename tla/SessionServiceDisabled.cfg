CONSTANTS
    Hooks = {h1}
    TurnLimits = {2}
    Policies = {"disabled"}
    Requests = {r1, r2}
    MessageIds = {m1, m2}
    OperationNames = {"read", "submit", "close", "complete", "resume", "turn_in"}
    Faults = {"restart", "inference", "retention"}
    MaxRevision = 5
SYMMETRY ServiceSymmetry
SPECIFICATION Spec
INVARIANT ContextComplete
