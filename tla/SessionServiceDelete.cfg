CONSTANTS
    Hooks = {h1}
    TurnLimits = {2}
    Policies = {"default"}
    Requests = {r1, r2}
    MessageIds = {m1}
    OperationNames = {"read", "submit", "complete", "turn_in", "delete"}
    Faults = {"cancel", "inference"}
    MaxRevision = 3
SPECIFICATION FairSpec
INVARIANT DeletedLeavesNothing
PROPERTY RequestsEnd
