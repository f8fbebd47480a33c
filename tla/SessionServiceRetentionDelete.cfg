CONSTANTS
    Hooks = {h1}
    TurnLimits = {2}
    Policies = {"default"}
    Requests = {r1, r2}
    MessageIds = {m1, m2}
    OperationNames = {"read", "close", "delete"}
    Faults = {"retention"}
    MaxRevision = 4
SYMMETRY ServiceSymmetry
SPECIFICATION Spec
INVARIANT DeletedStaysDeleted
