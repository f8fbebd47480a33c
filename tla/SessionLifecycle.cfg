CONSTANTS
    Hooks = {h1, h2}
    TurnLimits = {1, 2, 3}
    Policies = {"default", "disabled"}
SPECIFICATION FairSpec
INVARIANTS
    TurnBudget
    TurnInComplete
    CompletionHooks
PROPERTIES
    TurnedInFrozen
    DueReflectionGatesTurn
    ExhaustedLeadsToTurnIn
