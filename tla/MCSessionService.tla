------------------------- MODULE MCSessionService -------------------------
(* Instances of SessionService for TLC. Request coroutines and message ids *)
(* are interchangeable; neither is a literal of the specification.         *)
EXTENDS SessionService, TLC

ServiceSymmetry == Permutations(Requests) \cup Permutations(MessageIds)
============================================================================
