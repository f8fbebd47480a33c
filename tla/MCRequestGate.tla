--------------------------- MODULE MCRequestGate ---------------------------
\* Two requests at once, a key that is rotated, and the two buckets of a user.
EXTENDS RequestGate, TLC

CONSTANTS k1, k2, m1, m2

Signed(kid, key, exp) == [kid |-> kid, key |-> key, exp |-> exp, nbf |-> None]

MCTokens == {Signed(k1, k1, None), Signed(k2, k2, 1), Signed(None, k1, None)}
MCLimitOf == ("messages" :> 2) @@ ("sessions" :> 1)
MCWindowOf == ("messages" :> 1) @@ ("sessions" :> 2)

MCMaxChecks == ("dev-header" :> 5) @@ ("bearer-jwt" :> 0)

GateSymmetry == Permutations(Requests)
=============================================================================
