-------------------------- MODULE MCMessageStream --------------------------
\* A stream and two plain calls of one user: p1 retries the turn of the
\* stream, p2 takes a turn of another session.
EXTENDS MessageStream, TLC

CONSTANTS s1, p1, p2, t1, t2

MCTurnOf == (s1 :> t1) @@ (p1 :> t1) @@ (p2 :> t2)

=============================================================================
