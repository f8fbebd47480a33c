--------------------------- MODULE SessionMutex ---------------------------
(***************************************************************************)
(* What LockManager.lock promises: per session at most one holder, which   *)
(* only ever changes hands through a release.                              *)
(***************************************************************************)
CONSTANTS Tasks, Sessions, Nobody   \* Nobody is not a task

VARIABLE holder

Init == holder = [s \in Sessions |-> Nobody]

Acquire(s, t) == holder[s] = Nobody /\ holder' = [holder EXCEPT ![s] = t]

Release(s) == holder[s] # Nobody /\ holder' = [holder EXCEPT ![s] = Nobody]

Next == \E s \in Sessions : Release(s) \/ \E t \in Tasks : Acquire(s, t)

Spec == Init /\ [][Next]_holder
============================================================================
