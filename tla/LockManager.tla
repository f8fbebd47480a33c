---------------------------- MODULE LockManager ----------------------------
(***************************************************************************)
(* utils/lock_manager.py: a registry of reference-counted asyncio locks,   *)
(* one entry per session in use.  A task runs to its next await in one     *)
(* step, as coroutines of one event loop do.  asyncio.Lock itself is       *)
(* external and modelled by its documented queue of futures: release wakes *)
(* the first waiter, which takes the lock only when it is scheduled again. *)
(***************************************************************************)
EXTENDS Naturals, FiniteSets, Sequences, SequencesExt

CONSTANTS
    Tasks,      \* coroutines that call lock(session_id)
    Sessions,   \* session ids
    Entries,    \* identities of _LockEntry objects
    None,       \* no entry
    Nobody      \* no task holds the lock

ASSUME NoneAssumption == None \notin Entries
ASSUME NobodyAssumption == Nobody \notin Tasks
ASSUME TasksAssumption == IsFiniteSet(Tasks)

VARIABLES
    registry,   \* _locks: session -> entry or None
    users,      \* entry -> reference count
    locked,     \* entry -> its asyncio.Lock is held
    waiters,    \* entry -> queue of waiting tasks, first in, first woken
    pc,         \* task -> "idle", "waiting" or "in"
    at,         \* task -> <<session, entry>>, None while idle
    future,     \* task -> its waiter: "pending", "woken" or "cancelled"
    doomed      \* task -> a cancellation will be raised where it waits

vars == <<registry, users, locked, waiters, pc, at, future, doomed>>

Here(t) == at[t][2]

TypeOK ==
    /\ registry \in [Sessions -> Entries \cup {None}]
    /\ users \in [Entries -> Nat]
    /\ locked \in [Entries -> BOOLEAN]
    /\ waiters \in [Entries -> Seq(Tasks)]
    /\ pc \in [Tasks -> {"idle", "waiting", "in"}]
    /\ at \in [Tasks -> (Sessions \X Entries) \cup {None}]
    /\ future \in [Tasks -> {"pending", "woken", "cancelled"}]
    /\ doomed \in [Tasks -> BOOLEAN]

Init ==
    /\ registry = [s \in Sessions |-> None]
    /\ users = [e \in Entries |-> 0]
    /\ locked = [e \in Entries |-> FALSE]
    /\ waiters = [e \in Entries |-> <<>>]
    /\ pc = [t \in Tasks |-> "idle"]
    /\ at = [t \in Tasks |-> None]
    /\ future = [t \in Tasks |-> "pending"]
    /\ doomed = [t \in Tasks |-> FALSE]

---------------------------------------------------------------------------
(***************************************************************************)
(* asyncio.Lock.                                                           *)
(***************************************************************************)

\* Mutant: a newcomer overtakes waiters that have been woken.
MutantFreeFor(e) == ~locked[e]

\* acquire() returns at once only past waiters that are all cancelled.
FreeFor(e) ==
    /\ ~locked[e]
    /\ \A i \in 1 .. Len(waiters[e]) : future[waiters[e][i]] = "cancelled"

\* _wake_up_first on the queue q.
Woken(q) ==
    IF q # <<>> /\ future[Head(q)] = "pending"
    THEN [future EXCEPT ![Head(q)] = "woken"]
    ELSE future

\* Mutant: a cancelled waiter keeps its wake-up.
MutantPassedOn(e, i) == future

\* acquire() is cancelled at place i: a free lock goes to the next waiter.
PassedOn(e, i) == IF locked[e] THEN future ELSE Woken(RemoveAt(waiters[e], i))

---------------------------------------------------------------------------
(***************************************************************************)
(* LockManager.lock.                                                       *)
(***************************************************************************)
\* An object the registry and the tasks have forgotten may be used afresh.
Unused(e) ==
    /\ \A s \in Sessions : registry[s] # e
    /\ \A t \in Tasks : pc[t] # "idle" => Here(t) # e

CountUser(e) == users' = [users EXCEPT ![e] = @ + 1]

\* Look up or create the entry, count one more user, call acquire().
Enter(t, s, e) ==
    /\ pc[t] = "idle"
    /\ IF registry[s] = None THEN Unused(e) ELSE registry[s] = e
    /\ registry' = [registry EXCEPT ![s] = e]
    /\ CountUser(e)
    /\ at' = [at EXCEPT ![t] = <<s, e>>]
    /\ \/ /\ FreeFor(e)
          /\ locked' = [locked EXCEPT ![e] = TRUE]
          /\ pc' = [pc EXCEPT ![t] = "in"]
          /\ UNCHANGED <<waiters, future>>
       \/ /\ ~FreeFor(e)
          /\ waiters' = [waiters EXCEPT ![e] = Append(@, t)]
          /\ future' = [future EXCEPT ![t] = "pending"]
          /\ pc' = [pc EXCEPT ![t] = "waiting"]
          /\ UNCHANGED locked
    /\ UNCHANGED doomed

\* Mutant: every user that leaves removes the entry.
MutantLeave(t) ==
    /\ users' = [users EXCEPT ![Here(t)] = @ - 1]
    /\ registry' = [registry EXCEPT ![at[t][1]] = None]
    /\ pc' = [pc EXCEPT ![t] = "idle"]
    /\ at' = [at EXCEPT ![t] = None]

\* The finally clause: one user less, the last one removes the entry.
Leave(t) ==
    LET s == at[t][1]
        e == Here(t)
    IN
    /\ users' = [users EXCEPT ![e] = @ - 1]
    /\ registry' = IF users[e] = 1 /\ registry[s] = e
                   THEN [registry EXCEPT ![s] = None] ELSE registry
    /\ pc' = [pc EXCEPT ![t] = "idle"]
    /\ at' = [at EXCEPT ![t] = None]

\* The body ends, normally, with an exception or cancelled.
Release(t) ==
    LET e == Here(t) IN
    /\ pc[t] = "in"
    /\ locked' = [locked EXCEPT ![e] = FALSE]
    /\ future' = Woken(waiters[e])
    /\ Leave(t)
    /\ UNCHANGED <<waiters, doomed>>

\* A woken waiter is scheduled and takes the lock without looking again.
Resume(t, i) ==
    LET e == Here(t) IN
    /\ pc[t] = "waiting" /\ future[t] = "woken" /\ ~doomed[t]
    /\ i \in 1 .. Len(waiters[e]) /\ waiters[e][i] = t
    /\ waiters' = [waiters EXCEPT ![e] = RemoveAt(@, i)]
    /\ locked' = [locked EXCEPT ![e] = TRUE]
    /\ pc' = [pc EXCEPT ![t] = "in"]
    /\ UNCHANGED <<registry, users, at, future, doomed>>

\* A task that waits is cancelled; a wake-up it already has stays.
Cancel(t) ==
    /\ pc[t] = "waiting" /\ ~doomed[t]
    /\ doomed' = [doomed EXCEPT ![t] = TRUE]
    /\ future' = [future EXCEPT ![t] = IF @ = "pending" THEN "cancelled" ELSE @]
    /\ UNCHANGED <<registry, users, locked, waiters, pc, at>>

\* The cancellation is raised in acquire(): leave the queue, pass a lost
\* wake-up on, drop the reference.
Abort(t, i) ==
    LET e == Here(t) IN
    /\ pc[t] = "waiting" /\ doomed[t]
    /\ i \in 1 .. Len(waiters[e]) /\ waiters[e][i] = t
    /\ waiters' = [waiters EXCEPT ![e] = RemoveAt(@, i)]
    /\ future' = PassedOn(e, i)
    /\ doomed' = [doomed EXCEPT ![t] = FALSE]
    /\ Leave(t)
    /\ UNCHANGED locked

Places(t) == IF pc[t] = "waiting" THEN 1 .. Len(waiters[Here(t)]) ELSE {}

Next ==
    \E t \in Tasks :
        \/ \E s \in Sessions, e \in Entries : Enter(t, s, e)
        \/ Release(t)
        \/ Cancel(t)
        \/ \E i \in Places(t) : Resume(t, i) \/ Abort(t, i)

Spec == Init /\ [][Next]_vars

\* The event loop runs every ready task, and every body ends.
Fairness ==
    \A t \in Tasks :
        /\ WF_vars(\E i \in Places(t) : Resume(t, i) \/ Abort(t, i))
        /\ WF_vars(Release(t))

FairSpec == Spec /\ Fairness

---------------------------------------------------------------------------
(***************************************************************************)
(* Properties.                                                             *)
(***************************************************************************)
Holders(s) == {t \in Tasks : pc[t] = "in" /\ at[t][1] = s}

\* Two coroutines are never in the critical section of one session, though
\* entries come and go with their users and a woken waiter does not check.
MutualExclusion ==
    \A s \in Sessions : \A t, u \in Holders(s) : t = u

\* A session has an entry exactly while some task uses it, and the count is
\* exact: no entry leaks and none is removed under a user.
RegistryExact ==
    \A s \in Sessions :
        LET mine == {t \in Tasks : pc[t] # "idle" /\ at[t][1] = s} IN
        IF mine = {} THEN registry[s] = None
        ELSE /\ \A t \in mine : Here(t) = registry[s]
             /\ users[registry[s]] = Cardinality(mine)

\* Nobody overtakes: whoever enters leaves no waiter in front that was not
\* cancelled.
FirstComeFirstServed ==
    [][\A t \in Tasks : pc[t] # "in" /\ pc'[t] = "in" =>
        LET q == waiters[at'[t][2]]
            before == IF pc[t] = "idle" THEN 1 .. Len(q)
                      ELSE {i \in 1 .. Len(q) : \A j \in 1 .. i : q[j] # t}
        IN \A i \in before : doomed[q[i]]]_vars

\* Every task that waits gets the lock or its cancellation.
WaitersServed == \A t \in Tasks : pc[t] = "waiting" ~> pc[t] # "waiting"

Holder == [s \in Sessions |->
    IF Holders(s) = {} THEN Nobody ELSE CHOOSE t \in Holders(s) : TRUE]

Mutex == INSTANCE SessionMutex WITH holder <- Holder

ImplementsMutex == Mutex!Spec
============================================================================
