------------------------- MODULE LockManagerProofs -------------------------
(***************************************************************************)
(* Mutual exclusion and exact reference counts of LockManager, for any     *)
(* number of tasks, sessions and entries, and that it implements           *)
(* SessionMutex.                                                           *)
(*                                                                         *)
(* The inductive invariant has two halves.  Table: every task's entry is   *)
(* the registered one, entries are not shared by sessions and the counts   *)
(* are the numbers of tasks.  Queue: a queue holds waiting tasks once      *)
(* each, a holder's lock is taken, and a woken waiter is at the head of a  *)
(* free lock, so it need not look again when it takes it.                  *)
(***************************************************************************)
EXTENDS LockManager, FiniteSetTheorems, SequenceTheorems, TLAPS

Using(e) == {t \in Tasks : pc[t] # "idle" /\ Here(t) = e}

Registered ==
    \A t \in Tasks : pc[t] # "idle" =>
        at[t] \in Sessions \X Entries /\ registry[at[t][1]] = Here(t)

OneSession ==
    \A s, r \in Sessions : registry[s] # None /\ registry[s] = registry[r] => s = r

Counted == \A e \in Entries : users[e] = Cardinality(Using(e))

InUse == \A s \in Sessions : registry[s] # None => Using(registry[s]) # {}

Table == Registered /\ OneSession /\ Counted /\ InUse

Queued ==
    \A e \in Entries : \A i \in 1 .. Len(waiters[e]) :
        pc[waiters[e][i]] = "waiting" /\ Here(waiters[e][i]) = e

QueuedOnce ==
    \A e \in Entries : \A i, j \in 1 .. Len(waiters[e]) :
        waiters[e][i] = waiters[e][j] => i = j

HolderLocks == \A t \in Tasks : pc[t] = "in" => locked[Here(t)]

OneHolder ==
    \A t, u \in Tasks : pc[t] = "in" /\ pc[u] = "in" /\ Here(t) = Here(u) => t = u

WokenIsHead ==
    \A t \in Tasks : pc[t] = "waiting" /\ future[t] = "woken" =>
        /\ ~locked[Here(t)]
        /\ Len(waiters[Here(t)]) > 0
        /\ waiters[Here(t)][1] = t

Queue == Queued /\ QueuedOnce /\ HolderLocks /\ OneHolder /\ WokenIsHead

IInv == TypeOK /\ Table /\ Queue

---------------------------------------------------------------------------
(***************************************************************************)
(* Operators.                                                              *)
(***************************************************************************)
\* Removing place i from a queue shifts what is behind it.
LEMMA RemoveAtElements ==
    ASSUME NEW q \in Seq(Tasks), NEW i \in 1 .. Len(q)
    PROVE  /\ RemoveAt(q, i) \in Seq(Tasks)
           /\ Len(RemoveAt(q, i)) = Len(q) - 1
           /\ \A j \in 1 .. Len(q) - 1 :
                RemoveAt(q, i)[j] = IF j < i THEN q[j] ELSE q[j + 1]
<1>. DEFINE a == SubSeq(q, 1, i - 1)
            b == SubSeq(q, i + 1, Len(q))
<1>1. Len(q) \in Nat /\ i \in Nat
  OBVIOUS
<1>2. /\ a \in Seq(Tasks) /\ Len(a) = i - 1
      /\ \A j \in 1 .. i - 1 : a[j] = q[j]
  OBVIOUS
<1>3. /\ b \in Seq(Tasks) /\ Len(b) = Len(q) - i
      /\ \A j \in 1 .. Len(q) - i : b[j] = q[i + j]
  OBVIOUS
<1>. HIDE DEF a, b
<1>4. /\ a \o b \in Seq(Tasks) /\ Len(a \o b) = Len(a) + Len(b)
      /\ \A j \in 1 .. Len(a) + Len(b) :
            (a \o b)[j] = IF j <= Len(a) THEN a[j] ELSE b[j - Len(a)]
  BY <1>2, <1>3, ConcatProperties
<1>5. RemoveAt(q, i) = a \o b
  BY DEF RemoveAt, a, b
<1>6. ASSUME NEW j \in 1 .. Len(q) - 1
      PROVE  (a \o b)[j] = IF j < i THEN q[j] ELSE q[j + 1]
  <2>1. j \in 1 .. Len(a) + Len(b) /\ j \in Nat /\ Len(a) = i - 1
    BY <1>1, <1>2, <1>3
  <2>2. (a \o b)[j] = IF j <= Len(a) THEN a[j] ELSE b[j - Len(a)]
    BY <1>4, <2>1
  <2>3. CASE j < i
    <3>1. j <= Len(a) /\ j \in 1 .. i - 1
      BY <1>1, <2>1, <2>3
    <3>. QED
      BY <1>2, <2>2, <2>3, <3>1
  <2>4. CASE ~(j < i)
    <3>1. ~(j <= Len(a)) /\ j - Len(a) \in 1 .. Len(q) - i /\ i + (j - Len(a)) = j + 1
      BY <1>1, <2>1, <2>4
    <3>2. b[j - Len(a)] = q[j + 1]
      BY <1>3, <3>1
    <3>. QED
      BY <2>2, <2>4, <3>1, <3>2
  <2>. QED
    BY <2>3, <2>4
<1>7. Len(a \o b) = Len(q) - 1
  BY <1>1, <1>2, <1>3, <1>4
<1>. QED
  BY <1>4, <1>5, <1>6, <1>7

\* Waking the head of a queue changes no future but its own.
LEMMA WokenFuture ==
    ASSUME TypeOK, NEW q \in Seq(Tasks)
    PROVE  /\ Woken(q) \in [Tasks -> {"pending", "woken", "cancelled"}]
           /\ \A t \in Tasks : Woken(q)[t] = "woken" =>
                future[t] = "woken" \/ (Len(q) > 0 /\ q[1] = t)
<1>1. q # <<>> => Head(q) = q[1] /\ Len(q) > 0 /\ q[1] \in Tasks
  OBVIOUS
<1>. QED
  BY <1>1 DEF Woken, TypeOK

---------------------------------------------------------------------------
(***************************************************************************)
(* The table of entries.                                                   *)
(***************************************************************************)
\* A task's entry is in use, finitely often.
LEMMA UsingFinite ==
    ASSUME NEW e
    PROVE  IsFiniteSet(Using(e)) /\ Cardinality(Using(e)) \in Nat
<1>1. Using(e) \in SUBSET Tasks
  BY DEF Using
<1>2. IsFiniteSet(Using(e))
  BY <1>1, TasksAssumption, FS_Subset
<1>. QED
  BY <1>2, FS_CardinalityType

\* Entering registers the task and counts it.
LEMMA EnterTable ==
    ASSUME TypeOK, Table, NEW t \in Tasks, NEW s \in Sessions, NEW e \in Entries,
           Enter(t, s, e)
    PROVE  Table' /\ users' \in [Entries -> Nat]
<1>. USE DEF TypeOK
<1>1. /\ pc[t] = "idle"
      /\ registry' = [registry EXCEPT ![s] = e]
      /\ users' = [users EXCEPT ![e] = @ + 1]
      /\ at' = [at EXCEPT ![t] = <<s, e>>]
      /\ pc' \in [Tasks -> {"idle", "waiting", "in"}]
      /\ pc'[t] # "idle"
      /\ \A u \in Tasks : u # t => pc'[u] = pc[u] /\ at'[u] = at[u]
  BY DEF Enter, CountUser
<1>2. at'[t] = <<s, e>>
  BY <1>1
<1>3. Using(e)' = Using(e) \cup {t} /\ t \notin Using(e)
  BY <1>1, <1>2 DEF Using, Here
<1>4. \A f \in Entries : f # e => Using(f)' = Using(f)
  BY <1>1, <1>2 DEF Using, Here
<1>5. Counted'
  <2>. SUFFICES ASSUME NEW f \in Entries PROVE users'[f] = Cardinality(Using(f)')
    BY DEF Counted
  <2>1. CASE f = e
    <3>1. Cardinality(Using(e) \cup {t}) = Cardinality(Using(e)) + 1
      BY <1>3, UsingFinite, FS_AddElement
    <3>2. users'[f] = users[e] + 1
      BY <1>1, <2>1
    <3>3. users[e] = Cardinality(Using(e))
      BY DEF Table, Counted
    <3>4. Using(f)' = Using(e) \cup {t}
      BY <1>3, <2>1
    <3>. QED
      BY <3>1, <3>2, <3>3, <3>4
  <2>2. CASE f # e
    <3>1. Using(f)' = Using(f)
      BY <1>4, <2>2
    <3>. QED
      BY <1>1, <2>2, <3>1 DEF Table, Counted
  <2>. QED
    BY <2>1, <2>2
<1>6. \A u \in Tasks : pc[u] # "idle" /\ Here(u) = e => at[u][1] = s
  \* an entry that is used is the one registered for s
  <2>. SUFFICES ASSUME NEW u \in Tasks, pc[u] # "idle", Here(u) = e PROVE at[u][1] = s
    OBVIOUS
  <2>1. at[u] \in Sessions \X Entries /\ registry[at[u][1]] = e
    BY DEF Table, Registered
  <2>2. registry[s] = e
    BY DEF Enter, Unused
  <2>. QED
    BY <2>1, <2>2, NoneAssumption DEF Table, OneSession
<1>7. \A r \in Sessions : registry[r] = e => r = s
  <2>. SUFFICES ASSUME NEW r \in Sessions, registry[r] = e PROVE r = s
    OBVIOUS
  <2>1. registry[s] = e
    BY DEF Enter, Unused
  <2>. QED
    BY <2>1, NoneAssumption DEF Table, OneSession
<1>8. Registered'
  <2>. SUFFICES ASSUME NEW u \in Tasks, pc'[u] # "idle"
                PROVE  at'[u] \in Sessions \X Entries /\ registry'[at'[u][1]] = at'[u][2]
    BY DEF Registered, Here
  <2>1. CASE u = t
    BY <1>1, <1>2, <2>1
  <2>2. CASE u # t
    <3>1. at'[u] = at[u] /\ pc[u] # "idle"
      BY <1>1, <2>2
    <3>2. at[u] \in Sessions \X Entries /\ registry[at[u][1]] = at[u][2]
      BY <3>1 DEF Table, Registered, Here
    <3>3. CASE at[u][1] = s
      <4>1. registry[s] # None
        BY <3>2, <3>3, NoneAssumption
      <4>2. registry[s] = e
        BY <4>1 DEF Enter
      <4>. QED
        BY <1>1, <3>1, <3>2, <3>3, <4>2
    <3>4. CASE at[u][1] # s
      BY <1>1, <3>1, <3>2, <3>4
    <3>. QED
      BY <3>3, <3>4
  <2>. QED
    BY <2>1, <2>2
<1>9. OneSession'
  BY <1>1, <1>7 DEF Table, OneSession
<1>10. InUse'
  <2>. SUFFICES ASSUME NEW r \in Sessions, registry'[r] # None PROVE Using(registry[r])' # {}
    BY DEF InUse
  <2>1. CASE r = s
    BY <1>1, <1>3, <2>1
  <2>2. CASE r # s
    <3>1. registry'[r] = registry[r] /\ registry[r] \in Entries /\ registry[r] # e
      BY <1>1, <1>7, <2>2
    <3>2. Using(registry[r]) # {}
      BY <3>1, NoneAssumption DEF Table, InUse
    <3>. QED
      BY <1>4, <3>1, <3>2
  <2>. QED
    BY <2>1, <2>2
<1>. QED
  BY <1>1, <1>5, <1>8, <1>9, <1>10 DEF Table

\* Leaving forgets the task, and the entry with its last user.
LEMMA LeaveTable ==
    ASSUME TypeOK, Table, NEW t \in Tasks, pc[t] # "idle", Leave(t)
    PROVE  /\ Table'
           /\ users' \in [Entries -> Nat]
           /\ registry' \in [Sessions -> Entries \cup {None}]
<1>. USE DEF TypeOK
<1>1. at[t] \in Sessions \X Entries /\ registry[at[t][1]] = Here(t)
  BY DEF Table, Registered
<1>2. PICK s \in Sessions, e \in Entries :
         at[t][1] = s /\ Here(t) = e /\ registry[s] = e
  BY <1>1 DEF Here
<1>3. /\ users' = [users EXCEPT ![e] = @ - 1]
      /\ registry' = IF users[e] = 1 THEN [registry EXCEPT ![s] = None] ELSE registry
      /\ pc' = [pc EXCEPT ![t] = "idle"]
      /\ at' = [at EXCEPT ![t] = None]
  BY <1>2 DEF Leave
<1>4. t \in Using(e)
  BY <1>2 DEF Using
<1>5. Using(e)' = Using(e) \ {t}
  BY <1>2, <1>3, <1>4 DEF Using, Here
<1>6. \A f \in Entries : f # e => Using(f)' = Using(f)
  BY <1>2, <1>3, <1>4 DEF Using, Here
<1>7. /\ IsFiniteSet(Using(e)) /\ Cardinality(Using(e)) \in Nat
      /\ IsFiniteSet(Using(e) \ {t}) /\ Cardinality(Using(e) \ {t}) \in Nat
      /\ Cardinality(Using(e) \ {t}) = Cardinality(Using(e)) - 1
      /\ users[e] = Cardinality(Using(e))
  <2>1. IsFiniteSet(Using(e)) /\ Cardinality(Using(e)) \in Nat
    BY UsingFinite
  <2>2. /\ IsFiniteSet(Using(e) \ {t})
        /\ Cardinality(Using(e) \ {t}) = Cardinality(Using(e)) - 1
    BY <1>4, <2>1, FS_RemoveElement
  <2>3. Cardinality(Using(e) \ {t}) \in Nat
    BY <2>2, FS_CardinalityType
  <2>. QED
    BY <1>2, <2>1, <2>2, <2>3 DEF Table, Counted
<1>8. users' \in [Entries -> Nat] /\ users'[e] = Cardinality(Using(e) \ {t})
  BY <1>2, <1>3, <1>7
<1>9. Counted'
  <2>. SUFFICES ASSUME NEW f \in Entries PROVE users'[f] = Cardinality(Using(f)')
    BY DEF Counted
  <2>1. CASE f = e
    BY <1>5, <1>8, <2>1
  <2>2. CASE f # e
    <3>1. users'[f] = users[f] /\ Using(f)' = Using(f)
      BY <1>2, <1>3, <1>6, <2>2
    <3>. QED
      BY <3>1 DEF Table, Counted
  <2>. QED
    BY <2>1, <2>2
<1>10. users[e] = 1 <=> Using(e)' = {}
  <2>1. Cardinality(Using(e) \ {t}) = 0 <=> Using(e) \ {t} = {}
    BY <1>7, FS_EmptySet
  <2>2. users[e] = 1 <=> Cardinality(Using(e) \ {t}) = 0
    BY <1>7
  <2>. QED
    BY <1>5, <2>1, <2>2
<1>11. Registered'
  <2>. SUFFICES ASSUME NEW u \in Tasks, pc'[u] # "idle"
                PROVE  at'[u] \in Sessions \X Entries /\ registry'[at'[u][1]] = at'[u][2]
    BY DEF Registered, Here
  <2>1. u # t /\ pc[u] # "idle" /\ at'[u] = at[u]
    BY <1>3
  <2>2. at[u] \in Sessions \X Entries /\ registry[at[u][1]] = at[u][2]
    BY <2>1 DEF Table, Registered, Here
  <2>3. CASE users[e] = 1
    <3>1. u \notin Using(e)
      BY <1>5, <1>10, <2>1, <2>3
    <3>2. at[u][2] # e
      BY <2>1, <3>1 DEF Using, Here
    <3>3. at[u][1] # s
      BY <1>2, <2>2, <3>2
    <3>. QED
      BY <1>3, <2>1, <2>2, <3>3
  <2>4. CASE users[e] # 1
    BY <1>3, <2>1, <2>2, <2>4
  <2>. QED
    BY <2>3, <2>4
<1>12. OneSession'
  BY <1>2, <1>3 DEF Table, OneSession
<1>13. InUse'
  <2>. SUFFICES ASSUME NEW r \in Sessions, registry'[r] # None PROVE Using(registry[r])' # {}
    BY DEF InUse
  <2>1. registry'[r] = registry[r] /\ registry[r] \in Entries
    BY <1>2, <1>3
  <2>2. CASE registry[r] = e
    <3>1. users[e] # 1
      BY <1>2, <1>3, <2>1, <2>2, NoneAssumption DEF Table, OneSession
    <3>. QED
      BY <1>10, <2>1, <2>2, <3>1
  <2>3. CASE registry[r] # e
    <3>1. Using(registry[r]) # {}
      BY <2>1, NoneAssumption DEF Table, InUse
    <3>. QED
      BY <1>6, <2>1, <2>3, <3>1
  <2>. QED
    BY <2>2, <2>3
<1>14. registry' \in [Sessions -> Entries \cup {None}]
  BY <1>2, <1>3
<1>. QED
  BY <1>8, <1>9, <1>11, <1>12, <1>13, <1>14 DEF Table

\* Steps inside acquire() change neither the table nor who is in it.
LEMMA SameTable ==
    ASSUME Table, UNCHANGED <<registry, users, at>>,
           \A t \in Tasks : pc'[t] = "idle" <=> pc[t] = "idle"
    PROVE  Table'
<1>1. \A e : Using(e)' = Using(e)
  BY DEF Using, Here
<1>. QED
  BY <1>1 DEF Table, Registered, OneSession, Counted, InUse, Here

---------------------------------------------------------------------------
(***************************************************************************)
(* The queues.                                                             *)
(***************************************************************************)
\* A task that left place i of its queue is in no queue any more.
LEMMA RemoveFromQueue ==
    ASSUME TypeOK, Queued, QueuedOnce, NEW t \in Tasks, NEW e \in Entries,
           Here(t) = e, NEW i \in 1 .. Len(waiters[e]), waiters[e][i] = t,
           waiters' = [waiters EXCEPT ![e] = RemoveAt(@, i)],
           \A u \in Tasks : u # t => pc'[u] = pc[u] /\ at'[u] = at[u]
    PROVE  /\ waiters' \in [Entries -> Seq(Tasks)]
           /\ Queued' /\ QueuedOnce'
<1>. USE DEF TypeOK
<1>1. /\ waiters[e] \in Seq(Tasks) /\ Len(waiters[e]) \in Nat
      /\ waiters'[e] = RemoveAt(waiters[e], i)
      /\ \A f \in Entries : f # e => waiters'[f] = waiters[f]
  OBVIOUS
<1>2. /\ waiters'[e] \in Seq(Tasks)
      /\ Len(waiters'[e]) = Len(waiters[e]) - 1
      /\ \A j \in 1 .. Len(waiters[e]) - 1 :
            waiters'[e][j] = IF j < i THEN waiters[e][j] ELSE waiters[e][j + 1]
  <2>1. /\ RemoveAt(waiters[e], i) \in Seq(Tasks)
        /\ Len(RemoveAt(waiters[e], i)) = Len(waiters[e]) - 1
        /\ \A j \in 1 .. Len(waiters[e]) - 1 :
              RemoveAt(waiters[e], i)[j] = IF j < i THEN waiters[e][j] ELSE waiters[e][j + 1]
    BY <1>1, RemoveAtElements
  <2>. QED
    BY <1>1, <2>1
<1>3. waiters' \in [Entries -> Seq(Tasks)]
  BY <1>1, <1>2
<1>4. ASSUME NEW f \in Entries, NEW j \in 1 .. Len(waiters'[f])
      PROVE  pc'[waiters'[f][j]] = "waiting" /\ at'[waiters'[f][j]][2] = f
  <2>1. CASE f # e
    <3>1. waiters[f] \in Seq(Tasks) /\ j \in 1 .. Len(waiters[f]) /\ waiters'[f][j] = waiters[f][j]
      BY <1>1, <2>1
    <3>2. pc[waiters[f][j]] = "waiting" /\ Here(waiters[f][j]) = f /\ waiters[f][j] \in Tasks
      BY <3>1 DEF Queued
    <3>3. waiters[f][j] # t
      BY <2>1, <3>2
    <3>. QED
      BY <3>1, <3>2, <3>3 DEF Here
  <2>2. CASE f = e
    <3>1. PICK k \in 1 .. Len(waiters[e]) : k # i /\ waiters'[e][j] = waiters[e][k]
      <4>1. j \in 1 .. Len(waiters[e]) - 1 /\ j \in Nat
        BY <1>1, <1>2, <2>2
      <4>2. CASE j < i
        BY <1>1, <1>2, <4>1, <4>2
      <4>3. CASE ~(j < i)
        <5>1. waiters'[e][j] = waiters[e][j + 1]
          BY <1>2, <4>1, <4>3
        <5>2. j + 1 \in 1 .. Len(waiters[e]) /\ j + 1 # i
          BY <1>1, <4>1, <4>3
        <5>. QED
          BY <5>1, <5>2
      <4>. QED
        BY <4>2, <4>3
    <3>2. pc[waiters[e][k]] = "waiting" /\ Here(waiters[e][k]) = e /\ waiters[e][k] \in Tasks
      BY <1>1 DEF Queued
    <3>3. waiters[e][k] # t
      BY <3>1 DEF QueuedOnce
    <3>. QED
      BY <2>2, <3>1, <3>2, <3>3 DEF Here
  <2>. QED
    BY <2>1, <2>2
<1>5. ASSUME NEW f \in Entries, NEW j \in 1 .. Len(waiters'[f]), NEW k \in 1 .. Len(waiters'[f]),
             waiters'[f][j] = waiters'[f][k]
      PROVE  j = k
  <2>1. CASE f # e
    BY <1>1, <1>5, <2>1 DEF QueuedOnce
  <2>2. CASE f = e
    <3>. DEFINE old(n) == IF n < i THEN n ELSE n + 1
    <3>1. \A n \in 1 .. Len(waiters'[e]) :
             old(n) \in 1 .. Len(waiters[e]) /\ waiters'[e][n] = waiters[e][old(n)]
      BY <1>1, <1>2
    <3>2. old(j) \in 1 .. Len(waiters[e]) /\ waiters'[e][j] = waiters[e][old(j)]
      BY <2>2, <3>1
    <3>3. old(k) \in 1 .. Len(waiters[e]) /\ waiters'[e][k] = waiters[e][old(k)]
      BY <2>2, <3>1
    <3>4. old(j) = old(k)
      BY <1>5, <2>2, <3>2, <3>3 DEF QueuedOnce
    <3>5. j \in Nat /\ k \in Nat /\ i \in Nat
      BY <1>1, <1>2, <2>2
    <3>. QED
      BY <3>4, <3>5
  <2>. QED
    BY <2>1, <2>2
<1>6. Queued'
  BY <1>4 DEF Queued, Here
<1>7. QueuedOnce'
  BY <1>5 DEF QueuedOnce
<1>. QED
  BY <1>3, <1>6, <1>7

\* A task that enters a free entry passes nobody who was woken; one that
\* queues up stands behind everybody.
LEMMA EnterQueue ==
    ASSUME TypeOK, Table, Queue, NEW t \in Tasks, NEW s \in Sessions, NEW e \in Entries,
           Enter(t, s, e)
    PROVE  TypeOK' /\ Queue'
<1>. USE DEF TypeOK
<1>1. /\ pc[t] = "idle"
      /\ registry' = [registry EXCEPT ![s] = e]
      /\ users' = [users EXCEPT ![e] = @ + 1]
      /\ at' = [at EXCEPT ![t] = <<s, e>>]
      /\ doomed' = doomed
  BY DEF Enter, CountUser
<1>2. at'[t] = <<s, e>> /\ \A u \in Tasks : u # t => at'[u] = at[u]
  BY <1>1
<1>3. \A f \in Entries : \A i \in 1 .. Len(waiters[f]) :
         waiters[f][i] # t /\ waiters[f][i] \in Tasks
  BY <1>1 DEF Queue, Queued
<1>4. CASE /\ FreeFor(e)
           /\ locked' = [locked EXCEPT ![e] = TRUE]
           /\ pc' = [pc EXCEPT ![t] = "in"]
           /\ UNCHANGED <<waiters, future>>
  <2>1. TypeOK'
    BY <1>1, <1>4
  <2>2. \A u \in Tasks : u # t => pc'[u] = pc[u] /\ at'[u] = at[u]
    BY <1>2, <1>4 DEF Here
  <2>3. pc'[t] = "in" /\ at'[t][2] = e /\ locked'[e] /\ ~locked[e]
    BY <1>2, <1>4 DEF Here, FreeFor
  <2>4. Queued' /\ QueuedOnce'
    <3>1. Queued'
      BY <1>3, <1>4, <2>2 DEF Queue, Queued, Here
    <3>2. QueuedOnce'
      BY <1>4 DEF Queue, QueuedOnce
    <3>. QED
      BY <3>1, <3>2
  <2>5. HolderLocks'
    <3>. SUFFICES ASSUME NEW u \in Tasks, pc'[u] = "in" PROVE locked'[at'[u][2]]
      BY DEF HolderLocks, Here
    <3>1. CASE u = t
      BY <2>3, <3>1
    <3>2. CASE u # t
      <4>1. locked[at[u][2]] /\ at[u][2] \in Entries
        BY <2>2, <3>2 DEF Queue, HolderLocks, Table, Registered, Here
      <4>. QED
        BY <1>4, <2>2, <3>2, <4>1
    <3>. QED
      BY <3>1, <3>2
  <2>6. OneHolder'
    <3>1. \A u \in Tasks : pc[u] = "in" => at[u][2] # e
      BY <2>3 DEF Queue, HolderLocks, Here
    <3>2. \A u \in Tasks : pc'[u] = "in" /\ at'[u][2] = e => u = t
      BY <2>2, <3>1
    <3>3. ASSUME NEW u \in Tasks, NEW v \in Tasks,
                 pc'[u] = "in", pc'[v] = "in", at'[u][2] = at'[v][2]
          PROVE  u = v
      <4>1. CASE u = t \/ v = t
        BY <2>3, <3>2, <3>3, <4>1
      <4>2. CASE u # t /\ v # t
        BY <2>2, <3>3, <4>2 DEF Queue, OneHolder, Here
      <4>. QED
        BY <4>1, <4>2
    <3>. QED
      BY <3>3 DEF OneHolder, Here
  <2>7. WokenIsHead'
    <3>. SUFFICES ASSUME NEW u \in Tasks, pc'[u] = "waiting", future'[u] = "woken"
                  PROVE  /\ ~locked'[at'[u][2]]
                         /\ Len(waiters'[at'[u][2]]) > 0
                         /\ waiters'[at'[u][2]][1] = u
      BY DEF WokenIsHead, Here
    <3>1. u # t /\ pc[u] = "waiting" /\ future[u] = "woken" /\ at'[u] = at[u]
      BY <1>4, <2>2, <2>3
    <3>2. /\ ~locked[at[u][2]] /\ Len(waiters[at[u][2]]) > 0 /\ waiters[at[u][2]][1] = u
          /\ at[u][2] \in Entries
      BY <3>1 DEF Queue, WokenIsHead, Table, Registered, Here
    <3>3. at[u][2] # e
      <4>1. at[u][2] = e => 1 \in 1 .. Len(waiters[e])
        BY <3>2
      <4>. QED
        BY <1>4, <3>1, <3>2, <4>1 DEF FreeFor
    <3>. QED
      BY <1>4, <3>1, <3>2, <3>3
  <2>. QED
    BY <2>1, <2>4, <2>5, <2>6, <2>7 DEF Queue
<1>5. CASE /\ ~FreeFor(e)
           /\ waiters' = [waiters EXCEPT ![e] = Append(@, t)]
           /\ future' = [future EXCEPT ![t] = "pending"]
           /\ pc' = [pc EXCEPT ![t] = "waiting"]
           /\ UNCHANGED locked
  <2>0. /\ waiters[e] \in Seq(Tasks) /\ Len(waiters[e]) \in Nat
        /\ waiters'[e] \in Seq(Tasks)
        /\ Len(waiters'[e]) = Len(waiters[e]) + 1
        /\ \A i \in 1 .. Len(waiters[e]) : waiters'[e][i] = waiters[e][i]
        /\ waiters'[e][Len(waiters[e]) + 1] = t
        /\ \A f \in Entries : f # e => waiters'[f] = waiters[f]
    BY <1>5
  <2>1. TypeOK'
    BY <1>1, <1>5, <2>0
  <2>2. \A u \in Tasks : u # t => pc'[u] = pc[u] /\ at'[u] = at[u]
    BY <1>2, <1>5 DEF Here
  <2>3. pc'[t] = "waiting" /\ at'[t][2] = e /\ future'[t] = "pending"
    BY <1>2, <1>5 DEF Here
  <2>4. \A i \in 1 .. Len(waiters'[e]) : i \in 1 .. Len(waiters[e]) \/ i = Len(waiters[e]) + 1
    BY <2>0
  <2>5. Queued'
    <3>. SUFFICES ASSUME NEW f \in Entries, NEW i \in 1 .. Len(waiters'[f])
                  PROVE  pc'[waiters'[f][i]] = "waiting" /\ at'[waiters'[f][i]][2] = f
      BY DEF Queued, Here
    <3>1. CASE i \in 1 .. Len(waiters[f])
      <4>1. waiters'[f][i] = waiters[f][i]
        BY <2>0, <3>1
      <4>2. waiters[f][i] # t /\ waiters[f][i] \in Tasks
        BY <1>3, <3>1
      <4>3. pc[waiters[f][i]] = "waiting" /\ Here(waiters[f][i]) = f
        BY <3>1 DEF Queue, Queued
      <4>. QED
        BY <1>2, <1>5, <4>1, <4>2, <4>3 DEF Here
    <3>2. CASE i \notin 1 .. Len(waiters[f])
      <4>1. f = e /\ waiters'[f][i] = t
        BY <2>0, <2>4, <3>2
      <4>. QED
        BY <1>2, <1>5, <4>1 DEF Here
    <3>. QED
      BY <3>1, <3>2
  <2>6. QueuedOnce'
    <3>. SUFFICES ASSUME NEW f \in Entries, NEW i \in 1 .. Len(waiters'[f]),
                         NEW j \in 1 .. Len(waiters'[f]), waiters'[f][i] = waiters'[f][j]
                  PROVE  i = j
      BY DEF QueuedOnce
    <3>1. CASE f # e
      BY <2>0, <3>1 DEF Queue, QueuedOnce
    <3>2. CASE f = e
      <4>1. \A k \in 1 .. Len(waiters[e]) : waiters'[e][k] # t
        BY <1>3, <2>0
      <4>2. CASE i \in 1 .. Len(waiters[e]) /\ j \in 1 .. Len(waiters[e])
        BY <2>0, <3>2, <4>2 DEF Queue, QueuedOnce
      <4>3. CASE i \notin 1 .. Len(waiters[e]) \/ j \notin 1 .. Len(waiters[e])
        <5>1. i = Len(waiters[e]) + 1 \/ j = Len(waiters[e]) + 1
          BY <2>4, <3>2, <4>3
        <5>2. waiters'[e][i] = t /\ waiters'[e][j] = t
          BY <2>0, <3>2, <5>1
        <5>. QED
          BY <2>4, <3>2, <4>1, <5>2
      <4>. QED
        BY <4>2, <4>3
    <3>. QED
      BY <3>1, <3>2
  <2>7. HolderLocks' /\ OneHolder'
    BY <1>5, <2>2, <2>3 DEF Queue, HolderLocks, OneHolder, Here
  <2>8. WokenIsHead'
    <3>. SUFFICES ASSUME NEW u \in Tasks, pc'[u] = "waiting", future'[u] = "woken"
                  PROVE  /\ ~locked'[at'[u][2]]
                         /\ Len(waiters'[at'[u][2]]) > 0
                         /\ waiters'[at'[u][2]][1] = u
      BY DEF WokenIsHead, Here
    <3>1. u # t /\ pc[u] = "waiting" /\ future[u] = "woken" /\ at'[u] = at[u]
      BY <1>5, <2>2, <2>3
    <3>2. /\ ~locked[at[u][2]] /\ Len(waiters[at[u][2]]) > 0 /\ waiters[at[u][2]][1] = u
          /\ at[u][2] \in Entries
      BY <3>1 DEF Queue, WokenIsHead, Table, Registered, Here
    <3>3. CASE at[u][2] = e
      <4>1. 1 \in 1 .. Len(waiters[e])
        BY <2>0, <3>2, <3>3
      <4>. QED
        BY <1>5, <2>0, <3>1, <3>2, <3>3, <4>1
    <3>4. CASE at[u][2] # e
      BY <1>5, <2>0, <3>1, <3>2, <3>4
    <3>. QED
      BY <3>3, <3>4
  <2>. QED
    BY <2>1, <2>5, <2>6, <2>7, <2>8 DEF Queue
<1>. QED
  BY <1>4, <1>5 DEF Enter

\* A holder that leaves frees the lock and wakes the head of the queue.
LEMMA ReleaseQueue ==
    ASSUME TypeOK, Table, Queue, NEW t \in Tasks, Release(t),
           users' \in [Entries -> Nat], registry' \in [Sessions -> Entries \cup {None}]
    PROVE  TypeOK' /\ Queue'
<1>. USE DEF TypeOK
<1>1. PICK e \in Entries : Here(t) = e
  BY DEF Release, Table, Registered, Here
<1>2. /\ pc[t] = "in"
      /\ locked' = [locked EXCEPT ![e] = FALSE]
      /\ future' = Woken(waiters[e])
      /\ pc' = [pc EXCEPT ![t] = "idle"]
      /\ at' = [at EXCEPT ![t] = None]
      /\ UNCHANGED <<waiters, doomed>>
  BY <1>1 DEF Release, Leave
<1>3. /\ future' \in [Tasks -> {"pending", "woken", "cancelled"}]
      /\ \A u \in Tasks : future'[u] = "woken" =>
            future[u] = "woken" \/ (Len(waiters[e]) > 0 /\ waiters[e][1] = u)
  BY <1>2, WokenFuture
<1>4. TypeOK'
  BY <1>2, <1>3
<1>5. pc'[t] = "idle" /\ \A u \in Tasks : u # t => pc'[u] = pc[u] /\ at'[u] = at[u]
  BY <1>2
<1>6. Queued'
  <2>1. \A f \in Entries : \A i \in 1 .. Len(waiters[f]) :
           waiters[f][i] # t /\ waiters[f][i] \in Tasks
    BY <1>2 DEF Queue, Queued
  <2>. QED
    BY <1>2, <1>5, <2>1 DEF Queue, Queued, Here
<1>7. QueuedOnce'
  BY <1>2 DEF Queue, QueuedOnce
<1>8. HolderLocks'
  <2>. SUFFICES ASSUME NEW u \in Tasks, pc'[u] = "in" PROVE locked'[at'[u][2]]
    BY DEF HolderLocks, Here
  <2>1. u # t /\ pc[u] = "in" /\ at'[u] = at[u]
    BY <1>5
  <2>2. locked[at[u][2]] /\ at[u][2] \in Entries /\ at[u][2] # e
    BY <1>1, <1>2, <2>1 DEF Queue, HolderLocks, OneHolder, Table, Registered, Here
  <2>. QED
    BY <1>2, <2>1, <2>2
<1>9. OneHolder'
  <2>. SUFFICES ASSUME NEW u \in Tasks, NEW v \in Tasks,
                       pc'[u] = "in", pc'[v] = "in", at'[u][2] = at'[v][2]
                PROVE  u = v
    BY DEF OneHolder, Here
  <2>1. u # t /\ v # t
    BY <1>5
  <2>. QED
    BY <1>5, <2>1 DEF Queue, OneHolder, Here
<1>10. WokenIsHead'
  <2>. SUFFICES ASSUME NEW u \in Tasks, pc'[u] = "waiting", future'[u] = "woken"
                PROVE  /\ ~locked'[at'[u][2]]
                       /\ Len(waiters'[at'[u][2]]) > 0
                       /\ waiters'[at'[u][2]][1] = u
    BY DEF WokenIsHead, Here
  <2>1. u # t /\ pc[u] = "waiting" /\ at'[u] = at[u] /\ at[u][2] \in Entries
    BY <1>5 DEF Table, Registered
  <2>2. CASE future[u] = "woken"
    BY <1>2, <2>1, <2>2 DEF Queue, WokenIsHead, Here
  <2>3. CASE Len(waiters[e]) > 0 /\ waiters[e][1] = u
    <3>1. 1 \in 1 .. Len(waiters[e])
      BY <2>3
    <3>2. at[u][2] = e
      BY <2>3, <3>1 DEF Queue, Queued, Here
    <3>. QED
      BY <1>2, <2>1, <2>3, <3>2
  <2>. QED
    BY <1>3, <2>2, <2>3
<1>. QED
  BY <1>4, <1>6, <1>7, <1>8, <1>9, <1>10 DEF Queue

\* A woken waiter takes a lock that is still free.
LEMMA ResumeQueue ==
    ASSUME TypeOK, Table, Queue, NEW t \in Tasks, NEW i \in Nat, Resume(t, i)
    PROVE  TypeOK' /\ Queue'
<1>. USE DEF TypeOK
<1>1. PICK e \in Entries : Here(t) = e
  BY DEF Resume, Table, Registered, Here
<1>2. /\ pc[t] = "waiting" /\ future[t] = "woken"
      /\ i \in 1 .. Len(waiters[e]) /\ waiters[e][i] = t
      /\ waiters' = [waiters EXCEPT ![e] = RemoveAt(@, i)]
      /\ locked' = [locked EXCEPT ![e] = TRUE]
      /\ pc' = [pc EXCEPT ![t] = "in"]
      /\ UNCHANGED <<registry, users, at, future, doomed>>
  BY <1>1 DEF Resume
<1>3. pc'[t] = "in" /\ at'[t][2] = e /\ \A u \in Tasks : u # t => pc'[u] = pc[u] /\ at'[u] = at[u]
  BY <1>1, <1>2 DEF Here
<1>4. ~locked[e] /\ Len(waiters[e]) > 0 /\ waiters[e][1] = t
  BY <1>1, <1>2 DEF Queue, WokenIsHead
<1>5. waiters' \in [Entries -> Seq(Tasks)] /\ Queued' /\ QueuedOnce'
  <2>. HIDE DEF TypeOK
  <2>1. Queued /\ QueuedOnce
    BY DEF Queue
  <2>. QED
    BY <1>1, <1>2, <1>3, <2>1, RemoveFromQueue
<1>6. TypeOK'
  BY <1>2, <1>5
<1>7. \A u \in Tasks : u # t /\ pc[u] = "in" => locked[at[u][2]] /\ at[u][2] # e
  BY <1>4 DEF Queue, HolderLocks, Here
<1>8. HolderLocks'
  <2>. SUFFICES ASSUME NEW u \in Tasks, pc'[u] = "in" PROVE locked'[at'[u][2]]
    BY DEF HolderLocks, Here
  <2>1. CASE u = t
    BY <1>2, <1>3, <2>1
  <2>2. CASE u # t
    BY <1>2, <1>3, <1>7, <2>2 DEF Table, Registered
  <2>. QED
    BY <2>1, <2>2
<1>9. OneHolder'
  <2>1. \A u \in Tasks : pc'[u] = "in" /\ at'[u][2] = e => u = t
    BY <1>3, <1>7
  <2>2. ASSUME NEW u \in Tasks, NEW v \in Tasks,
               pc'[u] = "in", pc'[v] = "in", at'[u][2] = at'[v][2]
        PROVE  u = v
    <3>1. CASE u = t \/ v = t
      BY <1>3, <2>1, <2>2, <3>1
    <3>2. CASE u # t /\ v # t
      BY <1>3, <2>2, <3>2 DEF Queue, OneHolder, Here
    <3>. QED
      BY <3>1, <3>2
  <2>. QED
    BY <2>2 DEF OneHolder, Here
<1>10. WokenIsHead'
  <2>. SUFFICES ASSUME NEW u \in Tasks, pc'[u] = "waiting", future'[u] = "woken"
                PROVE  /\ ~locked'[at'[u][2]]
                       /\ Len(waiters'[at'[u][2]]) > 0
                       /\ waiters'[at'[u][2]][1] = u
    BY DEF WokenIsHead, Here
  <2>1. u # t /\ pc[u] = "waiting" /\ future[u] = "woken" /\ at'[u] = at[u]
    BY <1>2, <1>3
  <2>2. /\ ~locked[at[u][2]] /\ Len(waiters[at[u][2]]) > 0 /\ waiters[at[u][2]][1] = u
        /\ at[u][2] \in Entries
    BY <2>1 DEF Queue, WokenIsHead, Table, Registered, Here
  <2>3. at[u][2] # e
    BY <1>4, <2>1, <2>2
  <2>. QED
    BY <1>2, <2>1, <2>2, <2>3
<1>. QED
  BY <1>5, <1>6, <1>8, <1>9, <1>10 DEF Queue

\* Cancelling a waiter wakes nobody.
LEMMA CancelQueue ==
    ASSUME TypeOK, Queue, NEW t \in Tasks, Cancel(t)
    PROVE  TypeOK' /\ Queue'
<1>. USE DEF TypeOK
<1>1. /\ doomed' = [doomed EXCEPT ![t] = TRUE]
      /\ future' = [future EXCEPT ![t] = IF @ = "pending" THEN "cancelled" ELSE @]
      /\ UNCHANGED <<registry, users, locked, waiters, pc, at>>
  BY DEF Cancel
<1>2. TypeOK'
  BY <1>1
<1>3. Queued' /\ QueuedOnce' /\ HolderLocks' /\ OneHolder'
  BY <1>1 DEF Queue, Queued, QueuedOnce, HolderLocks, OneHolder, Here
<1>4. \A u \in Tasks : future'[u] = "woken" => future[u] = "woken"
  BY <1>1
<1>5. WokenIsHead'
  BY <1>1, <1>4 DEF Queue, WokenIsHead, Here
<1>. QED
  BY <1>2, <1>3, <1>5 DEF Queue

\* A cancelled waiter that leaves passes a free lock to the new head.
LEMMA AbortQueue ==
    ASSUME TypeOK, Table, Queue, NEW t \in Tasks, NEW i \in Nat, Abort(t, i),
           users' \in [Entries -> Nat], registry' \in [Sessions -> Entries \cup {None}]
    PROVE  TypeOK' /\ Queue'
<1>. USE DEF TypeOK
<1>1. PICK e \in Entries : Here(t) = e
  BY DEF Abort, Table, Registered, Here
<1>2. /\ pc[t] = "waiting"
      /\ i \in 1 .. Len(waiters[e]) /\ waiters[e][i] = t
      /\ waiters' = [waiters EXCEPT ![e] = RemoveAt(@, i)]
      /\ future' = IF locked[e] THEN future ELSE Woken(RemoveAt(waiters[e], i))
      /\ doomed' = [doomed EXCEPT ![t] = FALSE]
      /\ pc' = [pc EXCEPT ![t] = "idle"]
      /\ at' = [at EXCEPT ![t] = None]
      /\ UNCHANGED locked
  BY <1>1 DEF Abort, Leave, PassedOn
<1>3. pc'[t] = "idle" /\ \A u \in Tasks : u # t => pc'[u] = pc[u] /\ at'[u] = at[u]
  BY <1>2
<1>4. waiters' \in [Entries -> Seq(Tasks)] /\ Queued' /\ QueuedOnce'
  <2>. HIDE DEF TypeOK
  <2>1. Queued /\ QueuedOnce
    BY DEF Queue
  <2>. QED
    BY <1>1, <1>2, <1>3, <2>1, RemoveFromQueue
<1>5. /\ waiters'[e] = RemoveAt(waiters[e], i)
      /\ waiters'[e] \in Seq(Tasks)
      /\ Len(waiters'[e]) = Len(waiters[e]) - 1
      /\ \A j \in 1 .. Len(waiters[e]) - 1 :
            waiters'[e][j] = IF j < i THEN waiters[e][j] ELSE waiters[e][j + 1]
  <2>1. waiters[e] \in Seq(Tasks)
    OBVIOUS
  <2>2. waiters'[e] = RemoveAt(waiters[e], i)
    BY <1>2
  <2>. QED
    BY <1>2, <2>1, <2>2, RemoveAtElements
<1>6. /\ future' \in [Tasks -> {"pending", "woken", "cancelled"}]
      /\ \A u \in Tasks : future'[u] = "woken" =>
            \/ future[u] = "woken"
            \/ ~locked[e] /\ Len(waiters'[e]) > 0 /\ waiters'[e][1] = u
  <2>1. CASE locked[e]
    BY <1>2, <2>1
  <2>2. CASE ~locked[e]
    <3>1. future' = Woken(waiters'[e])
      BY <1>2, <1>5, <2>2
    <3>. QED
      BY <1>5, <2>2, <3>1, WokenFuture
  <2>. QED
    BY <2>1, <2>2
<1>7. TypeOK'
  BY <1>2, <1>4, <1>6
<1>8. HolderLocks' /\ OneHolder'
  BY <1>2, <1>3 DEF Queue, HolderLocks, OneHolder, Here
<1>9. WokenIsHead'
  <2>. SUFFICES ASSUME NEW u \in Tasks, pc'[u] = "waiting", future'[u] = "woken"
                PROVE  /\ ~locked'[at'[u][2]]
                       /\ Len(waiters'[at'[u][2]]) > 0
                       /\ waiters'[at'[u][2]][1] = u
    BY DEF WokenIsHead, Here
  <2>1. u # t /\ pc[u] = "waiting" /\ at'[u] = at[u] /\ at[u][2] \in Entries
    BY <1>3 DEF Table, Registered
  <2>2. CASE future[u] = "woken"
    <3>1. ~locked[at[u][2]] /\ Len(waiters[at[u][2]]) > 0 /\ waiters[at[u][2]][1] = u
      BY <2>1, <2>2 DEF Queue, WokenIsHead, Here
    <3>2. CASE at[u][2] = e
      <4>1. i # 1 /\ i \in Nat /\ Len(waiters[e]) \in Nat
        BY <1>2, <2>1, <3>1, <3>2
      <4>2. 1 \in 1 .. Len(waiters[e]) - 1 /\ 1 < i
        BY <1>2, <4>1
      <4>. QED
        BY <1>2, <1>5, <2>1, <3>1, <3>2, <4>2
    <3>3. CASE at[u][2] # e
      BY <1>2, <2>1, <3>1, <3>3
    <3>. QED
      BY <3>2, <3>3
  <2>3. CASE ~locked[e] /\ Len(waiters'[e]) > 0 /\ waiters'[e][1] = u
    <3>1. 1 \in 1 .. Len(waiters'[e])
      BY <1>5, <2>3
    <3>2. at'[waiters'[e][1]][2] = e
      BY <1>4, <3>1 DEF Queued, Here
    <3>. QED
      BY <1>2, <2>3, <3>2
  <2>. QED
    BY <1>6, <2>2, <2>3
<1>. QED
  BY <1>4, <1>7, <1>8, <1>9 DEF Queue

---------------------------------------------------------------------------
(***************************************************************************)
(* The theorems.                                                           *)
(***************************************************************************)
LEMMA InitIInv == Init => IInv
<1>. SUFFICES ASSUME Init PROVE IInv
  OBVIOUS
<1>1. TypeOK
  BY DEF Init, TypeOK
<1>2. \A e \in Entries : Using(e) = {}
  BY DEF Init, Using
<1>3. Table
  BY <1>2, FS_EmptySet DEF Init, Table, Registered, OneSession, Counted, InUse
<1>4. Queue
  BY DEF Init, Queue, Queued, QueuedOnce, HolderLocks, OneHolder, WokenIsHead
<1>. QED
  BY <1>1, <1>3, <1>4 DEF IInv

LEMMA StepIInv == IInv /\ [Next]_vars => IInv'
<1>. SUFFICES ASSUME IInv, [Next]_vars PROVE IInv'
  OBVIOUS
<1>1. TypeOK /\ Table /\ Queue
  BY DEF IInv
<1>2. ASSUME NEW t \in Tasks, NEW s \in Sessions, NEW e \in Entries, Enter(t, s, e)
      PROVE  IInv'
  BY <1>1, <1>2, EnterTable, EnterQueue DEF IInv
<1>3. ASSUME NEW t \in Tasks, Release(t)
      PROVE  IInv'
  <2>1. pc[t] # "idle" /\ Leave(t)
    BY <1>3 DEF Release
  <2>. QED
    BY <1>1, <1>3, <2>1, LeaveTable, ReleaseQueue DEF IInv
<1>4. ASSUME NEW t \in Tasks, Cancel(t)
      PROVE  IInv'
  <2>1. Table'
    BY <1>1, <1>4, SameTable DEF Cancel
  <2>. QED
    BY <1>1, <1>4, <2>1, CancelQueue DEF IInv
<1>5. ASSUME NEW t \in Tasks, NEW i \in Places(t), Resume(t, i)
      PROVE  IInv'
  <2>1. i \in Nat
    BY <1>5 DEF Resume
  <2>2. \A u \in Tasks : pc'[u] = "idle" <=> pc[u] = "idle"
    BY <1>1, <1>5 DEF Resume, TypeOK
  <2>3. Table'
    BY <1>1, <1>5, <2>2, SameTable DEF Resume
  <2>. QED
    BY <1>1, <1>5, <2>1, <2>3, ResumeQueue DEF IInv
<1>6. ASSUME NEW t \in Tasks, NEW i \in Places(t), Abort(t, i)
      PROVE  IInv'
  <2>1. i \in Nat /\ pc[t] # "idle" /\ Leave(t)
    BY <1>6 DEF Abort
  <2>. QED
    BY <1>1, <1>6, <2>1, LeaveTable, AbortQueue DEF IInv
<1>7. CASE UNCHANGED vars
  <2>1. Table'
    BY <1>1, <1>7, SameTable DEF vars
  <2>. QED
    BY <1>1, <1>7, <2>1 DEF vars, IInv, TypeOK, Queue, Queued, QueuedOnce,
                           HolderLocks, OneHolder, WokenIsHead, Here
<1>. QED
  BY <1>2, <1>3, <1>4, <1>5, <1>6, <1>7 DEF Next

THEOREM Invariance == Spec => []IInv
<1>. QED
  BY InitIInv, StepIInv, PTL DEF Spec

\* Every reachable state is well typed: no count falls below zero.
THEOREM TypeCorrect == Spec => []TypeOK
<1>1. IInv => TypeOK
  BY DEF IInv
<1>. QED
  BY <1>1, Invariance, PTL

\* Two tasks of one session are registered under one entry, and an entry has
\* one holder.
LEMMA IInvMutualExclusion == IInv => MutualExclusion
<1>. SUFFICES ASSUME IInv, NEW s \in Sessions, NEW t \in Holders(s), NEW u \in Holders(s)
              PROVE  t = u
  BY DEF MutualExclusion
<1>1. t \in Tasks /\ u \in Tasks /\ pc[t] = "in" /\ pc[u] = "in"
  BY DEF Holders
<1>2. Here(t) = registry[s] /\ Here(u) = registry[s]
  BY <1>1 DEF IInv, Table, Registered, Holders
<1>. QED
  BY <1>1, <1>2 DEF IInv, Queue, OneHolder

\* LockManager.lock: two coroutines never hold the lock of one session.
THEOREM MutualExclusionHolds == Spec => []MutualExclusion
<1>. QED
  BY IInvMutualExclusion, Invariance, PTL

\* The users of a session are the users of its entry.
LEMMA IInvRegistryExact == IInv => RegistryExact
<1>. SUFFICES ASSUME IInv, NEW s \in Sessions
     PROVE LET mine == {t \in Tasks : pc[t] # "idle" /\ at[t][1] = s} IN
           IF mine = {} THEN registry[s] = None
           ELSE /\ \A t \in mine : Here(t) = registry[s]
                /\ users[registry[s]] = Cardinality(mine)
  BY DEF RegistryExact
<1>. DEFINE mine == {t \in Tasks : pc[t] # "idle" /\ at[t][1] = s}
<1>1. \A t \in mine : Here(t) = registry[s] /\ registry[s] \in Entries
  BY DEF IInv, Table, Registered, Here
<1>2. registry[s] # None => mine = Using(registry[s])
  <2>. SUFFICES ASSUME registry[s] # None PROVE mine = Using(registry[s])
    OBVIOUS
  <2>1. mine \subseteq Using(registry[s])
    BY <1>1 DEF Using
  <2>2. ASSUME NEW t \in Using(registry[s]) PROVE t \in mine
    <3>1. /\ t \in Tasks /\ pc[t] # "idle" /\ at[t] \in Sessions \X Entries
          /\ registry[at[t][1]] = registry[s]
      BY DEF Using, IInv, Table, Registered
    <3>2. at[t][1] = s
      BY <3>1 DEF IInv, Table, OneSession
    <3>. QED
      BY <3>1, <3>2
  <2>. QED
    BY <2>1, <2>2
<1>3. CASE mine = {}
  BY <1>2, <1>3 DEF IInv, Table, InUse
<1>4. CASE mine # {}
  <2>1. registry[s] \in Entries /\ registry[s] # None
    BY <1>1, <1>4, NoneAssumption
  <2>2. users[registry[s]] = Cardinality(mine)
    BY <1>2, <2>1 DEF IInv, Table, Counted
  <2>. QED
    BY <1>1, <1>4, <2>2
<1>. QED
  BY <1>3, <1>4

\* LockManager.lock: an entry is registered exactly while it has users, and
\* its count is their number.
THEOREM RegistryExactHolds == Spec => []RegistryExact
<1>. QED
  BY IInvRegistryExact, Invariance, PTL

---------------------------------------------------------------------------
(***************************************************************************)
(* The order of service.                                                   *)
(***************************************************************************)
\* Only a cancellation takes a waiter's future away, and the task is doomed
\* from then until it has left.
CancelledIsDoomed ==
    \A t \in Tasks : pc[t] = "waiting" /\ future[t] = "cancelled" => doomed[t]

LEMMA StepCancelledIsDoomed ==
    IInv /\ CancelledIsDoomed /\ [Next]_vars => CancelledIsDoomed'
<1>. SUFFICES ASSUME IInv, CancelledIsDoomed, [Next]_vars PROVE CancelledIsDoomed'
  OBVIOUS
<1>. USE DEF CancelledIsDoomed
<1>1. TypeOK
  BY DEF IInv
<1>2. ASSUME NEW q, \A t \in Tasks : Woken(q)[t] = "cancelled" => future[t] = "cancelled",
             NEW t \in Tasks, pc'[t] = "idle", future' = future \/ future' = Woken(q),
             \A u \in Tasks : u # t => pc'[u] = pc[u] /\ doomed'[u] = doomed[u]
      PROVE  CancelledIsDoomed'
  BY <1>2
<1>3. \A q : \A t \in Tasks : Woken(q)[t] = "cancelled" => future[t] = "cancelled"
  BY <1>1 DEF Woken, TypeOK
<1>4. ASSUME NEW t \in Tasks, NEW s \in Sessions, NEW e \in Entries, Enter(t, s, e)
      PROVE  CancelledIsDoomed'
  BY <1>1, <1>4 DEF Enter, TypeOK
<1>5. ASSUME NEW t \in Tasks, Release(t)
      PROVE  CancelledIsDoomed'
  <2>1. /\ pc'[t] = "idle" /\ future' = Woken(waiters[Here(t)]) /\ doomed' = doomed
        /\ \A u \in Tasks : u # t => pc'[u] = pc[u]
    BY <1>1, <1>5 DEF Release, Leave, TypeOK
  <2>. QED
    BY <1>2, <1>3, <2>1
<1>6. ASSUME NEW t \in Tasks, Cancel(t)
      PROVE  CancelledIsDoomed'
  BY <1>1, <1>6 DEF Cancel, TypeOK
<1>7. ASSUME NEW t \in Tasks, NEW i \in Places(t), Resume(t, i)
      PROVE  CancelledIsDoomed'
  BY <1>1, <1>7 DEF Resume, TypeOK
<1>8. ASSUME NEW t \in Tasks, NEW i \in Places(t), Abort(t, i)
      PROVE  CancelledIsDoomed'
  <2>. DEFINE q == RemoveAt(waiters[Here(t)], i)
  <2>1. /\ pc'[t] = "idle" /\ (future' = future \/ future' = Woken(q))
        /\ \A u \in Tasks : u # t => pc'[u] = pc[u] /\ doomed'[u] = doomed[u]
    BY <1>1, <1>8 DEF Abort, Leave, PassedOn, TypeOK
  <2>. QED
    BY <1>2, <1>3, <2>1
<1>9. CASE UNCHANGED vars
  BY <1>9 DEF vars
<1>. QED
  BY <1>4, <1>5, <1>6, <1>7, <1>8, <1>9 DEF Next

\* asyncio.Lock under LockManager.lock: a newcomer takes the lock past
\* waiters that were cancelled and no others, and a woken waiter is the
\* first of its queue.
THEOREM FirstComeFirstServedHolds == Spec => FirstComeFirstServed
<1>. DEFINE Q(t) == waiters[at'[t][2]]
            Before(t) == IF pc[t] = "idle" THEN 1 .. Len(Q(t))
                         ELSE {i \in 1 .. Len(Q(t)) : \A j \in 1 .. i : Q(t)[j] # t}
            Fair == \A t \in Tasks : pc[t] # "in" /\ pc'[t] = "in" =>
                        LET q == waiters[at'[t][2]]
                            before == IF pc[t] = "idle" THEN 1 .. Len(q)
                                      ELSE {i \in 1 .. Len(q) : \A j \in 1 .. i : q[j] # t}
                        IN \A i \in before : doomed[q[i]]
<1>1. Init => CancelledIsDoomed
  BY DEF Init, CancelledIsDoomed
<1>2. IInv /\ CancelledIsDoomed /\ [Next]_vars => [Fair]_vars
  <2>. SUFFICES ASSUME IInv, CancelledIsDoomed, Next,
                       NEW t \in Tasks, pc[t] # "in", pc'[t] = "in",
                       NEW i \in Before(t)
                PROVE  doomed[Q(t)[i]]
    OBVIOUS
  <2>1. TypeOK /\ Queued /\ WokenIsHead
    BY DEF IInv, Queue
  <2>2. ASSUME NEW u \in Tasks, Release(u) \/ Cancel(u) \/ \E n \in Places(u) : Abort(u, n)
        PROVE  FALSE
    BY <2>1, <2>2 DEF Release, Cancel, Abort, Leave, TypeOK
  <2>3. ASSUME NEW u \in Tasks, NEW s \in Sessions, NEW e \in Entries, Enter(u, s, e)
        PROVE  doomed[Q(t)[i]]
    <3>1. u = t /\ pc[t] = "idle" /\ at'[t] = <<s, e>> /\ FreeFor(e)
      BY <2>1, <2>3 DEF Enter, TypeOK
    <3>2. i \in 1 .. Len(waiters[e]) /\ Q(t) = waiters[e]
      BY <3>1
    <3>3. waiters[e][i] \in Tasks /\ pc[waiters[e][i]] = "waiting"
      BY <2>1, <3>2 DEF Queued, TypeOK
    <3>4. future[waiters[e][i]] = "cancelled"
      BY <3>1, <3>2 DEF FreeFor
    <3>. QED
      BY <3>2, <3>3, <3>4 DEF CancelledIsDoomed
  <2>4. ASSUME NEW u \in Tasks, NEW n \in Places(u), Resume(u, n)
        PROVE  FALSE
    <3>1. u = t /\ pc[t] = "waiting" /\ future[t] = "woken" /\ at' = at
      BY <2>1, <2>4 DEF Resume, TypeOK
    <3>2. Q(t)[1] = t
      BY <2>1, <3>1 DEF WokenIsHead, Here
    <3>3. i \in 1 .. Len(Q(t)) /\ \A j \in 1 .. i : Q(t)[j] # t
      BY <3>1
    <3>4. 1 \in 1 .. i
      BY <3>3
    <3>. QED
      BY <3>2, <3>3, <3>4
  <2>. QED
    BY <2>2, <2>3, <2>4 DEF Next
<1>. QED
  BY Invariance, StepCancelledIsDoomed, <1>1, <1>2, PTL DEF Spec, FirstComeFirstServed

---------------------------------------------------------------------------
(***************************************************************************)
(* Refinement.                                                             *)
(***************************************************************************)
\* A session's holder is Nobody or its one holding task.
HolderIs ==
    \A s \in Sessions :
        /\ Holders(s) = {} => Holder[s] = Nobody
        /\ \A t \in Holders(s) : Holder[s] = t

LEMMA IInvHolderIs == IInv => HolderIs
<1>. SUFFICES ASSUME IInv, NEW s \in Sessions
     PROVE  /\ Holders(s) = {} => Holder[s] = Nobody
            /\ \A t \in Holders(s) : Holder[s] = t
  BY DEF HolderIs
<1>1. \A t, u \in Holders(s) : t = u
  BY IInvMutualExclusion DEF MutualExclusion
<1>. QED
  BY <1>1 DEF Holder

\* A session whose holders stay the same keeps its holder.
LEMMA SameHolder ==
    ASSUME HolderIs, HolderIs', NEW s \in Sessions, Holders(s)' = Holders(s)
    PROVE  Holder'[s] = Holder[s]
<1>1. Holders(s)' = {} => Holder'[s] = Nobody
  BY DEF HolderIs
<1>2. \A t \in Holders(s)' : Holder'[s] = t
  BY DEF HolderIs
<1>. QED
  BY <1>1, <1>2 DEF HolderIs

\* A task that gets the lock of s finds nobody there.
LEMMA AcquireStep ==
    ASSUME IInv, HolderIs, HolderIs', NEW t \in Tasks, NEW s \in Sessions, NEW e \in Entries,
           pc[t] # "in", pc'[t] = "in", at'[t] = <<s, e>>, ~locked[e],
           registry[s] \in {None, e},
           \A u \in Tasks : u # t => pc'[u] = pc[u] /\ at'[u] = at[u]
    PROVE  Mutex!Next
<1>1. Holders(s) = {}
  <2>. SUFFICES ASSUME NEW u \in Tasks, pc[u] = "in", at[u][1] = s PROVE FALSE
    BY DEF Holders
  <2>1. registry[s] = at[u][2] /\ at[u][2] \in Entries
    BY DEF IInv, Table, Registered, Here
  <2>2. locked[e]
    BY <2>1, NoneAssumption DEF IInv, Queue, HolderLocks, Here
  <2>. QED
    BY <2>2
<1>2. t \in Holders(s)'
  BY DEF Holders
<1>3. \A r \in Sessions : r # s => Holders(r)' = Holders(r)
  BY DEF Holders
<1>4. Holder[s] = Nobody
  BY <1>1 DEF HolderIs
<1>5. Holder'[s] = t
  BY <1>2 DEF HolderIs
<1>6. \A r \in Sessions : r # s => Holder'[r] = Holder[r]
  BY <1>3, SameHolder
<1>7. Holder' = [Holder EXCEPT ![s] = t]
  <2>1. /\ Holder = [r \in Sessions |-> Holder[r]]
        /\ Holder' = [r \in Sessions |-> Holder'[r]]
    BY DEF Holder
  <2>. QED
    BY <1>5, <1>6, <2>1
<1>. QED
  BY <1>4, <1>7 DEF Mutex!Next, Mutex!Acquire

\* A holder that leaves was the one holder of its session.
LEMMA ReleaseStep ==
    ASSUME IInv, HolderIs, HolderIs', NEW t \in Tasks, Release(t)
    PROVE  Mutex!Next
<1>1. PICK s \in Sessions : at[t][1] = s
  BY DEF Release, IInv, Table, Registered
<1>2. pc[t] = "in" /\ pc'[t] = "idle" /\ \A u \in Tasks : u # t => pc'[u] = pc[u] /\ at'[u] = at[u]
  BY DEF Release, Leave, IInv, TypeOK
<1>3. t \in Holders(s)
  BY <1>1, <1>2 DEF Holders
<1>4. Holders(s)' = {}
  <2>. SUFFICES ASSUME NEW u \in Tasks, pc'[u] = "in", at'[u][1] = s PROVE FALSE
    BY DEF Holders
  <2>1. u # t /\ u \in Holders(s)
    BY <1>2 DEF Holders
  <2>. QED
    BY <1>3, <2>1, IInvMutualExclusion DEF MutualExclusion
<1>5. \A r \in Sessions : r # s => Holders(r)' = Holders(r)
  BY <1>1, <1>2 DEF Holders
<1>6. Holder[s] = t /\ t # Nobody
  BY <1>3, NobodyAssumption DEF HolderIs
<1>7. Holder'[s] = Nobody
  BY <1>4 DEF HolderIs
<1>8. \A r \in Sessions : r # s => Holder'[r] = Holder[r]
  BY <1>5, SameHolder
<1>9. Holder' = [Holder EXCEPT ![s] = Nobody]
  BY <1>7, <1>8 DEF Holder
<1>. QED
  BY <1>6, <1>9 DEF Mutex!Next, Mutex!Release

\* A step after which the same tasks hold the same locks.
LEMMA SilentStep ==
    ASSUME HolderIs, HolderIs', \A s \in Sessions : Holders(s)' = Holders(s)
    PROVE  UNCHANGED Holder
<1>1. \A s \in Sessions : Holder'[s] = Holder[s]
  BY SameHolder
<1>. QED
  BY <1>1 DEF Holder

LEMMA MutexStep ==
    ASSUME IInv, HolderIs, HolderIs', [Next]_vars
    PROVE  [Mutex!Next]_Holder
<1>1. ASSUME NEW t \in Tasks, NEW s \in Sessions, NEW e \in Entries, Enter(t, s, e)
      PROVE  [Mutex!Next]_Holder
  <2>1. /\ pc[t] = "idle" /\ at'[t] = <<s, e>> /\ registry[s] \in {None, e}
        /\ \A u \in Tasks : u # t => pc'[u] = pc[u] /\ at'[u] = at[u]
    BY <1>1 DEF Enter, IInv, TypeOK
  <2>2. (pc'[t] = "in" /\ ~locked[e]) \/ pc'[t] = "waiting"
    BY <1>1 DEF Enter, FreeFor, IInv, TypeOK
  <2>3. CASE pc'[t] = "in" /\ ~locked[e]
    BY <2>1, <2>3, AcquireStep
  <2>4. CASE pc'[t] = "waiting"
    <3>1. \A r \in Sessions : Holders(r)' = Holders(r)
      BY <2>1, <2>4 DEF Holders
    <3>. QED
      BY <3>1, SilentStep
  <2>. QED
    BY <2>2, <2>3, <2>4
<1>2. ASSUME NEW t \in Tasks, Release(t)
      PROVE  [Mutex!Next]_Holder
  BY <1>2, ReleaseStep
<1>3. ASSUME NEW t \in Tasks, Cancel(t)
      PROVE  [Mutex!Next]_Holder
  <2>1. \A r \in Sessions : Holders(r)' = Holders(r)
    BY <1>3 DEF Cancel, Holders
  <2>. QED
    BY <2>1, SilentStep
<1>4. ASSUME NEW t \in Tasks, NEW i \in Places(t), Resume(t, i)
      PROVE  [Mutex!Next]_Holder
  <2>1. PICK s \in Sessions, e \in Entries : at[t] = <<s, e>>
    BY <1>4 DEF Resume, IInv, Table, Registered
  <2>2. ~locked[e] /\ registry[s] = e
    BY <1>4, <2>1 DEF Resume, IInv, Table, Registered, Queue, WokenIsHead, Here
  <2>3. /\ pc[t] # "in" /\ pc'[t] = "in" /\ at'[t] = <<s, e>>
        /\ \A u \in Tasks : u # t => pc'[u] = pc[u] /\ at'[u] = at[u]
    BY <1>4, <2>1 DEF Resume, IInv, TypeOK
  <2>. QED
    BY <2>2, <2>3, AcquireStep
<1>5. ASSUME NEW t \in Tasks, NEW i \in Places(t), Abort(t, i)
      PROVE  [Mutex!Next]_Holder
  <2>1. /\ pc[t] = "waiting" /\ pc'[t] = "idle"
        /\ \A u \in Tasks : u # t => pc'[u] = pc[u] /\ at'[u] = at[u]
    BY <1>5 DEF Abort, Leave, IInv, TypeOK
  <2>2. \A r \in Sessions : Holders(r)' = Holders(r)
    BY <2>1 DEF Holders
  <2>. QED
    BY <2>2, SilentStep
<1>6. CASE UNCHANGED vars
  <2>1. \A r \in Sessions : Holders(r)' = Holders(r)
    BY <1>6 DEF vars, Holders
  <2>. QED
    BY <2>1, SilentStep
<1>. QED
  BY <1>1, <1>2, <1>3, <1>4, <1>5, <1>6 DEF Next

\* LockManager.lock behaves as one mutex per session, whichever entries it
\* creates and drops on the way.
THEOREM ImplementsMutexHolds == Spec => ImplementsMutex
<1>1. Init => Mutex!Init
  BY DEF Init, Mutex!Init, Holder, Holders
<1>2. Spec => []HolderIs
  BY IInvHolderIs, Invariance, PTL
<1>3. IInv /\ HolderIs /\ HolderIs' /\ [Next]_vars => [Mutex!Next]_Holder
  BY MutexStep
<1>. QED
  BY <1>1, <1>2, <1>3, Invariance, PTL DEF Spec, ImplementsMutex, Mutex!Spec
============================================================================
