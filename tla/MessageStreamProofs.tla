------------------------ MODULE MessageStreamProofs ------------------------
(***************************************************************************)
(* Theorems about MessageStream for any number of requests, turns and      *)
(* slots, any queue and any length of an answer.  No property is           *)
(* inductive: that a slot is counted once needs that nobody asks the       *)
(* backend twice, that a stored answer is whole needs what the parser has  *)
(* seen by the time its request may store it, and that a client was shown  *)
(* the stored answer needs where every part of it is at every step.        *)
(***************************************************************************)
EXTENDS MessageStream, FiniteSetTheorems, TLAPS

Types ==
    /\ pc \in [Requests -> Awaiting \cup {"new", "yielded", "end", "done"}]
    /\ out \in [Requests -> Events \cup {None}]
    /\ parser \in [Requests -> [payload : BOOLEAN, terminal : BOOLEAN, finished : BOOLEAN]]
    /\ parts \in [Requests -> Nat]
    /\ committed \in [Turns -> [parts : Nat, whole : BOOLEAN] \cup {None}]

Slots == slot \in [Requests -> BOOLEAN] /\ SlotsBalanced

\* A request that has not asked yet holds no slot.
HoldsAfterAsking ==
    \A r \in Requests : pc[r] \in {"new", "waiting", "loaded"} => ~slot[r]

\* The end of a response is a finish reason or [DONE].
TerminalIsFinished == \A r \in Requests : parser[r].terminal => parser[r].finished

\* A request stores an answer, or shows the answer of its fallback before it
\* does, only after it has seen the end of it.
StoresFinished ==
    \A r \in Requests :
        pc[r] = "commit" \/ (pc[r] = "fallback" /\ out[r] # None) => parser[r].finished

Answering == Types /\ TerminalIsFinished /\ StoresFinished /\ CommittedIsWhole

IInv == Answering /\ Slots /\ HoldsAfterAsking

---------------------------------------------------------------------------
(***************************************************************************)
(* Slots.                                                                  *)
(***************************************************************************)
LEMMA HoldersFinite ==
    /\ IsFiniteSet({r \in Requests : slot[r]})
    /\ Cardinality({r \in Requests : slot[r]}) \in Nat
<1>1. IsFiniteSet({r \in Requests : slot[r]})
  BY FS_Subset, StreamAssumption
<1>. QED
  BY <1>1, FS_CardinalityType

\* Giving back a slot that is held lowers the count by one, and giving back
\* none leaves it, also when the count is at its least.
LEMMA SlotReleased ==
    ASSUME Slots, NEW r \in Requests, ReleaseSlot(r)
    PROVE  Slots' /\ \A q \in Requests : slot'[q] => slot[q]
<1>. DEFINE held == {q \in Requests : slot[q]}
<1>1. slot' = [slot EXCEPT ![r] = FALSE] /\ slot \in [Requests -> BOOLEAN]
  BY DEF Slots, ReleaseSlot
<1>2. {q \in Requests : slot'[q]} = held \ {r}
  BY <1>1
<1>3. IsFiniteSet(held) /\ Cardinality(held) \in Nat
  BY HoldersFinite
<1>4. Cardinality(held \ {r}) = IF slot[r] THEN Cardinality(held) - 1 ELSE Cardinality(held)
  BY <1>3, FS_RemoveElement
<1>5. active = Cardinality(held) /\ active <= MaxActive /\ MaxActive \in Nat
  BY StreamAssumption DEF Slots, SlotsBalanced
<1>6. slot[r] => active # 0
  BY <1>3, <1>5, FS_EmptySet
<1>7. active' = IF ~slot[r] THEN active ELSE IF active <= 1 THEN 0 ELSE active - 1
  BY DEF ReleaseSlot
<1>8. active' = Cardinality(held \ {r}) /\ active' <= MaxActive
  <2>. HIDE DEF held
  <2>. QED
    BY <1>3, <1>4, <1>5, <1>6, <1>7
<1>. QED
  BY <1>1, <1>2, <1>8 DEF Slots, SlotsBalanced

LEMMA SlotTaken ==
    ASSUME Slots, NEW r \in Requests, ~slot[r], FreeSlot,
           slot' = [slot EXCEPT ![r] = TRUE], active' = active + 1
    PROVE  Slots'
<1>. DEFINE held == {q \in Requests : slot[q]}
<1>1. slot \in [Requests -> BOOLEAN]
  BY DEF Slots
<1>2. {q \in Requests : slot'[q]} = held \cup {r}
  BY <1>1
<1>3. IsFiniteSet(held) /\ Cardinality(held) \in Nat
  BY HoldersFinite
<1>4. Cardinality(held \cup {r}) = Cardinality(held) + 1
  BY <1>3, FS_AddElement
<1>5. active = Cardinality(held) /\ active < MaxActive /\ MaxActive \in Nat
  BY StreamAssumption DEF Slots, SlotsBalanced, FreeSlot
<1>6. active' = Cardinality(held \cup {r}) /\ active' <= MaxActive
  <2>. HIDE DEF held
  <2>. QED
    BY <1>3, <1>4, <1>5
<1>. QED
  BY <1>1, <1>2, <1>6 DEF Slots, SlotsBalanced

\* What most steps do to the slots: nothing, or give one back, by a request
\* that does not ask again.
LEMMA SlotsKept ==
    ASSUME IInv, NEW r \in Requests,
           KeepSlot \/ ReleaseSlot(r),
           \A q \in Requests : q # r => pc'[q] = pc[q],
           pc[r] \in {"new", "waiting"} \/ pc'[r] \notin {"new", "waiting", "loaded"} \/ pc'[r] = pc[r]
    PROVE  Slots' /\ HoldsAfterAsking'
<1>1. CASE KeepSlot
  BY <1>1 DEF IInv, Slots, SlotsBalanced, KeepSlot, HoldsAfterAsking
<1>2. CASE ReleaseSlot(r)
  BY <1>2, SlotReleased DEF IInv, HoldsAfterAsking
<1>. QED
  BY <1>1, <1>2

---------------------------------------------------------------------------
(***************************************************************************)
(* Answers.                                                                *)
(***************************************************************************)
\* Only the request r moves, and only the event it waits to put changes.
Moves(r) ==
    /\ pc' \in [Requests -> Awaiting \cup {"new", "yielded", "end", "done"}]
    /\ out' \in [Requests -> Events \cup {None}]
    /\ \A q \in Requests : q # r => pc'[q] = pc[q] /\ out'[q] = out[q]

\* The request is not, or not newly, where it may store an answer.
StoresNothingNew(r) ==
    \/ pc'[r] = pc[r] /\ out'[r] \in {out[r], None}
    \/ pc'[r] = "fallback" /\ out'[r] = None
    \/ pc'[r] \notin {"commit", "fallback"}

\* A step that changes no answer.
LEMMA MoveKeeps ==
    ASSUME Answering, NEW r \in Requests, UNCHANGED <<parser, parts, committed>>,
           Moves(r), StoresNothingNew(r)
    PROVE  Answering'
BY DEF Answering, Types, TerminalIsFinished, StoresFinished, CommittedIsWhole,
       Moves, StoresNothingNew

\* A step in which the parser sees more.
LEMMA ParserKeeps ==
    ASSUME Answering, NEW r \in Requests,
           NEW p \in [payload : BOOLEAN, terminal : BOOLEAN, finished : BOOLEAN],
           p.terminal => p.finished, parser[r].finished => p.finished,
           parser' = [parser EXCEPT ![r] = p], parts' \in [Requests -> Nat],
           UNCHANGED committed, Moves(r), p.finished \/ StoresNothingNew(r)
    PROVE  Answering'
BY ZenonT(60) DEF Answering, Types, TerminalIsFinished, StoresFinished, CommittedIsWhole,
       Moves, StoresNothingNew

\* A put leaves the request where it is.
LEMMA PutMoves ==
    ASSUME Answering, NEW r \in Requests, NEW e \in Events, Put(r, e) \/ NoPut
    PROVE  /\ out' \in [Requests -> Events \cup {None}]
           /\ \A q \in Requests : q # r => out'[q] = out[q]
BY DEF Answering, Types, Put, NoPut

\* An exception ends the request.
LEMMA FailMoves ==
    ASSUME Answering, NEW r \in Requests, NEW e \in Outcomes, Fail(r, e)
    PROVE  Moves(r) /\ pc'[r] \in {"end", "done"}
<1>1. e \in Events
  BY DEF Events
<1>2. Put(r, e) \/ NoPut
  BY DEF Fail
<1>3. /\ pc' \in [Requests -> Awaiting \cup {"new", "yielded", "end", "done"}]
      /\ pc'[r] \in {"end", "done"} /\ \A q \in Requests : q # r => pc'[q] = pc[q]
  BY DEF Answering, Types, Fail
<1>. QED
  BY <1>1, <1>2, <1>3, PutMoves DEF Moves

LEMMA FailKeeps ==
    ASSUME Answering, NEW r \in Requests, NEW e \in Outcomes, Fail(r, e),
           UNCHANGED <<parser, parts, committed>>
    PROVE  Answering'
BY FailMoves, MoveKeeps DEF StoresNothingNew

\* A stream that failed is reported, or asked again without streaming.
LEMMA StreamFailsMoves ==
    ASSUME Answering, NEW r \in Requests, Streaming(r), StreamFails(r)
    PROVE  Moves(r) /\ StoresNothingNew(r)
<1>1. CASE Fail(r, "retry")
  BY <1>1, FailMoves DEF Outcomes, StoresNothingNew
<1>2. CASE pc' = [pc EXCEPT ![r] = "fallback"] /\ NoPut
  BY <1>2 DEF Answering, Types, NoPut, Awaiting, Streaming, Moves, StoresNothingNew
<1>. QED
  BY <1>1, <1>2 DEF StreamFails

\* A response that ends is complete, or it has failed.
LEMMA StreamEndsKeeps ==
    ASSUME Answering, NEW r \in Requests, Streaming(r),
           NEW p \in [payload : BOOLEAN, terminal : BOOLEAN, finished : BOOLEAN],
           p.terminal => p.finished, parser[r].finished => p.finished,
           parser' = [parser EXCEPT ![r] = p], UNCHANGED <<parts, committed>>,
           StreamEnds(r, p)
    PROVE  Answering'
<1>1. parts' \in [Requests -> Nat]
  BY DEF Answering, Types
<1>2. CASE Complete(p)
  <2>1. Moves(r) /\ p.finished
    BY <1>2 DEF Answering, Types, StreamEnds, Complete, NoPut, Awaiting, Moves
  <2>. QED
    BY <1>1, <2>1, ParserKeeps
<1>3. CASE ~Complete(p)
  <2>1. StreamFails(r)
    BY <1>3 DEF StreamEnds
  <2>. QED
    BY <1>1, <2>1, StreamFailsMoves, ParserKeeps
<1>. QED
  BY <1>2, <1>3

LEMMA InterruptMoves ==
    ASSUME Answering, NEW r \in Requests, Interrupt(r)
    PROVE  /\ Moves(r) /\ StoresNothingNew(r)
           /\ KeepSlot \/ ReleaseSlot(r)
           /\ pc'[r] \notin {"new", "waiting", "loaded"}
<1>1. KeepSlot \/ ReleaseSlot(r)
  BY DEF Interrupt, LeaveGenerator, KeepSlot
<1>2. pc'[r] \in {"end", "done"} \/ (pc'[r] = pc[r] /\ pc[r] = "end")
  BY DEF Answering, Types, Interrupt
<1>3. Moves(r)
  BY DEF Answering, Types, Interrupt, NoPut, Moves
<1>. QED
  BY <1>1, <1>2, <1>3 DEF StoresNothingNew

\* A step of the request r.
RequestStep(r) ==
    \/ Start(r) \/ TakeLock(r) \/ Produce(r) \/ CloseOrphan(r)
    \/ Consume(r) \/ Disconnect(r) \/ CancelAgain(r)

LEMMA AnswersKept ==
    ASSUME Answering, NEW r \in Requests, RequestStep(r)
    PROVE  Answering'
<1>. USE DEF Moves, StoresNothingNew
<1>1. CASE Start(r)
  BY <1>1, MoveKeeps DEF Start, NoPut, Awaiting, Answering, Types
<1>2. CASE TakeLock(r)
  BY <1>2, MoveKeeps DEF TakeLock, NoPut, Awaiting, Answering, Types
<1>3. CASE Replay(r)
  BY <1>3, MoveKeeps DEF Replay, NoPut, Awaiting, Answering, Types
<1>4. CASE Ask(r)
  BY <1>4, MoveKeeps DEF Ask, NoPut, Awaiting, Answering, Types
<1>5. CASE Refuse(r)
  BY <1>5, FailKeeps DEF Refuse, Outcomes
<1>6. CASE InferenceFails(r) \/ StorageFails(r)
  BY <1>6, FailKeeps DEF InferenceFails, StorageFails, Outcomes
<1>7. ASSUME NEW last \in BOOLEAN, ContentLine(r, last)
      PROVE  Answering'
  <2>. DEFINE p == Parsed(parser[r], last)
  <2>1. /\ p \in [payload : BOOLEAN, terminal : BOOLEAN, finished : BOOLEAN]
        /\ p.terminal => p.finished
        /\ parser[r].finished => p.finished
    BY DEF Parsed, Answering, Types, TerminalIsFinished
  <2>2. parser' = [parser EXCEPT ![r] = p]
    BY <1>7 DEF ContentLine
  <2>3. Moves(r) /\ StoresNothingNew(r)
    <3>1. pc' = pc /\ pc[r] = "streaming"
      BY <1>7 DEF ContentLine, Streaming
    <3>2. out' \in [Requests -> Events \cup {None}] /\ \A q \in Requests : q # r => out'[q] = out[q]
      BY <1>7, PutMoves DEF ContentLine, Events
    <3>. QED
      BY <3>1, <3>2 DEF Answering, Types
  <2>4. parts' \in [Requests -> Nat] /\ UNCHANGED committed
    BY <1>7 DEF ContentLine, Answering, Types
  <2>. HIDE DEF p, Moves, StoresNothingNew
  <2>. QED
    BY <2>1, <2>2, <2>3, <2>4, ParserKeeps
<1>8. ASSUME NEW last \in BOOLEAN, SilentLine(r, last)
      PROVE  Answering'
  <2>. DEFINE p == Parsed(parser[r], last)
  <2>1. /\ p \in [payload : BOOLEAN, terminal : BOOLEAN, finished : BOOLEAN]
        /\ p.terminal => p.finished
        /\ parser[r].finished => p.finished
    BY DEF Parsed, Answering, Types, TerminalIsFinished
  <2>2. parser' = [parser EXCEPT ![r] = p] /\ UNCHANGED <<pc, out, parts, committed>>
    BY <1>8 DEF SilentLine, NoPut
  <2>3. Moves(r) /\ StoresNothingNew(r) /\ parts' \in [Requests -> Nat]
    BY <2>2 DEF Answering, Types
  <2>. HIDE DEF p, Moves, StoresNothingNew
  <2>. QED
    BY <2>1, <2>2, <2>3, ParserKeeps
<1>9. CASE DoneLine(r)
  <2>. DEFINE p == [parser[r] EXCEPT !.terminal = TRUE, !.finished = TRUE]
  <2>1. p \in [payload : BOOLEAN, terminal : BOOLEAN, finished : BOOLEAN] /\ p.finished
    BY DEF Answering, Types
  <2>2. parser' = [parser EXCEPT ![r] = p] /\ parser'[r] = p
    BY <1>9 DEF DoneLine, Answering, Types
  <2>3. Streaming(r) /\ StreamEnds(r, p) /\ UNCHANGED <<parts, committed>>
    BY <1>9, <2>2 DEF DoneLine
  <2>. HIDE DEF p
  <2>. QED
    BY <2>1, <2>2, <2>3, StreamEndsKeeps
<1>10. CASE EndOfLines(r)
  <2>1. /\ parser[r] \in [payload : BOOLEAN, terminal : BOOLEAN, finished : BOOLEAN]
        /\ parser[r].terminal => parser[r].finished
        /\ parser' = [parser EXCEPT ![r] = parser[r]]
    BY <1>10 DEF EndOfLines, Answering, Types, TerminalIsFinished
  <2>. QED
    BY <1>10, <2>1, StreamEndsKeeps DEF EndOfLines
<1>11. CASE BreakLines(r)
  BY <1>11, StreamFailsMoves, MoveKeeps DEF BreakLines
<1>12. ASSUME NEW n \in 0 .. 1, Generated(r, n)
       PROVE  Answering'
  <2>. DEFINE p == [parser[r] EXCEPT !.finished = TRUE]
  <2>1. p \in [payload : BOOLEAN, terminal : BOOLEAN, finished : BOOLEAN] /\ p.finished
    BY DEF Answering, Types
  <2>2. /\ parser' = [parser EXCEPT ![r] = p] /\ parts' \in [Requests -> Nat]
        /\ UNCHANGED committed
    BY <1>12 DEF Generated, Answering, Types
  <2>3. Moves(r)
    <3>1. out' \in [Requests -> Events \cup {None}] /\ \A q \in Requests : q # r => out'[q] = out[q]
      BY <1>12, PutMoves DEF Generated, Events
    <3>2. /\ pc' \in [Requests -> Awaiting \cup {"new", "yielded", "end", "done"}]
          /\ \A q \in Requests : q # r => pc'[q] = pc[q]
      BY <1>12 DEF Generated, Awaiting, Answering, Types
    <3>. QED
      BY <3>1, <3>2
  <2>. HIDE DEF p, Moves, StoresNothingNew
  <2>. QED
    BY <2>1, <2>2, <2>3, ParserKeeps
<1>13. CASE Commit(r)
  <2>1. Answer(r).whole /\ Answer(r) \in [parts : Nat, whole : BOOLEAN]
    BY <1>13 DEF Commit, Answer, Answering, Types, StoresFinished
  <2>2. /\ UNCHANGED <<parser, parts, out>> /\ pc' = [pc EXCEPT ![r] = "logging"]
        /\ committed' = [committed EXCEPT ![TurnOf[r]] = Answer(r)]
    BY <1>13 DEF Commit, NoPut
  <2>3. Types' /\ TerminalIsFinished' /\ StoresFinished'
    BY <2>1, <2>2 DEF Answering, Types, TerminalIsFinished, StoresFinished, Awaiting
  <2>4. CommittedIsWhole'
    BY <2>1, <2>2 DEF Answering, Types, CommittedIsWhole
  <2>. QED
    BY <2>3, <2>4 DEF Answering
<1>14. CASE Logged(r)
  <2>1. UNCHANGED <<parser, parts, committed>> /\ pc'[r] \in {"yielded", "done"}
        /\ pc' \in [Requests -> Awaiting \cup {"new", "yielded", "end", "done"}]
        /\ \A q \in Requests : q # r => pc'[q] = pc[q]
    BY <1>14 DEF Logged, Answering, Types
  <2>2. out' \in [Requests -> Events \cup {None}] /\ \A q \in Requests : q # r => out'[q] = out[q]
    BY <1>14, PutMoves DEF Logged, Events, Outcomes
  <2>. QED
    BY <2>1, <2>2, MoveKeeps
<1>15. CASE Unblock(r)
  <2>1. /\ out' = [out EXCEPT ![r] = None] /\ UNCHANGED <<parser, parts, committed>>
        /\ \/ pc[r] = "fallback" /\ out[r] # None /\ pc' = [pc EXCEPT ![r] = "commit"]
           \/ pc' = pc
    BY <1>15 DEF Unblock
  <2>2. CASE pc' = pc
    BY <2>1, <2>2, MoveKeeps DEF Answering, Types
  <2>3. CASE pc[r] = "fallback" /\ out[r] # None /\ pc' = [pc EXCEPT ![r] = "commit"]
    BY <2>1, <2>3 DEF Answering, Types, TerminalIsFinished, StoresFinished, CommittedIsWhole, Awaiting
  <2>. QED
    BY <2>1, <2>2, <2>3
<1>16. CASE Return(r) \/ PutEnd(r)
  BY ZenonT(60), <1>16, MoveKeeps DEF Return, PutEnd, NoPut, endpointVars, Answering, Types
<1>17. CASE Cancel(r) \/ CancelAgain(r)
  <2>. HIDE DEF Moves, StoresNothingNew
  <2>. QED
    BY <1>17, InterruptMoves, MoveKeeps DEF Cancel, CancelAgain
<1>18. CASE CloseOrphan(r) \/ TakeItem(r) \/ Deliver(r) \/ Notice(r) \/ CloseConsumer(r) \/ Disconnect(r)
  BY <1>18, MoveKeeps DEF CloseOrphan, TakeItem, Deliver, Notice, CloseConsumer, Disconnect,
     NoPut, Answering, Types
<1>. HIDE DEF Moves, StoresNothingNew
<1>. QED
  BY <1>1, <1>2, <1>3, <1>4, <1>5, <1>6, <1>7, <1>8, <1>9, <1>10, <1>11, <1>12, <1>13, <1>14,
     <1>15, <1>16, <1>17, <1>18 DEF RequestStep, Produce, Backend, Consume

\* No step asks again, and each gives back at most the slot it holds.
LEMMA SlotsStep ==
    ASSUME IInv, NEW r \in Requests, RequestStep(r)
    PROVE  Slots' /\ HoldsAfterAsking'
<1>. DEFINE Settled ==
        /\ KeepSlot \/ ReleaseSlot(r)
        /\ \A q \in Requests : q # r => pc'[q] = pc[q]
        /\ pc[r] \in {"new", "waiting"} \/ pc'[r] \notin {"new", "waiting", "loaded"} \/ pc'[r] = pc[r]
<1>. USE DEF IInv, Answering, Types
<1>1. CASE Ask(r)
  <2>1. /\ pc[r] = "loaded" /\ FreeSlot
        /\ slot' = [slot EXCEPT ![r] = TRUE] /\ active' = active + 1
        /\ pc' \in {[pc EXCEPT ![r] = "streaming"], [pc EXCEPT ![r] = "generate"]}
    BY <1>1 DEF Ask
  <2>2. Slots'
    BY <2>1, SlotTaken DEF HoldsAfterAsking
  <2>3. HoldsAfterAsking'
    BY <2>1 DEF HoldsAfterAsking, Slots
  <2>. QED
    BY <2>2, <2>3
<1>2. CASE Start(r) \/ TakeLock(r) \/ Replay(r)
  <2>1. Settled
    BY <1>2 DEF Start, TakeLock, Replay
  <2>. QED
    BY <2>1, SlotsKept
<1>3. ASSUME NEW e \in Outcomes, Fail(r, e)
      PROVE  Settled
  BY <1>3, FailMoves DEF Fail, LeaveGenerator, Moves
<1>4. ASSUME StreamFails(r)
      PROVE  Settled
  BY <1>3, <1>4 DEF StreamFails, Outcomes
<1>5. CASE Refuse(r) \/ InferenceFails(r) \/ StorageFails(r)
  <2>1. Settled
    BY <1>3, <1>5 DEF Refuse, InferenceFails, StorageFails, Outcomes
  <2>. QED
    BY <2>1, SlotsKept
<1>6. CASE \E last \in BOOLEAN : ContentLine(r, last) \/ SilentLine(r, last)
  <2>1. Settled
    BY <1>6 DEF ContentLine, SilentLine, endpointVars
  <2>. QED
    BY <2>1, SlotsKept
<1>7. CASE DoneLine(r) \/ EndOfLines(r) \/ BreakLines(r)
  <2>1. ASSUME NEW p, StreamEnds(r, p)
        PROVE  Settled
    BY <1>4, <2>1 DEF StreamEnds
  <2>2. Settled
    BY <1>4, <1>7, <2>1 DEF DoneLine, EndOfLines, BreakLines
  <2>. QED
    BY <2>2, SlotsKept
<1>8. CASE \E n \in 0 .. 1 : Generated(r, n)
  <2>1. Settled
    BY <1>8 DEF Generated
  <2>. QED
    BY <2>1, SlotsKept
<1>9. CASE Commit(r) \/ Logged(r) \/ Unblock(r) \/ Return(r) \/ PutEnd(r)
  <2>1. Settled
    BY <1>9 DEF Commit, Logged, Unblock, Return, PutEnd, LeaveGenerator
  <2>. QED
    BY <2>1, SlotsKept
<1>10. CASE Cancel(r) \/ CancelAgain(r)
  <2>1. Settled
    BY <1>10, InterruptMoves DEF Cancel, CancelAgain, Moves
  <2>. QED
    BY <2>1, SlotsKept
<1>11. CASE CloseOrphan(r)
  <2>1. Settled
    BY <1>11 DEF CloseOrphan, LeaveGenerator
  <2>. QED
    BY <2>1, SlotsKept
<1>12. CASE TakeItem(r) \/ Deliver(r) \/ Notice(r) \/ CloseConsumer(r) \/ Disconnect(r)
  <2>1. Settled
    BY <1>12 DEF TakeItem, Deliver, Notice, CloseConsumer, Disconnect, KeepSlot
  <2>. QED
    BY <2>1, SlotsKept
<1>. HIDE DEF IInv, Answering, Types, Settled
<1>. QED
  BY <1>1, <1>2, <1>5, <1>6, <1>7, <1>8, <1>9, <1>10, <1>11, <1>12
     DEF RequestStep, Produce, Backend, Consume

---------------------------------------------------------------------------
(***************************************************************************)
(* The slots are balanced, and a stored answer is whole.                   *)
(***************************************************************************)
LEMMA InitIInv == Init => IInv
<1>. SUFFICES ASSUME Init
     PROVE  IInv
  OBVIOUS
<1>1. Answering /\ HoldsAfterAsking
  BY DEF Init, Answering, Types, TerminalIsFinished, StoresFinished, CommittedIsWhole,
         HoldsAfterAsking
<1>2. {r \in Requests : slot[r]} = {}
  BY DEF Init
<1>3. active = Cardinality({r \in Requests : slot[r]})
  BY <1>2, FS_EmptySet DEF Init
<1>4. Slots
  BY <1>3, StreamAssumption DEF Init, Slots, SlotsBalanced
<1>. QED
  BY <1>1, <1>4 DEF IInv

LEMMA NextIInv == IInv /\ [Next]_vars => IInv'
<1>1. ASSUME IInv, NEW r \in Requests, RequestStep(r)
      PROVE  IInv'
  BY <1>1, AnswersKept, SlotsStep DEF IInv
<1>2. ASSUME IInv, UNCHANGED vars
      PROVE  IInv'
  BY <1>2 DEF vars, IInv, Answering, Types, TerminalIsFinished, StoresFinished, CommittedIsWhole,
     Slots, SlotsBalanced, HoldsAfterAsking
<1>. QED
  BY <1>1, <1>2 DEF Next, RequestStep

\* The inductive invariant of one user's message requests.
THEOREM StreamInvariance == Spec => []IInv
<1>. QED
  BY InitIInv, NextIInv, PTL DEF Spec

\* _active_inferences counts the requests that hold a slot, and no more than
\* the limit: errors, cancellations and abandoned generators leak none.
THEOREM SlotsBalancedHolds == Spec => []SlotsBalanced
<1>1. IInv => SlotsBalanced
  BY DEF IInv, Slots
<1>. QED
  BY <1>1, StreamInvariance, PTL

\* A response that just ends, or breaks after it showed text, never becomes
\* a stored turn.
THEOREM CommittedIsWholeHolds == Spec => []CommittedIsWhole
<1>1. IInv => CommittedIsWhole
  BY DEF IInv, Answering
<1>. QED
  BY <1>1, StreamInvariance, PTL

---------------------------------------------------------------------------
(***************************************************************************)
(* What the client is shown.                                               *)
(*                                                                         *)
(* A delta is with the producer, in the queue, in event_stream's hand or   *)
(* with the client; while event_stream reads for a client that is there    *)
(* none is lost, and no delta follows an event that ends the request.      *)
(***************************************************************************)
PipeTypes ==
    /\ queue \in [Requests -> Seq(Events)]
    /\ item \in [Requests -> Outcomes \cup {"delta", None}]
    /\ consumer \in [Requests -> {"reading", "leaving", "stopping", "closed"}]
    /\ client \in [Requests -> {"here", "gone"}]
    /\ got \in [Requests -> [deltas : Nat, last : Outcomes \cup {None}]]
    /\ lock \in [Turns -> Requests \cup {None}]

\* From its lock to its end a request is alone with its turn, so that nobody
\* stores another answer once its own is shown.
Holding == {"loaded", "streaming", "fallback", "generate", "commit", "logging", "yielded"}
Storing == {"streaming", "fallback", "generate", "commit"}

Locks ==
    \A r \in Requests :
        /\ pc[r] \in Holding => lock[TurnOf[r]] = r
        /\ pc[r] \in Storing => committed[TurnOf[r]] = None

\* What the request has collected is the stored answer, or it replays one.
Canonical(r) ==
    committed[TurnOf[r]] # None /\ parts[r] \in {0, committed[TurnOf[r]].parts}

InQueue(r, e) == \E i \in 1 .. Len(queue[r]) : queue[r][i] = e

Pending(r, e) == got[r].last = e \/ item[r] = e \/ out[r] = e \/ InQueue(r, e)

Early == {"new", "waiting", "loaded"}
Late == {"yielded", "end", "done"}

Stages(r) ==
    /\ pc[r] \in Early =>
            /\ queue[r] = <<>> /\ item[r] = None
            /\ got[r].deltas = 0 /\ got[r].last = None /\ parts[r] = 0
    /\ pc[r] \in Early \cup {"logging"} => out[r] = None
    /\ pc[r] = "generate" \/ (pc[r] = "fallback" /\ out[r] = None) => parts[r] = 0
    /\ pc[r] \in {"streaming", "fallback"} => r \in Streams
    /\ out[r] = "delta" => pc[r] \in Awaiting
    /\ \A e \in Events \ {"delta"} : Pending(r, e) => pc[r] \in Late
    /\ Pending(r, "complete") \/ pc[r] \in {"logging", "yielded"} => Canonical(r)

One(e) == IF e = "delta" THEN 1 ELSE 0

\* The queue begins with d deltas, and what the client has not got is ahead
\* of it in order.
Ahead(r, d) ==
    /\ d <= Len(queue[r])
    /\ \A i \in 1 .. Len(queue[r]) : queue[r][i] = "delta" <=> i <= d
    /\ item[r] \notin {None, "delta"} \/ got[r].last # None => d = 0
    /\ got[r].last # None => item[r] # "delta"
    /\ got[r].deltas + One(item[r]) + d + One(out[r]) = parts[r]

Flow(r) ==
    r \in Streams /\ client[r] = "here" /\ consumer[r] = "reading" => \E d \in Nat : Ahead(r, d)

Shown(r) == r \in Streams /\ got[r].last = "complete" => got[r].deltas = parts[r]

Showing(r) == Stages(r) /\ Flow(r) /\ Shown(r)

ShowInv == IInv /\ PipeTypes /\ Locks /\ \A r \in Requests : Showing(r)

\* Nothing but the components of r, and what it shares, changes.
Only(r) ==
    \A q \in Requests \ {r} :
        /\ pc'[q] = pc[q] /\ out'[q] = out[q] /\ queue'[q] = queue[q] /\ item'[q] = item[q]
        /\ consumer'[q] = consumer[q] /\ client'[q] = client[q] /\ got'[q] = got[q]
        /\ parts'[q] = parts[q]

\* A stored answer stays.
Stored == \A t \in Turns : committed[t] # None => committed'[t] = committed[t]

LEMMA AppendedQueue ==
    ASSUME NEW q \in Seq(Events), NEW e \in Events
    PROVE  /\ Append(q, e) \in Seq(Events) /\ Len(Append(q, e)) = Len(q) + 1 /\ Len(q) \in Nat
           /\ \A i \in 1 .. Len(q) : Append(q, e)[i] = q[i]
           /\ Append(q, e)[Len(q) + 1] = e
OBVIOUS

LEMMA ShortenedQueue ==
    ASSUME NEW q \in Seq(Events), q # <<>>
    PROVE  /\ Tail(q) \in Seq(Events) /\ Len(Tail(q)) = Len(q) - 1 /\ Len(q) \in Nat \ {0}
           /\ \A i \in 1 .. Len(q) - 1 : Tail(q)[i] = q[i + 1]
           /\ Head(q) = q[1] /\ Head(q) \in Events
OBVIOUS

\* The requests that do not move.
LEMMA OthersShow ==
    ASSUME NEW r \in Requests, NEW q \in Requests \ {r}, Only(r), Stored, Showing(q), ShowInv
    PROVE  Showing(q)'
<1>1. /\ pc'[q] = pc[q] /\ out'[q] = out[q] /\ queue'[q] = queue[q] /\ item'[q] = item[q]
      /\ consumer'[q] = consumer[q] /\ client'[q] = client[q] /\ got'[q] = got[q]
      /\ parts'[q] = parts[q]
  BY DEF Only
<1>2. Canonical(q) => Canonical(q)'
  BY <1>1, StreamAssumption DEF Canonical, Stored
<1>3. \A e : Pending(q, e)' <=> Pending(q, e)
  BY <1>1 DEF Pending, InQueue
<1>4. Stages(q)'
  BY <1>1, <1>2, <1>3 DEF Showing, Stages
<1>5. Flow(q)' /\ Shown(q)'
  BY <1>1 DEF Showing, Flow, Shown, Ahead
<1>. QED
  BY <1>4, <1>5 DEF Showing

---------------------------------------------------------------------------
(***************************************************************************)
(* How a step moves an event.                                              *)
(***************************************************************************)
\* A step that leaves every event where it is.
LEMMA QuietShows ==
    ASSUME ShowInv, NEW r \in Requests, Stored,
           queue'[r] = queue[r], item'[r] = item[r], out'[r] = out[r], got'[r] = got[r],
           parts'[r] = parts[r], client'[r] \in {client[r], "gone"},
           \/ consumer'[r] \in {consumer[r], "leaving", "stopping", "closed"}
           \/ pc[r] = "new",
           pc'[r] \in Early => pc[r] \in Early,
           pc'[r] = "logging" => out[r] = None,
           pc'[r] = "generate" \/ (pc'[r] = "fallback" /\ out[r] = None) => parts[r] = 0,
           pc'[r] \in {"streaming", "fallback"} => r \in Streams,
           out[r] = "delta" => pc'[r] \in Awaiting,
           pc[r] \in Late => pc'[r] \in Late,
           pc'[r] \in {"logging", "yielded"} => Canonical(r)'
    PROVE  Showing(r)'
<1>1. Stages(r) /\ Flow(r) /\ Shown(r)
  BY DEF ShowInv, Showing
<1>2. Canonical(r) => Canonical(r)'
  BY StreamAssumption DEF Canonical, Stored
<1>3. \A e : Pending(r, e)' <=> Pending(r, e)
  BY DEF Pending, InQueue
<1>4. Stages(r)'
  BY <1>1, <1>2, <1>3 DEF Stages, Early
<1>5. Shown(r)'
  BY <1>1 DEF Shown
<1>6. Flow(r)'
  <2>1. CASE pc[r] = "new"
    <3>1. Ahead(r, 0)'
      BY <1>1, <2>1, NoneAssumption DEF Stages, Ahead, One, Early, Events
    <3>. QED
      BY <3>1 DEF Flow
  <2>2. CASE pc[r] # "new"
    <3>1. \A d : Ahead(r, d)' <=> Ahead(r, d)
      BY DEF Ahead
    <3>. QED
      BY <1>1, <2>2, <3>1 DEF Flow
  <2>. QED
    BY <2>1, <2>2
<1>. QED
  BY <1>4, <1>5, <1>6 DEF Showing

---------------------------------------------------------------------------
(***************************************************************************)
(* What a step of r touches.                                               *)
(***************************************************************************)
LEMMA PutTouches ==
    ASSUME ShowInv, NEW r \in Requests, NEW e \in Events, Put(r, e) \/ NoPut
    PROVE  /\ queue' \in [Requests -> Seq(Events)]
           /\ \A q \in Requests \ {r} : queue'[q] = queue[q] /\ out'[q] = out[q]
<1>1. queue \in [Requests -> Seq(Events)] /\ out \in [Requests -> Events \cup {None}]
  BY DEF ShowInv, IInv, Answering, Types, PipeTypes
<1>2. queue[r] \in Seq(Events) /\ Append(queue[r], e) \in Seq(Events)
  BY <1>1, AppendedQueue
<1>. QED
  BY <1>1, <1>2 DEF Put, NoPut

LEMMA LockTouches ==
    ASSUME ShowInv, NEW r \in Requests, LeaveGenerator(r)
    PROVE  lock' \in [Turns -> Requests \cup {None}]
BY StreamAssumption DEF ShowInv, PipeTypes, LeaveGenerator

LEMMA FailTouches ==
    ASSUME ShowInv, NEW r \in Requests, NEW e \in Outcomes, Fail(r, e),
           UNCHANGED <<consumer, item, client, parts>>
    PROVE  Only(r) /\ PipeTypes'
<1>1. Put(r, e) \/ NoPut
  BY DEF Fail
<1>2. e \in Events
  BY DEF Events
<1>3. /\ queue' \in [Requests -> Seq(Events)]
      /\ \A q \in Requests \ {r} : queue'[q] = queue[q] /\ out'[q] = out[q]
  BY <1>1, <1>2, PutTouches
<1>4. LeaveGenerator(r) /\ lock' \in [Turns -> Requests \cup {None}]
  BY LockTouches DEF Fail
<1>5. /\ got' \in [Requests -> [deltas : Nat, last : Outcomes \cup {None}]]
      /\ \A q \in Requests \ {r} : got'[q] = got[q] /\ pc'[q] = pc[q]
  <2>1. got \in [Requests -> [deltas : Nat, last : Outcomes \cup {None}]]
    BY DEF ShowInv, PipeTypes, IInv, Answering, Types
  <2>2. got' = got \/ got' = [got EXCEPT ![r].last = e]
    BY DEF Fail
  <2>3. \A q \in Requests \ {r} : pc'[q] = pc[q]
    BY DEF Fail, ShowInv, IInv, Answering, Types
  <2>. QED
    BY <2>1, <2>2, <2>3
<1>. QED
  BY <1>3, <1>4, <1>5 DEF Only, PipeTypes, ShowInv

LEMMA StreamFailsTouches ==
    ASSUME ShowInv, NEW r \in Requests, StreamFails(r),
           UNCHANGED <<consumer, item, client, parts>>
    PROVE  Only(r) /\ PipeTypes'
<1>1. CASE Fail(r, "retry")
  BY <1>1, FailTouches DEF Outcomes
<1>2. CASE pc' = [pc EXCEPT ![r] = "fallback"] /\ NoPut /\ UNCHANGED <<got, lock>>
  BY <1>2 DEF NoPut, Only, PipeTypes, ShowInv, IInv, Answering, Types
<1>. QED
  BY <1>1, <1>2 DEF StreamFails

LEMMA StreamEndsTouches ==
    ASSUME ShowInv, NEW r \in Requests, NEW p, StreamEnds(r, p),
           UNCHANGED <<consumer, item, client, parts>>
    PROVE  Only(r) /\ PipeTypes'
<1>1. CASE StreamFails(r)
  BY <1>1, StreamFailsTouches
<1>2. CASE \E s \in {"commit", "generate"} : pc' = [pc EXCEPT ![r] = s] /\ NoPut /\ UNCHANGED <<got, lock>>
  BY <1>2 DEF NoPut, Only, PipeTypes, ShowInv, IInv, Answering, Types
<1>. QED
  BY <1>1, <1>2 DEF StreamEnds

LEMMA StepTouches ==
    ASSUME ShowInv, NEW r \in Requests, RequestStep(r)
    PROVE  Only(r) /\ PipeTypes'
<1>0. PipeTypes /\ Types /\ TurnOf \in [Requests -> Turns]
  BY StreamAssumption DEF ShowInv, IInv, Answering
<1>1. CASE Start(r) \/ TakeLock(r) \/ Replay(r) \/ Ask(r)
  BY ZenonT(60), <1>0, <1>1 DEF Start, TakeLock, Replay, Ask, NoPut, endpointVars, Only, PipeTypes, Types
<1>2. CASE Refuse(r) \/ InferenceFails(r) \/ StorageFails(r)
  BY <1>2, FailTouches DEF Refuse, InferenceFails, StorageFails, Outcomes
<1>3. ASSUME NEW last \in BOOLEAN, ContentLine(r, last)
      PROVE  Only(r) /\ PipeTypes'
  <2>1. Put(r, "delta") /\ "delta" \in Events
    BY <1>3 DEF ContentLine, Events
  <2>2. /\ queue' \in [Requests -> Seq(Events)]
        /\ \A q \in Requests \ {r} : queue'[q] = queue[q] /\ out'[q] = out[q]
    BY <2>1, PutTouches
  <2>3. /\ UNCHANGED <<pc, consumer, item, client, got, lock>>
        /\ \A q \in Requests \ {r} : parts'[q] = parts[q]
    BY <1>0, <1>3 DEF ContentLine, endpointVars, Types
  <2>. QED
    BY <1>0, <2>2, <2>3 DEF Only, PipeTypes
<1>4. ASSUME NEW last \in BOOLEAN, SilentLine(r, last)
      PROVE  Only(r) /\ PipeTypes'
  BY <1>0, <1>4 DEF SilentLine, NoPut, endpointVars, Only, PipeTypes, Types
<1>5. CASE DoneLine(r) \/ EndOfLines(r)
  <2>1. (\E p : StreamEnds(r, p)) /\ UNCHANGED <<consumer, item, client, parts>>
    BY <1>5 DEF DoneLine, EndOfLines
  <2>. QED
    BY <2>1, StreamEndsTouches
<1>6. CASE BreakLines(r)
  BY <1>6, StreamFailsTouches DEF BreakLines
<1>7. ASSUME NEW n \in 0 .. 1, Generated(r, n)
      PROVE  Only(r) /\ PipeTypes'
  <2>1. (Put(r, "delta") \/ NoPut) /\ "delta" \in Events
    BY <1>7 DEF Generated, Events
  <2>2. /\ queue' \in [Requests -> Seq(Events)]
        /\ \A q \in Requests \ {r} : queue'[q] = queue[q] /\ out'[q] = out[q]
    BY <2>1, PutTouches
  <2>3. /\ UNCHANGED <<consumer, item, client, got, lock>>
        /\ \A q \in Requests \ {r} : parts'[q] = parts[q] /\ pc'[q] = pc[q]
    BY <1>0, <1>7 DEF Generated, endpointVars, Types
  <2>. QED
    BY <1>0, <2>2, <2>3 DEF Only, PipeTypes
<1>8. CASE Commit(r)
  BY <1>0, <1>8 DEF Commit, NoPut, endpointVars, Only, PipeTypes, Types
<1>9. CASE Logged(r)
  <2>1. (Put(r, "complete") \/ NoPut) /\ "complete" \in Events
    BY <1>9 DEF Logged, Events, Outcomes
  <2>2. /\ queue' \in [Requests -> Seq(Events)]
        /\ \A q \in Requests \ {r} : queue'[q] = queue[q] /\ out'[q] = out[q]
    BY <2>1, PutTouches
  <2>3. lock' \in [Turns -> Requests \cup {None}]
    BY <1>0, <1>9, LockTouches DEF Logged, PipeTypes
  <2>4. got' \in {got, [got EXCEPT ![r].last = "complete"]} /\ "complete" \in Outcomes
    BY <1>9 DEF Logged, Outcomes
  <2>5. /\ got' \in [Requests -> [deltas : Nat, last : Outcomes \cup {None}]]
        /\ \A q \in Requests \ {r} : got'[q] = got[q]
    BY ZenonT(60), <1>0, <2>4 DEF PipeTypes
  <2>6. /\ UNCHANGED <<consumer, item, client, parts>>
        /\ \A q \in Requests \ {r} : pc'[q] = pc[q]
    BY <1>0, <1>9 DEF Logged, Types
  <2>. QED
    BY <1>0, <2>2, <2>3, <2>5, <2>6 DEF Only, PipeTypes
<1>10. CASE Unblock(r)
  <2>1. /\ queue' = [queue EXCEPT ![r] = Append(queue[r], out[r])]
        /\ out' = [out EXCEPT ![r] = None] /\ out[r] \in Events
        /\ pc' \in {pc, [pc EXCEPT ![r] = "commit"]}
        /\ UNCHANGED <<consumer, item, client, got, parts, lock>>
    BY <1>0, <1>10 DEF Unblock, endpointVars, Types
  <2>2. Append(queue[r], out[r]) \in Seq(Events)
    BY <1>0, <2>1, AppendedQueue DEF PipeTypes
  <2>. QED
    BY <1>0, <2>1, <2>2 DEF Only, PipeTypes, Types
<1>11. CASE Return(r) \/ CloseOrphan(r)
  <2>1. lock' \in [Turns -> Requests \cup {None}]
    BY <1>11, LockTouches DEF Return, CloseOrphan
  <2>. QED
    BY <1>0, <1>11, <2>1 DEF Return, CloseOrphan, NoPut, endpointVars, Only, PipeTypes, Types
<1>12. CASE PutEnd(r)
  <2>1. /\ queue' = [queue EXCEPT ![r] = Append(queue[r], "end")]
        /\ Append(queue[r], "end") \in Seq(Events)
    BY <1>0, <1>12, AppendedQueue DEF PutEnd, PipeTypes, Events
  <2>2. pc' = [pc EXCEPT ![r] = "done"] /\ UNCHANGED <<out, consumer, item, client, got, parts, lock>>
    BY <1>12 DEF PutEnd, endpointVars
  <2>. QED
    BY <1>0, <2>1, <2>2 DEF Only, PipeTypes, Types
<1>13. CASE Cancel(r) \/ CancelAgain(r)
  <2>1. /\ Interrupt(r) /\ UNCHANGED <<item, client, got, parts>>
        /\ consumer' \in {consumer, [consumer EXCEPT ![r] = "stopping"]}
    BY <1>13 DEF Cancel, CancelAgain, endpointVars
  <2>2. lock' \in [Turns -> Requests \cup {None}]
    BY <1>0, <2>1, LockTouches DEF Interrupt, PipeTypes
  <2>3. /\ UNCHANGED queue
        /\ \A q \in Requests \ {r} : pc'[q] = pc[q] /\ out'[q] = out[q]
    BY <1>0, <2>1 DEF Interrupt, NoPut, Types
  <2>. QED
    BY <1>0, <2>1, <2>2, <2>3 DEF Only, PipeTypes
<1>14. CASE TakeItem(r)
  <2>1. queue[r] \in Seq(Events) /\ queue[r] # <<>>
    BY <1>0, <1>14 DEF TakeItem, PipeTypes
  <2>2. Tail(queue[r]) \in Seq(Events) /\ Head(queue[r]) \in Events
    BY <2>1, ShortenedQueue
  <2>. QED
    BY <1>0, <1>14, <2>2 DEF TakeItem, Only, PipeTypes, Events
<1>15. CASE Deliver(r)
  <2>1. /\ got[r] \in [deltas : Nat, last : Outcomes \cup {None}]
        /\ item[r] \in Outcomes \cup {"delta"}
    BY <1>0, <1>15 DEF Deliver, PipeTypes, Events
  <2>2. /\ item' = [item EXCEPT ![r] = None] /\ UNCHANGED <<pc, out, queue, client, parts, lock>>
        /\ consumer' \in {consumer, [consumer EXCEPT ![r] = "leaving"]}
    BY <1>15 DEF Deliver
  <2>3. /\ got' \in [Requests -> [deltas : Nat, last : Outcomes \cup {None}]]
        /\ \A q \in Requests \ {r} : got'[q] = got[q]
    <3>1. CASE got' = got
      BY <1>0, <3>1 DEF PipeTypes
    <3>2. CASE client[r] = "here" /\ item[r] = "delta" /\ got' # got
      <4>. DEFINE n == got[r].deltas + 1
      <4>1. got' = [got EXCEPT ![r].deltas = n] /\ n \in Nat
        BY <1>15, <2>1, <3>2 DEF Deliver
      <4>. HIDE DEF n
      <4>. QED
        BY <1>0, <4>1 DEF PipeTypes
    <3>3. CASE client[r] = "here" /\ item[r] # "delta" /\ got' # got
      <4>1. got' = [got EXCEPT ![r].last = item[r]]
        BY <1>15, <3>3 DEF Deliver
      <4>. QED
        BY <1>0, <2>1, <3>3, <4>1 DEF PipeTypes
    <3>. QED
      BY <1>15, <3>1, <3>2, <3>3 DEF Deliver
  <2>. QED
    BY <1>0, <2>2, <2>3 DEF Only, PipeTypes
<1>16. CASE Notice(r) \/ CloseConsumer(r) \/ Disconnect(r)
  BY <1>0, <1>16 DEF Notice, CloseConsumer, Disconnect, Only, PipeTypes
<1>. QED
  BY <1>1, <1>2, <1>3, <1>4, <1>5, <1>6, <1>7, <1>8, <1>9, <1>10, <1>11, <1>12, <1>13, <1>14,
     <1>15, <1>16 DEF RequestStep, Produce, Backend, Consume

---------------------------------------------------------------------------
(***************************************************************************)
(* Locks and stored answers.                                               *)
(***************************************************************************)
LEMMA LocksLeft ==
    ASSUME Locks, NEW r \in Requests, LeaveGenerator(r), Only(r), UNCHANGED committed,
           lock \in [Turns -> Requests \cup {None}], pc'[r] \notin Holding
    PROVE  Locks'
<1>1. SUFFICES ASSUME NEW q \in Requests
      PROVE  /\ pc'[q] \in Holding => lock'[TurnOf[q]] = q
             /\ pc'[q] \in Storing => committed'[TurnOf[q]] = None
  BY DEF Locks
<1>2. CASE q = r
  BY <1>2 DEF Holding, Storing
<1>3. CASE q # r
  <2>1. pc'[q] = pc[q]
    BY <1>3 DEF Only
  <2>2. lock[TurnOf[q]] = q => lock'[TurnOf[q]] = q
    BY <1>3, StreamAssumption DEF LeaveGenerator
  <2>. QED
    BY <2>1, <2>2 DEF Locks
<1>. QED
  BY <1>2, <1>3

LEMMA LocksQuiet ==
    ASSUME Locks, NEW r \in Requests, Only(r), UNCHANGED <<lock, committed>>,
           pc'[r] \in Holding => pc[r] \in Holding,
           pc'[r] \in Storing => pc[r] \in Storing \/ committed[TurnOf[r]] = None
    PROVE  Locks'
BY DEF Locks, Only

\* An exception gives back the lock and ends the request.
LEMMA FailLocks ==
    ASSUME ShowInv, NEW r \in Requests, NEW e \in Outcomes, Fail(r, e), Only(r),
           UNCHANGED committed
    PROVE  Locks'
<1>1. LeaveGenerator(r) /\ lock \in [Turns -> Requests \cup {None}] /\ Locks
  BY DEF Fail, ShowInv, PipeTypes
<1>2. pc'[r] \notin Holding
  BY FailMoves DEF ShowInv, IInv, Holding
<1>. QED
  BY <1>1, <1>2, LocksLeft

LEMMA StreamFailsLocks ==
    ASSUME ShowInv, NEW r \in Requests, Streaming(r), StreamFails(r), Only(r),
           UNCHANGED committed
    PROVE  Locks'
<1>1. CASE Fail(r, "retry")
  BY <1>1, FailLocks DEF Outcomes
<1>2. CASE pc' = [pc EXCEPT ![r] = "fallback"] /\ UNCHANGED lock
  BY <1>2, LocksQuiet DEF ShowInv, Streaming, Holding, Storing
<1>. QED
  BY <1>1, <1>2 DEF StreamFails

LEMMA StreamEndsLocks ==
    ASSUME ShowInv, NEW r \in Requests, Streaming(r), NEW p, StreamEnds(r, p), Only(r),
           UNCHANGED committed
    PROVE  Locks'
<1>1. CASE StreamFails(r)
  BY <1>1, StreamFailsLocks
<1>2. CASE (\E s \in {"commit", "generate"} : pc' = [pc EXCEPT ![r] = s]) /\ UNCHANGED lock
  BY <1>2, LocksQuiet DEF ShowInv, Streaming, Holding, Storing
<1>. QED
  BY <1>1, <1>2 DEF StreamEnds

\* Only a request that holds its turn's lock stores, and only what is not
\* stored yet.
LEMMA StepStores ==
    ASSUME ShowInv, NEW r \in Requests, RequestStep(r)
    PROVE  Stored
<1>1. CASE Commit(r)
  <2>1. committed[TurnOf[r]] = None
    BY <1>1 DEF Commit, ShowInv, Locks, Storing
  <2>. QED
    BY <1>1, <2>1 DEF Commit, Stored, ShowInv, IInv, Answering, Types
<1>2. CASE ~Commit(r)
  <2>1. UNCHANGED committed
    BY <1>2 DEF RequestStep, Produce, Backend, Consume, Start, TakeLock, Replay, Ask, Refuse,
       ContentLine, SilentLine, DoneLine, EndOfLines, BreakLines, Generated, InferenceFails,
       Logged, StorageFails, Unblock, Return, PutEnd, CloseOrphan, TakeItem, Deliver, Notice,
       Cancel, CancelAgain, CloseConsumer, Disconnect
  <2>. QED
    BY <2>1 DEF Stored
<1>. QED
  BY <1>1, <1>2

LEMMA StepLocks ==
    ASSUME ShowInv, NEW r \in Requests, RequestStep(r)
    PROVE  Locks'
<1>0. /\ Locks /\ lock \in [Turns -> Requests \cup {None}] /\ Only(r)
      /\ pc \in [Requests -> Awaiting \cup {"new", "yielded", "end", "done"}]
      /\ TurnOf \in [Requests -> Turns]
  BY StepTouches, StreamAssumption DEF ShowInv, PipeTypes, IInv, Answering, Types
<1>1. CASE Start(r)
  BY <1>0, <1>1, LocksQuiet DEF Start, Holding, Storing
<1>2. CASE TakeLock(r)
  <2>1. SUFFICES ASSUME NEW q \in Requests
        PROVE  /\ pc'[q] \in Holding => lock'[TurnOf[q]] = q
               /\ pc'[q] \in Storing => committed'[TurnOf[q]] = None
    BY DEF Locks
  <2>2. CASE q = r
    BY <1>0, <1>2, <2>2 DEF TakeLock, Storing
  <2>3. CASE q # r
    BY <1>0, <1>2, <2>3, StreamAssumption DEF TakeLock, Only, Locks
  <2>. QED
    BY <2>2, <2>3
<1>3. CASE Replay(r) \/ Ask(r)
  <2>1. pc[r] \in Holding /\ UNCHANGED <<lock, committed>>
    BY <1>3 DEF Replay, Ask, Holding
  <2>2. pc'[r] \in Storing => committed[TurnOf[r]] = None
    BY <1>0, <1>3 DEF Replay, Ask, Storing
  <2>. QED
    BY <1>0, <2>1, <2>2, LocksQuiet
<1>4. CASE Refuse(r) \/ InferenceFails(r) \/ StorageFails(r)
  BY <1>0, <1>4, FailLocks DEF Refuse, InferenceFails, StorageFails, Outcomes
<1>5. CASE \E last \in BOOLEAN : ContentLine(r, last) \/ SilentLine(r, last)
  BY <1>0, <1>5, LocksQuiet DEF ContentLine, SilentLine
<1>6. CASE DoneLine(r) \/ EndOfLines(r)
  <2>1. Streaming(r) /\ (\E p : StreamEnds(r, p)) /\ UNCHANGED committed
    BY <1>6 DEF DoneLine, EndOfLines
  <2>. QED
    BY <1>0, <2>1, StreamEndsLocks
<1>7. CASE BreakLines(r)
  BY <1>0, <1>7, StreamFailsLocks DEF BreakLines
<1>8. CASE \E n \in 0 .. 1 : Generated(r, n)
  <2>1. pc[r] \in Storing /\ pc[r] \in Holding /\ UNCHANGED <<lock, committed>>
    BY <1>8 DEF Generated, Generating, Storing, Holding
  <2>. QED
    BY <1>0, <2>1, LocksQuiet
<1>9. CASE Commit(r)
  <2>1. /\ lock[TurnOf[r]] = r /\ lock' = lock /\ pc' = [pc EXCEPT ![r] = "logging"]
        /\ committed' = [committed EXCEPT ![TurnOf[r]] = Answer(r)]
    BY <1>0, <1>9 DEF Commit, Locks, Holding
  <2>2. SUFFICES ASSUME NEW q \in Requests
        PROVE  /\ pc'[q] \in Holding => lock'[TurnOf[q]] = q
               /\ pc'[q] \in Storing => committed'[TurnOf[q]] = None
    BY DEF Locks
  <2>3. CASE q = r
    BY <1>0, <2>1, <2>3 DEF Storing
  <2>4. CASE q # r
    <3>1. pc'[q] = pc[q]
      BY <1>0, <2>4 DEF Only
    <3>2. pc[q] \in Storing => TurnOf[q] # TurnOf[r]
      BY <1>0, <2>1, <2>4 DEF Locks, Storing, Holding
    <3>3. pc[q] \in Storing => committed'[TurnOf[q]] = committed[TurnOf[q]]
      BY <2>1, <3>2
    <3>. QED
      BY <1>0, <2>1, <3>1, <3>3 DEF Locks
  <2>. QED
    BY <2>3, <2>4
<1>10. CASE Logged(r)
  <2>1. CASE r \in Streams
    <3>1. pc[r] = "logging" /\ pc'[r] = "yielded" /\ UNCHANGED <<lock, committed>>
      BY <1>0, <1>10, <2>1, StreamAssumption DEF Logged
    <3>. QED
      BY <1>0, <3>1, LocksQuiet DEF Holding, Storing
  <2>2. CASE r \in Plains
    <3>1. pc'[r] = "done" /\ LeaveGenerator(r) /\ UNCHANGED committed
      BY <1>0, <1>10, <2>2, StreamAssumption DEF Logged
    <3>. QED
      BY <1>0, <3>1, LocksLeft DEF Holding
  <2>. QED
    BY <2>1, <2>2 DEF Requests
<1>11. CASE Unblock(r)
  <2>1. (pc[r] = "fallback" \/ pc' = pc) /\ UNCHANGED <<lock, committed>>
    BY <1>11 DEF Unblock
  <2>. QED
    BY <1>0, <2>1, LocksQuiet DEF Holding, Storing
<1>12. CASE Return(r) \/ CloseOrphan(r)
  <2>1. LeaveGenerator(r) /\ UNCHANGED committed /\ pc'[r] \in {"end", "done"}
    BY <1>0, <1>12 DEF Return, CloseOrphan, Orphaned
  <2>. QED
    BY <1>0, <2>1, LocksLeft DEF Holding
<1>13. CASE PutEnd(r)
  <2>1. pc'[r] = "done" /\ UNCHANGED <<lock, committed>>
    BY <1>0, <1>13 DEF PutEnd
  <2>. QED
    BY <1>0, <2>1, LocksQuiet DEF Holding, Storing
<1>14. CASE Cancel(r) \/ CancelAgain(r)
  <2>1. Interrupt(r) /\ UNCHANGED committed
    BY <1>14 DEF Cancel, CancelAgain
  <2>2. pc'[r] \in {"end", "done"} /\ (LeaveGenerator(r) \/ UNCHANGED lock)
    BY <1>0, <2>1 DEF Interrupt
  <2>3. pc'[r] \notin Holding /\ pc'[r] \notin Storing
    BY <2>2 DEF Holding, Storing
  <2>. QED
    BY <1>0, <2>1, <2>2, <2>3, LocksLeft, LocksQuiet
<1>15. CASE TakeItem(r) \/ Deliver(r) \/ Notice(r) \/ CloseConsumer(r) \/ Disconnect(r)
  <2>1. UNCHANGED <<pc, lock, committed>>
    BY <1>15 DEF TakeItem, Deliver, Notice, CloseConsumer, Disconnect
  <2>. QED
    BY <1>0, <2>1, LocksQuiet
<1>. QED
  BY <1>1, <1>2, <1>3, <1>4, <1>5, <1>6, <1>7, <1>8, <1>9, <1>10, <1>11, <1>12, <1>13, <1>14,
     <1>15 DEF RequestStep, Produce, Backend, Consume

\* The producer is stopped.
LEMMA StoppedShows ==
    ASSUME ShowInv, NEW r \in Requests, Stored,
           queue'[r] = queue[r], item'[r] = item[r], got'[r] = got[r], parts'[r] = parts[r],
           out'[r] = None, consumer'[r] = "stopping", pc'[r] \in {"end", "done"}
    PROVE  Showing(r)'
<1>1. Stages(r) /\ Shown(r)
  BY DEF ShowInv, Showing
<1>2. Canonical(r) => Canonical(r)'
  BY StreamAssumption DEF Canonical, Stored
<1>3. \A e \in Events : Pending(r, e)' => Pending(r, e)
  BY NoneAssumption DEF Pending, InQueue
<1>4. Stages(r)'
  BY <1>1, <1>2, <1>3, NoneAssumption DEF Stages, Early, Late, Events, Outcomes
<1>. QED
  BY <1>1, <1>4 DEF Showing, Flow, Shown

\* Before a request ends there are only deltas on the way.
LEMMA OnlyDeltas ==
    ASSUME ShowInv, NEW r \in Requests, pc[r] \notin Late, NEW d \in Nat, Ahead(r, d)
    PROVE  d = Len(queue[r]) /\ got[r].last = None /\ item[r] \in {None, "delta"}
<1>1. /\ queue[r] \in Seq(Events) /\ item[r] \in Outcomes \cup {"delta", None}
      /\ got[r].last \in Outcomes \cup {None}
  BY DEF ShowInv, PipeTypes
<1>2. \A e \in Events \ {"delta"} : ~Pending(r, e)
  BY DEF ShowInv, Showing, Stages
<1>3. got[r].last = None /\ item[r] \in {None, "delta"}
  BY <1>1, <1>2 DEF Pending, Events, Outcomes
<1>4. Len(queue[r]) \in Nat /\ \A i \in 1 .. Len(queue[r]) : queue[r][i] \in Events
  BY <1>1
<1>5. \A i \in 1 .. Len(queue[r]) : queue[r][i] = "delta"
  BY <1>2, <1>4 DEF Pending, InQueue
<1>6. Len(queue[r]) > d => queue[r][d + 1] # "delta"
  BY <1>4 DEF Ahead
<1>. QED
  BY <1>3, <1>4, <1>5, <1>6 DEF Ahead

\* A queue that got e at its end.
LEMMA AppendedAhead ==
    ASSUME ShowInv, NEW r \in Requests, NEW d \in Nat, Ahead(r, d), NEW e \in Events,
           queue'[r] = Append(queue[r], e), item'[r] = item[r], got'[r] = got[r],
           One(e) + One(out'[r]) + parts[r] = One(out[r]) + parts'[r],
           parts'[r] \in Nat,
           e = "delta" => pc[r] \notin Late
    PROVE  Ahead(r, d + One(e))'
<1>1. /\ queue'[r] \in Seq(Events) /\ Len(queue'[r]) = Len(queue[r]) + 1
      /\ Len(queue[r]) \in Nat
      /\ \A i \in 1 .. Len(queue[r]) : queue'[r][i] = queue[r][i]
      /\ queue'[r][Len(queue[r]) + 1] = e
  BY AppendedQueue DEF ShowInv, PipeTypes
<1>2. /\ got[r].deltas \in Nat /\ parts[r] \in Nat
      /\ d <= Len(queue[r])
      /\ \A i \in 1 .. Len(queue[r]) : queue[r][i] = "delta" <=> i <= d
      /\ item[r] \notin {None, "delta"} \/ got[r].last # None => d = 0
      /\ got[r].last # None => item[r] # "delta"
      /\ got[r].deltas + One(item[r]) + d + One(out[r]) = parts[r]
  BY DEF Ahead, ShowInv, PipeTypes, IInv, Answering, Types
<1>. DEFINE i1 == One(item[r])
            o1 == One(out[r])
            o2 == One(out'[r])
<1>3. /\ i1 \in Nat /\ o1 \in Nat /\ o2 \in Nat /\ parts'[r] \in Nat
      /\ got[r].deltas + i1 + d + o1 = parts[r]
      /\ One(e) + o2 + parts[r] = o1 + parts'[r]
  BY <1>2 DEF One
<1>. HIDE DEF i1, o1, o2
<1>4. got[r].deltas + i1 + (d + One(e)) + o2 = parts'[r]
  <2>. DEFINE e1 == One(e)
              g1 == got[r].deltas
              p1 == parts[r]
              p2 == parts'[r]
  <2>1. /\ e1 \in Nat /\ g1 \in Nat /\ p1 \in Nat /\ p2 \in Nat
        /\ g1 + i1 + d + o1 = p1 /\ e1 + o2 + p1 = o1 + p2
    BY <1>2, <1>3 DEF One
  <2>. HIDE DEF e1, g1, p1, p2
  <2>2. g1 + i1 + (d + e1) + o2 = p2
    BY <1>3, <2>1
  <2>. QED
    BY <2>2 DEF e1, g1, p2
<1>5. CASE e = "delta"
  <2>1. One(e) = 1 /\ d = Len(queue[r]) /\ got[r].last = None /\ item[r] \in {None, "delta"}
    BY <1>5, OnlyDeltas DEF One
  <2>2. \A i \in 1 .. Len(queue[r]) + 1 : queue'[r][i] = "delta" <=> i <= d + 1
    BY <1>1, <1>2, <1>5, <2>1
  <2>. QED
    BY <1>1, <1>4, <2>1, <2>2 DEF Ahead, i1, o2
<1>6. CASE e # "delta"
  <2>1. One(e) = 0 /\ d + One(e) = d
    BY <1>6 DEF One
  <2>2. \A i \in 1 .. Len(queue[r]) + 1 : queue'[r][i] = "delta" <=> i <= d
    BY <1>1, <1>2, <1>6
  <2>. QED
    BY <1>1, <1>2, <1>4, <2>1, <2>2 DEF Ahead, i1, o2
<1>. QED
  BY <1>5, <1>6

\* An event that waits for room, or one that was put, is pending.
LEMMA PutPends ==
    ASSUME ShowInv, NEW r \in Requests, NEW e \in Events,
           \/ queue'[r] = Append(queue[r], e) /\ out'[r] \in {out[r], None}
           \/ queue'[r] = queue[r] /\ out'[r] = e,
           item'[r] = item[r], got'[r] = got[r]
    PROVE  \A f \in Events : Pending(r, f)' => Pending(r, f) \/ f = e
<1>1. CASE queue'[r] = queue[r] /\ out'[r] = e
  BY <1>1 DEF Pending, InQueue
<1>2. CASE queue'[r] = Append(queue[r], e) /\ out'[r] \in {out[r], None}
  <2>1. /\ Len(queue'[r]) = Len(queue[r]) + 1 /\ Len(queue[r]) \in Nat
        /\ \A i \in 1 .. Len(queue[r]) : queue'[r][i] = queue[r][i]
        /\ queue'[r][Len(queue[r]) + 1] = e
    BY <1>2, AppendedQueue DEF ShowInv, PipeTypes
  <2>2. \A f : InQueue(r, f)' => InQueue(r, f) \/ f = e
    BY SMTT(30), <2>1 DEF InQueue
  <2>. QED
    BY <1>2, <2>2, NoneAssumption DEF Pending
<1>. QED
  BY <1>1, <1>2

\* A part of the answer is put.
LEMMA DeltaShows ==
    ASSUME ShowInv, NEW r \in Requests, r \in Streams, Stored,
           Put(r, "delta"), out[r] = None, parts'[r] = parts[r] + 1,
           item'[r] = item[r], got'[r] = got[r],
           client'[r] = client[r], consumer'[r] = consumer[r],
           pc[r] \in {"streaming", "fallback", "generate"},
           \/ pc'[r] \in {"streaming", "commit"}
           \/ pc'[r] = "fallback" /\ ~Room(r)
    PROVE  Showing(r)'
<1>0. /\ Stages(r) /\ Flow(r) /\ Shown(r)
      /\ queue \in [Requests -> Seq(Events)] /\ out \in [Requests -> Events \cup {None}]
      /\ parts[r] \in Nat /\ got[r].deltas \in Nat /\ "delta" \in Events
      /\ pc[r] \notin Late
  BY DEF ShowInv, Showing, PipeTypes, IInv, Answering, Types, Events, Late
<1>1. \/ Room(r) /\ queue'[r] = Append(queue[r], "delta") /\ out'[r] = None
      \/ ~Room(r) /\ queue'[r] = queue[r] /\ out'[r] = "delta"
  BY <1>0 DEF Put
<1>2. \A e \in Events \ {"delta"} : ~Pending(r, e)'
  BY <1>0, <1>1, PutPends DEF Stages
<1>3. Stages(r)'
  <2>1. pc'[r] \notin Early /\ pc'[r] \in Awaiting /\ pc'[r] \notin {"logging", "yielded", "generate"}
    BY DEF Early, Awaiting
  <2>2. ~Pending(r, "complete")'
    BY <1>2 DEF Events, Outcomes
  <2>3. pc'[r] = "fallback" => out'[r] # None
    BY <1>0, <1>1, NoneAssumption
  <2>. QED
    BY <1>2, <2>1, <2>2, <2>3 DEF Stages
<1>4. Shown(r)'
  <2>1. got[r].last # "complete"
    BY <1>0 DEF Stages, Pending, Events, Outcomes
  <2>. QED
    BY <2>1 DEF Shown
<1>5. ASSUME NEW d \in Nat, Ahead(r, d)
      PROVE  \E c \in Nat : Ahead(r, c)'
  <2>1. CASE queue'[r] = Append(queue[r], "delta") /\ out'[r] = None
    <3>1. One("delta") + One(out'[r]) + parts[r] = One(out[r]) + parts'[r] /\ parts'[r] \in Nat
      BY <1>0, <2>1, NoneAssumption DEF One
    <3>2. Ahead(r, d + One("delta"))' /\ d + One("delta") \in Nat
      BY SMTT(30), <1>0, <1>5, <2>1, <3>1, AppendedAhead DEF One
    <3>. QED
      BY <3>2
  <2>2. CASE queue'[r] = queue[r] /\ out'[r] = "delta"
    <3>1. /\ d <= Len(queue[r])
          /\ \A i \in 1 .. Len(queue[r]) : queue[r][i] = "delta" <=> i <= d
          /\ item[r] \notin {None, "delta"} \/ got[r].last # None => d = 0
          /\ got[r].last # None => item[r] # "delta"
      BY <1>5 DEF Ahead
    <3>2. got[r].deltas + One(item[r]) + d + One(out'[r]) = parts[r] + 1
      BY <1>0, <1>5, <2>2, NoneAssumption DEF Ahead, One
    <3>3. Ahead(r, d)'
      BY <2>2, <3>1, <3>2 DEF Ahead
    <3>. QED
      BY <3>3
  <2>. QED
    BY <1>1, <2>1, <2>2
<1>6. Flow(r)'
  BY <1>0, <1>5 DEF Flow
<1>. QED
  BY <1>3, <1>4, <1>6 DEF Showing

\* An event that ends the request is put.
LEMMA OutcomeShows ==
    ASSUME ShowInv, NEW r \in Requests, Stored, NEW e \in Events, e # "delta",
           Put(r, e), out[r] = None, parts'[r] = parts[r],
           item'[r] = item[r], got'[r] = got[r],
           client'[r] = client[r], consumer'[r] = consumer[r],
           pc'[r] \in Late, e = "complete" \/ pc'[r] = "yielded" => Canonical(r)
    PROVE  Showing(r)'
<1>0. /\ Stages(r) /\ Flow(r) /\ Shown(r)
      /\ queue \in [Requests -> Seq(Events)] /\ out \in [Requests -> Events \cup {None}]
      /\ parts[r] \in Nat /\ got[r].deltas \in Nat
  BY DEF ShowInv, Showing, PipeTypes, IInv, Answering, Types
<1>1. \/ queue'[r] = Append(queue[r], e) /\ out'[r] = None
      \/ queue'[r] = queue[r] /\ out'[r] = e
  BY <1>0 DEF Put
<1>2. \A f \in Events : Pending(r, f)' => Pending(r, f) \/ f = e
  BY <1>0, <1>1, PutPends
<1>3. Canonical(r) => Canonical(r)'
  BY StreamAssumption DEF Canonical, Stored
<1>4. Stages(r)'
  <2>1. /\ pc'[r] \notin Early \cup {"logging", "generate", "fallback", "streaming"}
        /\ out'[r] # "delta"
    BY <1>0, <1>1, NoneAssumption DEF Late, Early, Events
  <2>2. Pending(r, "complete")' \/ pc'[r] \in {"logging", "yielded"} => Canonical(r)'
    <3>1. Pending(r, "complete")' => Pending(r, "complete") \/ e = "complete"
      BY <1>2 DEF Events, Outcomes
    <3>2. Pending(r, "complete") => Canonical(r)
      BY <1>0 DEF Stages
    <3>. QED
      BY <1>3, <2>1, <3>1, <3>2
  <2>. QED
    BY <2>1, <2>2 DEF Stages
<1>5. Shown(r)'
  BY <1>0 DEF Shown
<1>6. ASSUME NEW d \in Nat, Ahead(r, d)
      PROVE  \E c \in Nat : Ahead(r, c)'
  <2>0. One(e) = 0 /\ One(None) = 0
    BY NoneAssumption DEF One, Events
  <2>1. CASE queue'[r] = Append(queue[r], e) /\ out'[r] = None
    <3>1. One(e) + One(out'[r]) + parts[r] = One(out[r]) + parts'[r] /\ parts'[r] \in Nat
      BY <1>0, <2>0, <2>1
    <3>2. Ahead(r, d + One(e))' /\ d + One(e) \in Nat
      BY <1>0, <1>6, <2>0, <2>1, <3>1, AppendedAhead
    <3>. QED
      BY <3>2
  <2>2. CASE queue'[r] = queue[r] /\ out'[r] = e
    <3>1. Ahead(r, d)'
      BY <1>6, <2>0, <2>2 DEF Ahead
    <3>. QED
      BY <3>1
  <2>. QED
    BY <1>1, <2>1, <2>2
<1>7. Flow(r)'
  BY <1>0, <1>6 DEF Flow
<1>. QED
  BY <1>4, <1>5, <1>7 DEF Showing

\* A plain request: it has no queue, and returns what it reports.
LEMMA PlainShows ==
    ASSUME ShowInv, NEW r \in Requests, r \notin Streams, Stored,
           queue'[r] = queue[r], item'[r] = item[r], out'[r] = out[r], out[r] = None,
           \/ /\ pc'[r] = "done" /\ parts'[r] = parts[r]
              /\ got'[r].last \in {"retry", "error"} \/ Canonical(r)
           \/ /\ pc'[r] = "commit" /\ got'[r] = got[r]
              /\ pc[r] \notin Late
    PROVE  Showing(r)'
<1>1. Stages(r)
  BY DEF ShowInv, Showing
<1>2. CASE /\ pc'[r] = "done" /\ parts'[r] = parts[r]
           /\ got'[r].last \in {"retry", "error"} \/ Canonical(r)
  <2>1. Pending(r, "complete")' => Canonical(r)
    <3>1. Pending(r, "complete")' => Pending(r, "complete") \/ got'[r].last = "complete"
      BY DEF Pending, InQueue
    <3>2. Pending(r, "complete") => Canonical(r)
      BY <1>1 DEF Stages
    <3>. QED
      BY <1>2, <3>1, <3>2
  <2>2. Canonical(r) => Canonical(r)'
    BY <1>2, StreamAssumption DEF Canonical, Stored
  <2>3. /\ pc'[r] \in Late /\ pc'[r] \notin Early \cup {"logging", "generate", "fallback", "streaming", "yielded"}
        /\ out'[r] # "delta"
    BY <1>2, NoneAssumption DEF Late, Early, Events
  <2>. QED
    BY <2>1, <2>2, <2>3 DEF Showing, Stages, Flow, Shown
<1>3. CASE pc'[r] = "commit" /\ got'[r] = got[r] /\ pc[r] \notin Late
  <2>1. \A e \in Events \ {"delta"} : ~Pending(r, e)'
    BY <1>1, <1>3 DEF Stages, Pending, InQueue
  <2>2. ~Pending(r, "complete")'
    BY <2>1 DEF Events, Outcomes
  <2>3. /\ pc'[r] \notin Early \cup {"logging", "generate", "fallback", "streaming", "yielded"}
        /\ out'[r] # "delta"
    BY <1>3, NoneAssumption DEF Early, Events
  <2>. QED
    BY <2>1, <2>2, <2>3 DEF Showing, Stages, Flow, Shown
<1>. QED
  BY <1>2, <1>3

\* The event that waited is put.
LEMMA UnblockShows ==
    ASSUME ShowInv, NEW r \in Requests, Stored, Unblock(r)
    PROVE  Showing(r)'
<1>0. /\ Stages(r) /\ Flow(r) /\ Shown(r)
      /\ queue \in [Requests -> Seq(Events)] /\ out \in [Requests -> Events \cup {None}]
      /\ pc \in [Requests -> Awaiting \cup {"new", "yielded", "end", "done"}]
      /\ parts[r] \in Nat
  BY DEF ShowInv, Showing, PipeTypes, IInv, Answering, Types
<1>1. /\ queue'[r] = Append(queue[r], out[r]) /\ out'[r] = None
      /\ out[r] \in Events /\ out[r] # None
      /\ UNCHANGED <<item, consumer, client, got, parts, committed>>
      /\ \/ pc[r] = "fallback" /\ pc'[r] = "commit"
         \/ pc[r] # "fallback" /\ pc'[r] = pc[r]
  BY <1>0 DEF Unblock, endpointVars
<1>2. \A f \in Events : Pending(r, f)' => Pending(r, f)
  <2>1. \A f \in Events : Pending(r, f)' => Pending(r, f) \/ f = out[r]
    BY <1>1, PutPends
  <2>. QED
    BY <2>1 DEF Pending
<1>3. Canonical(r)' <=> Canonical(r)
  BY <1>1 DEF Canonical
<1>4. Stages(r)'
  <2>1. pc[r] \notin Early \cup {"logging"} /\ out'[r] # "delta"
    BY <1>0, <1>1, NoneAssumption DEF Stages, Events
  <2>2. Pending(r, "complete")' \/ pc'[r] \in {"logging", "yielded"} => Canonical(r)'
    BY <1>0, <1>1, <1>2, <1>3 DEF Stages, Events, Outcomes
  <2>3. \A f \in Events \ {"delta"} : Pending(r, f)' => pc'[r] \in Late
    BY <1>0, <1>1, <1>2 DEF Stages, Late
  <2>4. pc'[r] = "generate" \/ (pc'[r] = "fallback" /\ out'[r] = None) => parts'[r] = 0
    BY <1>0, <1>1 DEF Stages
  <2>5. pc'[r] \notin Early \cup {"logging"} /\ (pc'[r] \in {"streaming", "fallback"} => r \in Streams)
    BY <1>0, <1>1, <2>1 DEF Stages, Early
  <2>. QED
    BY <2>1, <2>2, <2>3, <2>4, <2>5 DEF Stages
<1>5. Shown(r)'
  BY <1>0, <1>1 DEF Shown
<1>6. ASSUME NEW d \in Nat, Ahead(r, d)
      PROVE  \E c \in Nat : Ahead(r, c)'
  <2>1. PICK e \in Events : e = out[r]
    BY <1>1
  <2>2. One(e) \in Nat /\ One(out[r]) = One(e) /\ One(out'[r]) = 0 /\ parts'[r] = parts[r]
    BY <1>1, <2>1, NoneAssumption DEF One, Events
  <2>3. One(e) + One(out'[r]) + parts[r] = One(out[r]) + parts'[r] /\ parts'[r] \in Nat
    <3>. DEFINE o1 == One(e)
    <3>. HIDE DEF o1
    <3>1. o1 + 0 + parts[r] = o1 + parts[r]
      BY <1>0, <2>2 DEF o1
    <3>. QED
      BY <1>0, <2>2, <3>1 DEF o1
  <2>4. e = "delta" => pc[r] \notin Late
    BY <1>0, <2>1 DEF Stages, Awaiting, Late
  <2>5. Ahead(r, d + One(e))'
    BY <1>1, <1>6, <2>1, <2>3, <2>4, AppendedAhead
  <2>. QED
    BY <2>2, <2>5
<1>7. Flow(r)'
  BY <1>0, <1>1, <1>6 DEF Flow
<1>. QED
  BY <1>4, <1>5, <1>7 DEF Showing

\* What changes in the stages when only event_stream moves.
LEMMA ConsumerStages ==
    ASSUME ShowInv, NEW r \in Requests, pc[r] \notin Early,
           UNCHANGED <<pc, out, parts, committed>>,
           \A f \in Events : Pending(r, f)' => Pending(r, f)
    PROVE  Stages(r)'
<1>1. Stages(r)
  BY DEF ShowInv, Showing
<1>2. Canonical(r)' <=> Canonical(r)
  BY DEF Canonical
<1>3. "complete" \in Events
  BY DEF Events, Outcomes
<1>. QED
  BY <1>1, <1>2, <1>3 DEF Stages

LEMMA TakeItemShows ==
    ASSUME ShowInv, NEW r \in Requests, TakeItem(r)
    PROVE  Showing(r)'
<1>0. /\ Stages(r) /\ Flow(r) /\ Shown(r)
      /\ queue \in [Requests -> Seq(Events)] /\ item \in [Requests -> Outcomes \cup {"delta", None}]
      /\ consumer \in [Requests -> {"reading", "leaving", "stopping", "closed"}]
      /\ parts[r] \in Nat /\ got[r].deltas \in Nat
  BY DEF ShowInv, Showing, PipeTypes, IInv, Answering, Types
<1>1. /\ consumer[r] = "reading" /\ item[r] = None /\ queue[r] # <<>>
      /\ queue'[r] = Tail(queue[r])
      /\ UNCHANGED <<pc, out, client, got, parts, committed>>
      /\ \/ consumer'[r] = "leaving" /\ item'[r] = None
         \/ consumer'[r] = "reading" /\ item'[r] = Head(queue[r])
  BY <1>0 DEF TakeItem
<1>2. /\ queue'[r] \in Seq(Events) /\ Len(queue'[r]) = Len(queue[r]) - 1
      /\ Len(queue[r]) \in Nat \ {0}
      /\ \A i \in 1 .. Len(queue[r]) - 1 : queue'[r][i] = queue[r][i + 1]
      /\ Head(queue[r]) = queue[r][1] /\ Head(queue[r]) \in Events
  BY <1>0, <1>1, ShortenedQueue
<1>3. \A f \in Events : InQueue(r, f)' \/ f = queue[r][1] => InQueue(r, f)
  BY <1>2 DEF InQueue
<1>4. \A f \in Events : Pending(r, f)' => Pending(r, f)
  BY <1>1, <1>2, <1>3, NoneAssumption DEF Pending
<1>5. Stages(r)'
  <2>1. pc[r] \notin Early
    BY <1>0, <1>1 DEF Stages
  <2>. QED
    BY <1>1, <1>4, <2>1, ConsumerStages
<1>6. Shown(r)'
  BY <1>0, <1>1 DEF Shown
<1>7. ASSUME NEW d \in Nat, Ahead(r, d), item'[r] = Head(queue[r])
      PROVE  \E c \in Nat : Ahead(r, c)'
  <2>. DEFINE o1 == One(out[r])
              g1 == got[r].deltas
              p1 == parts[r]
  <2>1. /\ o1 \in Nat /\ g1 \in Nat /\ p1 \in Nat /\ g1 + d + o1 = p1
        /\ One(out'[r]) = o1 /\ got'[r].deltas = g1 /\ parts'[r] = p1
    BY <1>0, <1>1, <1>7, NoneAssumption DEF Ahead, One, Events
  <2>2. /\ d <= Len(queue[r])
        /\ \A i \in 1 .. Len(queue[r]) : queue[r][i] = "delta" <=> i <= d
        /\ got[r].last # None => d = 0
    BY <1>7 DEF Ahead
  <2>. HIDE DEF o1, g1, p1
  <2>3. CASE Head(queue[r]) = "delta"
    <3>1. d - 1 \in Nat /\ d - 1 <= Len(queue'[r]) /\ One(item'[r]) = 1 /\ got'[r].last = None
      BY <1>1, <1>2, <1>7, <2>2, <2>3 DEF One
    <3>2. \A i \in 1 .. Len(queue'[r]) : queue'[r][i] = "delta" <=> i <= d - 1
      <4>1. ASSUME NEW i \in 1 .. Len(queue'[r])
            PROVE  queue'[r][i] = "delta" <=> i <= d - 1
        <5>1. i \in Nat /\ i + 1 \in 1 .. Len(queue[r]) /\ queue'[r][i] = queue[r][i + 1]
          BY <1>2
        <5>2. queue[r][i + 1] = "delta" <=> i + 1 <= d
          BY <2>2, <5>1
        <5>. QED
          BY <5>1, <5>2
      <4>. QED
        BY <4>1
    <3>3. g1 + 1 + (d - 1) + o1 = p1
      BY <2>1, <3>1
    <3>4. item'[r] = "delta"
      BY <1>7, <2>3
    <3>5. Ahead(r, d - 1)'
      BY <2>1, <3>1, <3>2, <3>3, <3>4 DEF Ahead
    <3>. QED
      BY <3>1, <3>5
  <2>4. CASE Head(queue[r]) # "delta"
    <3>1. d = 0 /\ One(item'[r]) = 0 /\ item'[r] # "delta"
      BY <1>2, <1>7, <2>2, <2>4 DEF One
    <3>2. \A i \in 1 .. Len(queue'[r]) : queue'[r][i] = "delta" <=> i <= 0
      BY <1>2, <2>2, <3>1
    <3>3. g1 + 0 + 0 + o1 = p1 /\ 0 <= Len(queue'[r])
      BY <1>2, <2>1, <3>1
    <3>4. Ahead(r, 0)'
      BY <2>1, <3>1, <3>2, <3>3 DEF Ahead
    <3>. QED
      BY <3>4
  <2>. QED
    BY <2>3, <2>4
<1>8. Flow(r)'
  <2>1. CASE consumer'[r] = "leaving"
    BY <2>1 DEF Flow
  <2>2. CASE consumer'[r] = "reading" /\ item'[r] = Head(queue[r])
    BY <1>0, <1>1, <1>7, <2>2 DEF Flow
  <2>. QED
    BY <1>1, <2>1, <2>2
<1>. QED
  BY <1>5, <1>6, <1>8 DEF Showing

LEMMA DeliverShows ==
    ASSUME ShowInv, NEW r \in Requests, Deliver(r)
    PROVE  Showing(r)'
<1>0. /\ Stages(r) /\ Flow(r) /\ Shown(r)
      /\ item \in [Requests -> Outcomes \cup {"delta", None}]
      /\ got \in [Requests -> [deltas : Nat, last : Outcomes \cup {None}]]
      /\ consumer \in [Requests -> {"reading", "leaving", "stopping", "closed"}]
      /\ parts[r] \in Nat /\ out[r] \in Events \cup {None}
  BY DEF ShowInv, Showing, PipeTypes, IInv, Answering, Types
<1>1. /\ consumer[r] = "reading" /\ item[r] # None /\ item'[r] = None
      /\ UNCHANGED <<pc, out, queue, client, parts, committed>>
  BY <1>0 DEF Deliver
<1>2. \/ client[r] = "gone" /\ got' = got
      \/ /\ client[r] = "here" /\ item[r] = "delta"
         /\ got'[r].deltas = got[r].deltas + 1 /\ got'[r].last = got[r].last
      \/ /\ client[r] = "here" /\ item[r] # "delta"
         /\ got'[r].deltas = got[r].deltas /\ got'[r].last = item[r]
  BY <1>0 DEF Deliver
<1>3. \A f \in Events : Pending(r, f)' => Pending(r, f)
  BY <1>1, <1>2, NoneAssumption DEF Pending, InQueue
<1>4. Stages(r)'
  <2>1. pc[r] \notin Early
    BY <1>0, <1>1 DEF Stages
  <2>. QED
    BY <1>1, <1>3, <2>1, ConsumerStages
<1>5. CASE client[r] = "gone"
  <2>1. Flow(r)'
    BY <1>1, <1>5 DEF Flow
  <2>2. Shown(r)'
    BY <1>0, <1>1, <1>2, <1>5 DEF Shown
  <2>. QED
    BY <1>4, <2>1, <2>2 DEF Showing
<1>6. CASE client[r] = "here"
  <2>1. SUFFICES ASSUME r \in Streams
        PROVE  Flow(r)' /\ Shown(r)'
    BY <1>4 DEF Showing, Flow, Shown
  <2>2. PICK d \in Nat : Ahead(r, d)
    BY <1>0, <1>1, <1>6, <2>1 DEF Flow
  <2>. DEFINE o1 == One(out[r])
              g1 == got[r].deltas
              g2 == got'[r].deltas
              p1 == parts[r]
  <2>3. /\ o1 \in Nat /\ g1 \in Nat /\ p1 \in Nat
        /\ g1 + One(item[r]) + d + o1 = p1
        /\ One(out'[r]) = o1 /\ One(item'[r]) = 0 /\ parts'[r] = p1
    BY <1>0, <1>1, <2>2, NoneAssumption DEF Ahead, One, Events
  <2>4. /\ d <= Len(queue[r])
        /\ \A i \in 1 .. Len(queue[r]) : queue[r][i] = "delta" <=> i <= d
        /\ item[r] # "delta" => d = 0
        /\ got[r].last # None => d = 0 /\ item[r] # "delta"
    BY <1>1, <2>2 DEF Ahead
  <2>5. g2 + 0 + d + o1 = p1
    <3>1. CASE item[r] = "delta"
      <4>1. g2 = g1 + 1 /\ One(item[r]) = 1
        BY <1>2, <1>6, <3>1 DEF One
      <4>. HIDE DEF o1, g1, g2, p1
      <4>. QED
        BY <2>3, <4>1
    <3>2. CASE item[r] # "delta"
      <4>1. g2 = g1 /\ One(item[r]) = 0
        BY <1>2, <1>6, <3>2 DEF One
      <4>. HIDE DEF o1, g1, g2, p1
      <4>. QED
        BY <2>3, <4>1
    <3>. QED
      BY <3>1, <3>2
  <2>6. got'[r].last # None => d = 0
    BY <1>2, <1>6, <2>4
  <2>7. Ahead(r, d)'
    BY <1>1, <2>3, <2>4, <2>5, <2>6, NoneAssumption DEF Ahead, Events
  <2>8. Shown(r)'
    <3>1. SUFFICES ASSUME got'[r].last = "complete"
          PROVE  got'[r].deltas = parts'[r]
      BY DEF Shown
    <3>2. Pending(r, "complete")
      BY <1>3, <3>1 DEF Pending, Events, Outcomes
    <3>3. out[r] # "delta"
      BY <1>0, <3>2 DEF Stages, Late, Awaiting, Events, Outcomes
    <3>4. o1 = 0 /\ d = 0
      BY <2>6, <3>1, <3>3, NoneAssumption DEF One, Events, Outcomes
    <3>5. g2 \in Nat
      BY <1>0, <1>2
    <3>. QED
      BY <2>3, <2>5, <3>4, <3>5
  <2>. QED
    BY <2>7, <2>8 DEF Flow
<1>. QED
  BY <1>2, <1>5, <1>6

LEMMA FailShows ==
    ASSUME ShowInv, NEW r \in Requests, NEW e \in {"retry", "error"}, Fail(r, e), out[r] = None,
           UNCHANGED <<consumer, item, client, parts, committed>>
    PROVE  Showing(r)'
<1>1. /\ e \in Events /\ e \notin {"delta", "complete"} /\ Stored
      /\ got[r] \in [deltas : Nat, last : Outcomes \cup {None}]
      /\ pc \in [Requests -> Awaiting \cup {"new", "yielded", "end", "done"}]
      /\ got \in [Requests -> [deltas : Nat, last : Outcomes \cup {None}]]
  BY DEF Events, Outcomes, Stored, ShowInv, IInv, Answering, Types, PipeTypes
<1>2. CASE r \in Streams /\ pc' = [pc EXCEPT ![r] = "end"] /\ Put(r, e) /\ UNCHANGED got
  <2>1. pc'[r] = "end" /\ "end" \in Late
    BY <1>1, <1>2 DEF Late
  <2>. QED
    BY <1>1, <1>2, <2>1, OutcomeShows
<1>3. CASE r \in Plains /\ pc' = [pc EXCEPT ![r] = "done"] /\ got' = [got EXCEPT ![r].last = e] /\ NoPut
  <2>1. r \notin Streams /\ pc'[r] = "done" /\ got'[r].last = e /\ queue' = queue /\ out' = out
    BY <1>1, <1>3, StreamAssumption DEF NoPut
  <2>. QED
    BY <1>1, <2>1, PlainShows
<1>. QED
  BY <1>2, <1>3 DEF Fail

LEMMA StreamFailsShows ==
    ASSUME ShowInv, NEW r \in Requests, Streaming(r), StreamFails(r),
           UNCHANGED <<consumer, item, client, parts, committed>>
    PROVE  Showing(r)'
<1>1. CASE Fail(r, "retry")
  BY <1>1, FailShows DEF Streaming
<1>2. CASE parts[r] = 0 /\ pc' = [pc EXCEPT ![r] = "fallback"] /\ NoPut /\ UNCHANGED got
  <2>1. /\ pc'[r] = "fallback" /\ queue' = queue /\ out' = out /\ Stored
        /\ pc[r] = "streaming" /\ out[r] = None /\ r \in Streams
    BY <1>2 DEF NoPut, Streaming, Stored, ShowInv, Showing, Stages, IInv, Answering, Types
  <2>. QED
    BY <1>2, <2>1, NoneAssumption, QuietShows DEF Early, Late, Awaiting, Events
<1>. QED
  BY <1>1, <1>2 DEF StreamFails

LEMMA StreamEndsShows ==
    ASSUME ShowInv, NEW r \in Requests, Streaming(r), NEW p, StreamEnds(r, p),
           UNCHANGED <<consumer, item, client, parts, committed>>
    PROVE  Showing(r)'
<1>1. CASE StreamFails(r)
  BY <1>1, StreamFailsShows
<1>2. CASE /\ \/ pc' = [pc EXCEPT ![r] = "commit"]
              \/ parts[r] = 0 /\ pc' = [pc EXCEPT ![r] = "generate"]
           /\ NoPut /\ UNCHANGED got
  <2>1. /\ pc'[r] = "commit" \/ (pc'[r] = "generate" /\ parts[r] = 0)
        /\ queue' = queue /\ out' = out /\ Stored
        /\ pc[r] = "streaming" /\ out[r] = None
    BY <1>2 DEF NoPut, Streaming, Stored, ShowInv, IInv, Answering, Types
  <2>. QED
    BY <1>2, <2>1, NoneAssumption, QuietShows DEF Early, Late, Awaiting, Events
<1>. QED
  BY <1>1, <1>2 DEF StreamEnds

LEMMA InterruptShows ==
    ASSUME ShowInv, NEW r \in Requests, Interrupt(r), consumer'[r] = "stopping",
           UNCHANGED <<item, got, parts, committed>>
    PROVE  Showing(r)'
<1>1. /\ pc \in [Requests -> Awaiting \cup {"new", "yielded", "end", "done"}]
      /\ out \in [Requests -> Events \cup {None}] /\ Stored
  BY DEF ShowInv, IInv, Answering, Types, Stored
<1>2. queue' = queue /\ out'[r] = None /\ pc'[r] \in {"end", "done"}
  BY <1>1 DEF Interrupt, NoPut
<1>. QED
  BY <1>1, <1>2, StoppedShows

LEMMA GeneratedShows ==
    ASSUME ShowInv, NEW r \in Requests, NEW n \in 0 .. 1, Generated(r, n)
    PROVE  Showing(r)'
<1>1. /\ pc[r] \in {"fallback", "generate"} /\ out[r] = None /\ Stored
      /\ pc[r] = "fallback" => r \in Streams
      /\ parts[r] = 0 /\ parts'[r] = n
      /\ UNCHANGED <<consumer, item, client, got>>
      /\ pc'[r] = "commit" \/ (pc'[r] = pc[r] /\ pc[r] = "fallback" /\ n = 1 /\ ~Room(r))
  BY DEF Generated, Generating, endpointVars, Stored, ShowInv, Showing, Stages, IInv, Answering, Types
<1>2. CASE n = 0
  <2>1. pc'[r] = "commit" /\ queue' = queue /\ out' = out
    BY <1>1, <1>2 DEF Generated, NoPut
  <2>. QED
    BY <1>1, <1>2, <2>1, NoneAssumption, QuietShows DEF Early, Late, Awaiting, Events
<1>3. CASE n = 1 /\ r \in Streams
  <2>1. Put(r, "delta")
    BY <1>3 DEF Generated
  <2>. QED
    BY <1>1, <1>3, <2>1, DeltaShows
<1>4. CASE n = 1 /\ r \notin Streams
  <2>1. queue' = queue /\ out' = out /\ pc'[r] = "commit"
    BY <1>1, <1>4 DEF Generated, NoPut
  <2>. QED
    BY <1>1, <1>4, <2>1, PlainShows DEF Late
<1>. QED
  BY <1>2, <1>3, <1>4

LEMMA CommitShows ==
    ASSUME ShowInv, NEW r \in Requests, Commit(r)
    PROVE  Showing(r)'
<1>1. /\ pc[r] = "commit" /\ out[r] = None /\ pc'[r] = "logging"
      /\ UNCHANGED <<consumer, item, client, got, parts, queue, out>>
      /\ committed' = [committed EXCEPT ![TurnOf[r]] = Answer(r)]
  BY DEF Commit, NoPut, endpointVars, ShowInv, IInv, Answering, Types
<1>2. Answer(r) # None /\ Answer(r).parts = parts[r]
  <2>1. Answer(r) \in [parts : Nat, whole : BOOLEAN]
    BY DEF Answer, ShowInv, IInv, Answering, Types
  <2>. QED
    BY <2>1, NoneAssumption DEF Answer
<1>3. committed'[TurnOf[r]] = Answer(r)
  BY <1>1, StreamAssumption DEF ShowInv, IInv, Answering, Types
<1>4. Canonical(r)'
  BY <1>1, <1>2, <1>3 DEF Canonical
<1>5. Stored
  BY StepStores DEF RequestStep, Produce
<1>. QED
  BY <1>1, <1>4, <1>5, NoneAssumption, QuietShows DEF Early, Late, Events

LEMMA LoggedShows ==
    ASSUME ShowInv, NEW r \in Requests, Logged(r)
    PROVE  Showing(r)'
<1>1. /\ pc[r] = "logging" /\ out[r] = None /\ Canonical(r) /\ Stored
      /\ UNCHANGED <<consumer, item, client, parts, committed>>
      /\ "complete" \in Events /\ "complete" # "delta"
      /\ pc \in [Requests -> Awaiting \cup {"new", "yielded", "end", "done"}]
      /\ got \in [Requests -> [deltas : Nat, last : Outcomes \cup {None}]]
  BY DEF Logged, Stored, ShowInv, Showing, Stages, PipeTypes, IInv, Answering, Types, Events, Outcomes
<1>2. CASE r \in Streams
  <2>1. pc'[r] = "yielded" /\ Put(r, "complete") /\ got' = got /\ "yielded" \in Late
    BY <1>1, <1>2, StreamAssumption DEF Logged, Late
  <2>. QED
    BY <1>1, <2>1, OutcomeShows
<1>3. CASE r \notin Streams
  <2>1. pc'[r] = "done" /\ queue' = queue /\ out' = out
    BY <1>1, <1>3 DEF Logged, NoPut
  <2>. QED
    BY <1>1, <1>3, <2>1, PlainShows
<1>. QED
  BY <1>2, <1>3

LEMMA StepShows ==
    ASSUME ShowInv, NEW r \in Requests, RequestStep(r)
    PROVE  Showing(r)'
<1>0. /\ Stages(r) /\ Stored
      /\ pc \in [Requests -> Awaiting \cup {"new", "yielded", "end", "done"}]
      /\ consumer \in [Requests -> {"reading", "leaving", "stopping", "closed"}]
      /\ client \in [Requests -> {"here", "gone"}]
  BY StepStores DEF ShowInv, Showing, PipeTypes, IInv, Answering, Types
<1>1. CASE Start(r) \/ TakeLock(r)
  <2>1. /\ pc[r] \in Early /\ pc'[r] \in {"waiting", "loaded"}
        /\ UNCHANGED <<queue, out, item, client, got, parts>>
        /\ consumer'[r] = consumer[r] \/ pc[r] = "new"
        /\ out[r] = None
    BY <1>0, <1>1 DEF Start, TakeLock, NoPut, endpointVars, Early, Stages
  <2>. QED
    BY <1>0, <2>1, NoneAssumption, QuietShows DEF Early, Late, Events
<1>2. CASE Replay(r)
  <2>1. /\ pc[r] = "loaded" /\ pc'[r] = "logging" /\ parts[r] = 0 /\ out[r] = None
        /\ UNCHANGED <<queue, out, item, consumer, client, got, parts, committed>>
        /\ committed[TurnOf[r]] # None
    BY <1>0, <1>2 DEF Replay, NoPut, endpointVars, Early, Stages
  <2>2. Canonical(r)'
    BY <2>1 DEF Canonical
  <2>. QED
    BY <1>0, <2>1, <2>2, NoneAssumption, QuietShows DEF Early, Late, Events
<1>3. CASE Ask(r)
  <2>1. /\ pc[r] = "loaded" /\ parts[r] = 0 /\ out[r] = None
        /\ UNCHANGED <<queue, out, item, consumer, client, got, parts, committed>>
        /\ pc'[r] = "generate" \/ (pc'[r] = "streaming" /\ r \in Streams)
    BY <1>0, <1>3 DEF Ask, NoPut, endpointVars, Early, Stages
  <2>. QED
    BY <1>0, <2>1, NoneAssumption, QuietShows DEF Early, Late, Events
<1>4. CASE Refuse(r) \/ InferenceFails(r) \/ StorageFails(r)
  <2>1. out[r] = None
    BY <1>0, <1>4 DEF Refuse, InferenceFails, StorageFails, Streaming, Generating, Stages, Early
  <2>. QED
    BY <1>4, <2>1, FailShows DEF Refuse, InferenceFails, StorageFails
<1>5. ASSUME NEW last \in BOOLEAN, ContentLine(r, last)
      PROVE  Showing(r)'
  <2>1. /\ pc[r] = "streaming" /\ pc' = pc /\ out[r] = None /\ Put(r, "delta")
        /\ UNCHANGED <<item, consumer, client, got>> /\ parts'[r] = parts[r] + 1
        /\ r \in Streams
    BY <1>0, <1>5 DEF ContentLine, Streaming, endpointVars, Stages, ShowInv, IInv, Answering, Types
  <2>. QED
    BY <1>0, <2>1, DeltaShows
<1>6. ASSUME NEW last \in BOOLEAN, SilentLine(r, last)
      PROVE  Showing(r)'
  <2>1. /\ pc[r] = "streaming" /\ pc' = pc /\ out[r] = None /\ r \in Streams
        /\ UNCHANGED <<queue, out, item, consumer, client, got, parts, committed>>
    BY <1>0, <1>6 DEF SilentLine, Streaming, NoPut, endpointVars, Stages
  <2>. QED
    BY <1>0, <2>1, NoneAssumption, QuietShows DEF Early, Late, Events
<1>7. CASE DoneLine(r) \/ EndOfLines(r)
  <2>1. /\ Streaming(r) /\ \E p : StreamEnds(r, p)
        /\ UNCHANGED <<consumer, item, client, parts, committed>>
    BY <1>7 DEF DoneLine, EndOfLines
  <2>. QED
    BY <2>1, StreamEndsShows
<1>8. CASE BreakLines(r)
  BY <1>8, StreamFailsShows DEF BreakLines
<1>9. CASE \E n \in 0 .. 1 : Generated(r, n)
  BY <1>9, GeneratedShows
<1>10. CASE Commit(r)
  BY <1>10, CommitShows
<1>11. CASE Logged(r)
  BY <1>11, LoggedShows
<1>12. CASE Unblock(r)
  BY <1>0, <1>12, UnblockShows
<1>13. CASE Return(r) \/ CloseOrphan(r)
  <2>1. /\ pc[r] \in Late /\ pc'[r] \in {"end", "done"}
        /\ UNCHANGED <<queue, out, item, consumer, client, got, parts, committed>>
    BY <1>0, <1>13 DEF Return, CloseOrphan, Orphaned, NoPut, endpointVars, Late
  <2>2. out[r] # "delta"
    BY <1>0, <2>1 DEF Stages, Awaiting, Late
  <2>. QED
    BY <1>0, <2>1, <2>2, QuietShows DEF Early, Late
<1>14. CASE PutEnd(r)
  <2>1. /\ pc[r] = "end" /\ out[r] = None /\ pc'[r] = "done" /\ Put(r, "end") /\ "end" \in Events
        /\ UNCHANGED <<item, consumer, client, got, parts, committed>>
    BY <1>0, <1>14 DEF PutEnd, Put, endpointVars, Events
  <2>. QED
    BY <1>0, <2>1, OutcomeShows DEF Late
<1>15. CASE Cancel(r) \/ CancelAgain(r)
  <2>1. Interrupt(r) /\ consumer'[r] = "stopping" /\ UNCHANGED <<item, got, parts, committed>>
    BY <1>0, <1>15 DEF Cancel, CancelAgain, endpointVars
  <2>. QED
    BY <2>1, InterruptShows
<1>16. CASE TakeItem(r)
  BY <1>16, TakeItemShows
<1>17. CASE Deliver(r)
  BY <1>17, DeliverShows
<1>18. CASE Notice(r) \/ CloseConsumer(r) \/ Disconnect(r)
  <2>1. /\ UNCHANGED <<pc, queue, out, item, got, parts, committed>>
        /\ client'[r] \in {client[r], "gone"}
        /\ consumer'[r] \in {consumer[r], "leaving", "closed"}
    BY <1>0, <1>18 DEF Notice, CloseConsumer, Disconnect
  <2>2. Canonical(r)' <=> Canonical(r)
    BY <2>1 DEF Canonical
  <2>. QED
    BY <1>0, <2>1, <2>2, QuietShows DEF Stages
<1>. QED
  BY <1>1, <1>2, <1>3, <1>4, <1>5, <1>6, <1>7, <1>8, <1>9, <1>10, <1>11, <1>12, <1>13, <1>14,
     <1>15, <1>16, <1>17, <1>18 DEF RequestStep, Produce, Backend, Consume

---------------------------------------------------------------------------
LEMMA InitShow == Init => ShowInv
<1>. SUFFICES ASSUME Init
     PROVE  ShowInv
  OBVIOUS
<1>1. PipeTypes /\ Locks
  BY DEF Init, PipeTypes, Locks, Holding, Storing, Outcomes
<1>2. ASSUME NEW r \in Requests
      PROVE  Showing(r)
  <2>1. /\ pc[r] = "new" /\ out[r] = None /\ queue[r] = <<>> /\ consumer[r] = "closed"
        /\ item[r] = None /\ got[r].deltas = 0 /\ got[r].last = None /\ parts[r] = 0
    BY DEF Init
  <2>2. \A e \in Events : ~Pending(r, e)
    BY <2>1, NoneAssumption DEF Pending, InQueue
  <2>3. Stages(r)
    BY <2>1, <2>2, NoneAssumption DEF Stages, Early, Late, Events, Outcomes
  <2>. QED
    BY <2>1, <2>3, NoneAssumption DEF Showing, Flow, Shown, Events, Outcomes
<1>. QED
  BY <1>1, <1>2, InitIInv DEF ShowInv

LEMMA NextShow == ShowInv /\ [Next]_vars => ShowInv'
<1>1. ASSUME ShowInv, NEW r \in Requests, RequestStep(r)
      PROVE  ShowInv'
  <2>1. IInv'
    BY <1>1, NextIInv DEF ShowInv, Next, RequestStep
  <2>2. Only(r) /\ PipeTypes' /\ Stored /\ Locks' /\ Showing(r)'
    BY <1>1, StepTouches, StepStores, StepLocks, StepShows
  <2>3. ASSUME NEW q \in Requests \ {r}
        PROVE  Showing(q)'
    BY <1>1, <2>2, OthersShow DEF ShowInv
  <2>. QED
    BY <2>1, <2>2, <2>3 DEF ShowInv
<1>2. ASSUME ShowInv, UNCHANGED vars
      PROVE  ShowInv'
  <2>1. IInv'
    BY <1>2, NextIInv DEF ShowInv
  <2>2. PipeTypes' /\ Locks'
    BY <1>2 DEF vars, ShowInv, PipeTypes, Locks
  <2>3. ASSUME NEW r \in Requests
        PROVE  Showing(r)'
    BY <1>2 DEF vars, ShowInv, Showing, Stages, Flow, Shown, Ahead, Pending, InQueue, Canonical
  <2>. QED
    BY <2>1, <2>2, <2>3 DEF ShowInv
<1>. QED
  BY <1>1, <1>2 DEF Next, RequestStep

\* A client that was told "complete" was told of a stored turn, and was shown
\* every part of the stored answer or, when the turn is replayed, none.
THEOREM CompleteIsCanonicalHolds == Spec => []CompleteIsCanonical
<1>1. ShowInv => CompleteIsCanonical
  <2>. SUFFICES ASSUME ShowInv, NEW r \in Requests, got[r].last = "complete"
       PROVE  /\ committed[TurnOf[r]] # None
              /\ r \in Streams =>
                  got[r].deltas \in {0, committed[TurnOf[r]].parts} /\ got[r].deltas = parts[r]
    BY DEF CompleteIsCanonical
  <2>1. Canonical(r) /\ Shown(r)
    BY DEF ShowInv, Showing, Stages, Pending, Events, Outcomes
  <2>. QED
    BY <2>1 DEF Canonical, Shown
<1>. QED
  BY <1>1, InitShow, NextShow, PTL DEF Spec

=============================================================================
