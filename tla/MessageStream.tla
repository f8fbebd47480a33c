--------------------------- MODULE MessageStream ---------------------------
(***************************************************************************)
(* One user's message requests: the streaming endpoint with its producer   *)
(* task, bounded event queue and disconnecting client                      *)
(* (api/routes/sessions.py), the inference slots and the fallback from a   *)
(* stream to a plain call (core/sessions.py), and the parser of the        *)
(* backend's event stream (inference/openai_compatible.py).                *)
(*                                                                         *)
(* A turn is one message id of one session.  What the session document     *)
(* does with it is SessionService's subject; here a turn is committed or   *)
(* not, and the content of an answer is the number of its non-empty parts. *)
(* A coroutine runs from one suspension to the next in one step: putting   *)
(* into a queue with room and counting a slot do not suspend.              *)
(***************************************************************************)
EXTENDS Naturals, Sequences, FiniteSets

CONSTANTS
    Streams,    \* requests to .../messages/stream
    Plains,     \* requests to .../messages
    Turns,      \* the turns the user tries to take
    TurnOf,     \* request -> turn
    Capacity,   \* of a request's event queue (100)
    MaxActive,  \* inferences a user may run at once (2)
    MaxParts,   \* bound: non-empty deltas of one answer
    None

Requests == Streams \cup Plains

ASSUME StreamAssumption ==
    /\ Streams \cap Plains = {}
    /\ IsFiniteSet(Requests)
    /\ TurnOf \in [Requests -> Turns]
    /\ Capacity \in Nat \ {0} /\ MaxActive \in Nat \ {0} /\ MaxParts \in Nat
    /\ None \notin Requests

VARIABLES
    pc,         \* request -> where the call into SessionManager is
    out,        \* request -> the event its producer waits to put, or None
    queue,      \* request -> events put and not yet taken
    consumer,   \* request -> event_stream: reading the queue, leaving (in its finally
                \* clause), stopping the producer, or closed
    item,       \* request -> the event event_stream yields to the client, or None
    client,     \* request -> "here" or "gone"
    got,        \* request -> deltas and last event the client received
    parser,     \* request -> what the parser has seen of the backend's stream
    parts,      \* request -> content_parts
    slot,       \* request -> it counts in active
    active,     \* _active_inferences of the user
    lock,       \* turn -> request that holds the lock of its session
    committed   \* turn -> the stored answer, or None

vars == <<pc, out, queue, consumer, item, client, got, parser, parts, slot, active, lock, committed>>

endpointVars == <<consumer, item, client, got>>

\* How a request ends: the portal may fall back to a plain call after "retry".
Outcomes == {"complete", "retry", "error"}

Events == {"delta", "end"} \cup Outcomes

Answers == [parts : 0 .. MaxParts, whole : BOOLEAN]

ASSUME NoneAssumption == None \notin Events /\ None \notin [parts : Nat, whole : BOOLEAN]

\* Where SessionManager awaits something that a cancellation interrupts.
Awaiting == {"waiting", "loaded", "streaming", "fallback", "generate", "commit", "logging"}

TypeOK ==
    /\ pc \in [Requests -> Awaiting \cup {"new", "yielded", "end", "done"}]
    /\ out \in [Requests -> Events \cup {None}]
    /\ queue \in [Requests -> Seq(Events)]
    /\ \A r \in Requests : Len(queue[r]) <= Capacity
    /\ consumer \in [Requests -> {"reading", "leaving", "stopping", "closed"}]
    /\ item \in [Requests -> Events \cup {None}]
    /\ client \in [Requests -> {"here", "gone"}]
    /\ got \in [Requests -> [deltas : 0 .. MaxParts, last : Outcomes \cup {None}]]
    /\ parser \in [Requests -> [payload : BOOLEAN, terminal : BOOLEAN, finished : BOOLEAN]]
    /\ parts \in [Requests -> 0 .. MaxParts]
    /\ slot \in [Requests -> BOOLEAN]
    /\ active \in 0 .. MaxActive
    /\ lock \in [Turns -> Requests \cup {None}]
    /\ committed \in [Turns -> Answers \cup {None}]

Init ==
    /\ pc = [r \in Requests |-> "new"]
    /\ out = [r \in Requests |-> None]
    /\ queue = [r \in Requests |-> <<>>]
    /\ consumer = [r \in Requests |-> "closed"]
    /\ item = [r \in Requests |-> None]
    /\ client = [r \in Requests |-> "here"]
    /\ got = [r \in Requests |-> [deltas |-> 0, last |-> None]]
    /\ parser = [r \in Requests |-> [payload |-> FALSE, terminal |-> FALSE, finished |-> FALSE]]
    /\ parts = [r \in Requests |-> 0]
    /\ slot = [r \in Requests |-> FALSE]
    /\ active = 0
    /\ lock = [t \in Turns |-> None]
    /\ committed = [t \in Turns |-> None]

---------------------------------------------------------------------------
(***************************************************************************)
(* The event queue and what the generator holds.                           *)
(***************************************************************************)
Room(r) == Len(queue[r]) < Capacity

\* Mutant: what does not fit is dropped.
MutantDroppingPut(r, e) ==
    queue' = [queue EXCEPT ![r] = IF Room(r) THEN Append(@, e) ELSE @] /\ UNCHANGED out

\* queue.put suspends the producer while the queue is full.
Put(r, e) ==
    IF Room(r) THEN queue' = [queue EXCEPT ![r] = Append(@, e)] /\ UNCHANGED out
               ELSE out' = [out EXCEPT ![r] = e] /\ UNCHANGED queue

NoPut == UNCHANGED <<queue, out>>

\* Mutant: a slot is released that was never acquired.
MutantReleaseSlot(r) ==
    /\ slot' = [slot EXCEPT ![r] = FALSE]
    /\ active' = IF active <= 1 THEN 0 ELSE active - 1

ReleaseSlot(r) ==
    /\ slot' = [slot EXCEPT ![r] = FALSE]
    /\ active' = IF ~slot[r] THEN active ELSE IF active <= 1 THEN 0 ELSE active - 1

KeepSlot == UNCHANGED <<slot, active>>

\* Mutant: the lock stays with a generator that is left.
MutantLeaveGenerator(r) == ReleaseSlot(r) /\ UNCHANGED lock

\* Leaving the generator gives back its slot and its session's lock.
LeaveGenerator(r) ==
    /\ ReleaseSlot(r)
    /\ lock' = [lock EXCEPT ![TurnOf[r]] = IF @ = r THEN None ELSE @]

\* Mutant: the producer swallows the exception.
MutantFail(r, e) ==
    /\ LeaveGenerator(r)
    /\ pc' = [pc EXCEPT ![r] = IF r \in Streams THEN "end" ELSE "done"]
    /\ got' = [got EXCEPT ![r].last = IF r \in Streams THEN @ ELSE e]
    /\ NoPut

\* An exception leaves submit_user_message or its stream and is reported.
Fail(r, e) ==
    /\ LeaveGenerator(r)
    /\ \/ /\ r \in Streams
          /\ pc' = [pc EXCEPT ![r] = "end"]
          /\ Put(r, e)
          /\ UNCHANGED got
       \/ /\ r \in Plains
          /\ pc' = [pc EXCEPT ![r] = "done"]
          /\ got' = [got EXCEPT ![r].last = e]
          /\ NoPut

---------------------------------------------------------------------------
(***************************************************************************)
(* SessionManager.submit_user_message and submit_user_message_stream.      *)
(***************************************************************************)
\* The route calls; event_stream starts its producer.
Start(r) ==
    /\ pc[r] = "new"
    /\ pc' = [pc EXCEPT ![r] = "waiting"]
    /\ consumer' = [consumer EXCEPT ![r] = IF r \in Streams THEN "reading" ELSE @]
    /\ NoPut /\ KeepSlot
    /\ UNCHANGED <<item, client, got, parser, parts, lock, committed>>

TakeLock(r) ==
    /\ pc[r] = "waiting" /\ lock[TurnOf[r]] = None
    /\ lock' = [lock EXCEPT ![TurnOf[r]] = r]
    /\ pc' = [pc EXCEPT ![r] = "loaded"]
    /\ NoPut /\ KeepSlot
    /\ UNCHANGED <<endpointVars, parser, parts, committed>>

\* The turn was committed by an earlier request: its log is repaired.
Replay(r) ==
    /\ pc[r] = "loaded" /\ committed[TurnOf[r]] # None
    /\ pc' = [pc EXCEPT ![r] = "logging"]
    /\ NoPut /\ KeepSlot
    /\ UNCHANGED <<endpointVars, parser, parts, lock, committed>>

FreeSlot == active < MaxActive

\* _acquire_inference_slot, then the first call to the backend.
Ask(r) ==
    /\ pc[r] = "loaded" /\ committed[TurnOf[r]] = None /\ FreeSlot
    /\ slot' = [slot EXCEPT ![r] = TRUE]
    /\ active' = active + 1
    /\ pc' = [pc EXCEPT ![r] = IF r \in Streams THEN "streaming" ELSE "generate"]
    /\ NoPut
    /\ UNCHANGED <<endpointVars, parser, parts, lock, committed>>

\* The session admits no turn, the id was used otherwise, or two inferences run.
Refuse(r) ==
    /\ pc[r] = "loaded"
    /\ Fail(r, "error")
    /\ UNCHANGED <<consumer, item, client, parser, parts, committed>>

\* An InferenceError of the stream: once text was shown the client decides.
StreamFails(r) ==
    \/ /\ parts[r] > 0
       /\ Fail(r, "retry")
    \/ /\ parts[r] = 0
       /\ pc' = [pc EXCEPT ![r] = "fallback"]
       /\ NoPut /\ KeepSlot
       /\ UNCHANGED <<got, lock>>

\* Mutant: a stream that just stops is taken for a whole answer.
MutantComplete(p) == p.payload

\* What OpenAICompatibleInference.stream demands at the end of the response.
Complete(p) == p.payload /\ p.terminal

\* The response ends; p is what the parser has seen of it.
StreamEnds(r, p) ==
    \/ /\ Complete(p) /\ parts[r] > 0
       /\ pc' = [pc EXCEPT ![r] = "commit"]
       /\ ReleaseSlot(r)
       /\ NoPut
       /\ UNCHANGED <<got, lock>>
    \/ /\ Complete(p) /\ parts[r] = 0   \* the slot is given back and taken in one step
       /\ pc' = [pc EXCEPT ![r] = "generate"]
       /\ NoPut /\ KeepSlot
       /\ UNCHANGED <<got, lock>>
    \/ ~Complete(p) /\ StreamFails(r)

Streaming(r) == pc[r] = "streaming" /\ out[r] = None

\* What one data line shows the parser; last: it has a finish reason.
Parsed(p, last) ==
    [payload |-> TRUE, terminal |-> p.terminal \/ last, finished |-> p.finished \/ last]

\* A data line with text: the delta is yielded and put.
ContentLine(r, last) ==
    /\ Streaming(r) /\ parts[r] < MaxParts
    /\ parser' = [parser EXCEPT ![r] = Parsed(@, last)]
    /\ parts' = [parts EXCEPT ![r] = @ + 1]
    /\ Put(r, "delta")
    /\ KeepSlot
    /\ UNCHANGED <<pc, endpointVars, lock, committed>>

\* A data line without text, with or without a finish reason.
SilentLine(r, last) ==
    /\ Streaming(r)
    /\ parser' = [parser EXCEPT ![r] = Parsed(@, last)]
    /\ NoPut /\ KeepSlot
    /\ UNCHANGED <<pc, endpointVars, parts, lock, committed>>

\* [DONE] ends the response for the parser.
DoneLine(r) ==
    /\ Streaming(r)
    /\ parser' = [parser EXCEPT ![r].terminal = TRUE, ![r].finished = TRUE]
    /\ StreamEnds(r, parser'[r])
    /\ UNCHANGED <<consumer, item, client, parts, committed>>

\* The backend closes the response.
EndOfLines(r) ==
    /\ Streaming(r)
    /\ StreamEnds(r, parser[r])
    /\ UNCHANGED <<consumer, item, client, parser, parts, committed>>

\* The connection breaks, times out, is refused, or a line is malformed.
BreakLines(r) ==
    /\ Streaming(r)
    /\ StreamFails(r)
    /\ UNCHANGED <<consumer, item, client, parser, parts, committed>>

Generating(r) == pc[r] \in {"fallback", "generate"} /\ out[r] = None

\* generate() answers with n parts of text, n at most one.  The fallback
\* yields its delta before it gives back the slot, a plain call keeps the
\* slot until the turn is stored.
Generated(r, n) ==
    /\ Generating(r)
    /\ parts' = [parts EXCEPT ![r] = n]
    /\ parser' = [parser EXCEPT ![r].finished = TRUE]
    /\ IF n = 1 /\ r \in Streams THEN Put(r, "delta") ELSE NoPut
    /\ IF pc[r] = "fallback" /\ n = 1 /\ ~Room(r)
       THEN KeepSlot /\ UNCHANGED pc
       ELSE /\ IF r \in Streams THEN ReleaseSlot(r) ELSE KeepSlot
            /\ pc' = [pc EXCEPT ![r] = "commit"]
    /\ UNCHANGED <<endpointVars, lock, committed>>

\* generate() fails, or the backend raises what nobody expected.
InferenceFails(r) ==
    /\ Generating(r) \/ Streaming(r)
    /\ Fail(r, "error")
    /\ UNCHANGED <<consumer, item, client, parser, parts, committed>>

Answer(r) == [parts |-> parts[r], whole |-> parser[r].finished]

Commit(r) ==
    /\ pc[r] = "commit" /\ out[r] = None
    /\ committed' = [committed EXCEPT ![TurnOf[r]] = Answer(r)]
    /\ pc' = [pc EXCEPT ![r] = "logging"]
    /\ NoPut /\ KeepSlot
    /\ UNCHANGED <<endpointVars, parser, parts, lock>>

\* The encrypted log is written: a stream yields complete, a call returns.
Logged(r) ==
    /\ pc[r] = "logging"
    /\ \/ /\ r \in Streams
          /\ pc' = [pc EXCEPT ![r] = "yielded"]
          /\ Put(r, "complete")
          /\ KeepSlot
          /\ UNCHANGED <<got, lock>>
       \/ /\ r \in Plains
          /\ pc' = [pc EXCEPT ![r] = "done"]
          /\ got' = [got EXCEPT ![r].last = "complete"]
          /\ LeaveGenerator(r)
          /\ NoPut
    /\ UNCHANGED <<consumer, item, client, parser, parts, committed>>

\* save_session or the log raises.
StorageFails(r) ==
    /\ pc[r] \in {"commit", "logging"} /\ out[r] = None
    /\ Fail(r, "error")
    /\ UNCHANGED <<consumer, item, client, parser, parts, committed>>

---------------------------------------------------------------------------
(***************************************************************************)
(* produce_events.                                                         *)
(***************************************************************************)
\* The consumer made room for the event the producer waits to put.
Unblock(r) ==
    /\ out[r] # None /\ Room(r)
    /\ queue' = [queue EXCEPT ![r] = Append(@, out[r])]
    /\ out' = [out EXCEPT ![r] = None]
    /\ IF pc[r] = "fallback"
       THEN ReleaseSlot(r) /\ pc' = [pc EXCEPT ![r] = "commit"]
       ELSE KeepSlot /\ UNCHANGED pc
    /\ UNCHANGED <<endpointVars, parser, parts, lock, committed>>

\* The generator is resumed after complete was put, and returns.
Return(r) ==
    /\ pc[r] = "yielded" /\ out[r] = None
    /\ pc' = [pc EXCEPT ![r] = "end"]
    /\ LeaveGenerator(r)
    /\ NoPut
    /\ UNCHANGED <<endpointVars, parser, parts, committed>>

\* Mutant: the end marker is forgotten.
MutantPutEnd(r) ==
    /\ pc[r] = "end" /\ out[r] = None
    /\ pc' = [pc EXCEPT ![r] = "done"]
    /\ NoPut /\ KeepSlot
    /\ UNCHANGED <<endpointVars, parser, parts, lock, committed>>

\* The finally clause puts the end marker.
PutEnd(r) ==
    /\ pc[r] = "end" /\ out[r] = None /\ Room(r)
    /\ queue' = [queue EXCEPT ![r] = Append(@, "end")]
    /\ pc' = [pc EXCEPT ![r] = "done"]
    /\ KeepSlot
    /\ UNCHANGED <<out, endpointVars, parser, parts, lock, committed>>

\* CancelledError is raised where the producer is suspended: in the generator,
\* in a put of an event (which leaves the generator to the garbage collector),
\* or in the put of the end marker.
Interrupt(r) ==
    \/ /\ pc[r] \in Awaiting /\ out[r] = None
       /\ pc' = [pc EXCEPT ![r] = "end"]
       /\ LeaveGenerator(r)
       /\ NoPut
    \/ /\ (pc[r] \in Awaiting /\ out[r] # None) \/ pc[r] = "yielded"
       /\ pc' = [pc EXCEPT ![r] = "end"]
       /\ out' = [out EXCEPT ![r] = None]
       /\ UNCHANGED <<queue, slot, active, lock>>
    \/ /\ pc[r] = "end" /\ out[r] # None
       /\ out' = [out EXCEPT ![r] = None]
       /\ UNCHANGED <<pc, queue, slot, active, lock>>
    \/ /\ pc[r] = "end" /\ out[r] = None
       /\ pc' = [pc EXCEPT ![r] = "done"]
       /\ UNCHANGED <<out, queue, slot, active, lock>>

\* The event loop closes a generator that nobody refers to.
Orphaned(r) == pc[r] \in {"end", "done"} /\ lock[TurnOf[r]] = r

CloseOrphan(r) ==
    /\ Orphaned(r)
    /\ LeaveGenerator(r)
    /\ NoPut
    /\ UNCHANGED <<pc, endpointVars, parser, parts, committed>>

---------------------------------------------------------------------------
(***************************************************************************)
(* event_stream and its client.                                            *)
(***************************************************************************)
Disconnect(r) ==
    /\ client[r] = "here" /\ consumer[r] # "closed"
    /\ client' = [client EXCEPT ![r] = "gone"]
    /\ UNCHANGED <<pc, out, queue, consumer, item, got, parser, parts, slot, active, lock, committed>>

\* The next item is taken, which makes room; the end marker ends the loop.
TakeItem(r) ==
    /\ consumer[r] = "reading" /\ item[r] = None /\ queue[r] # <<>>
    /\ queue' = [queue EXCEPT ![r] = Tail(@)]
    /\ IF Head(queue[r]) = "end"
       THEN consumer' = [consumer EXCEPT ![r] = "leaving"] /\ UNCHANGED item
       ELSE item' = [item EXCEPT ![r] = Head(queue[r])] /\ UNCHANGED consumer
    /\ UNCHANGED <<pc, out, client, got, parser, parts, slot, active, lock, committed>>

\* The item is sent; sending to a client that is gone may raise.
Deliver(r) ==
    /\ consumer[r] = "reading" /\ item[r] # None
    /\ item' = [item EXCEPT ![r] = None]
    /\ \/ /\ client[r] = "here"
          /\ got' = IF item[r] = "delta" THEN [got EXCEPT ![r].deltas = @ + 1]
                                         ELSE [got EXCEPT ![r].last = item[r]]
          /\ UNCHANGED consumer
       \/ /\ client[r] = "gone"
          /\ consumer' \in {consumer, [consumer EXCEPT ![r] = "leaving"]}
          /\ UNCHANGED got
    /\ UNCHANGED <<pc, out, queue, client, parser, parts, slot, active, lock, committed>>

\* is_disconnected() before the next item.
Notice(r) ==
    /\ consumer[r] = "reading" /\ item[r] = None /\ client[r] = "gone"
    /\ consumer' = [consumer EXCEPT ![r] = "leaving"]
    /\ UNCHANGED <<pc, out, queue, item, client, got, parser, parts, slot, active, lock, committed>>

\* The finally clause cancels a producer that is not done, and awaits it.
Cancel(r) ==
    /\ consumer[r] = "leaving" /\ pc[r] # "done"
    /\ Interrupt(r)
    /\ consumer' = [consumer EXCEPT ![r] = "stopping"]
    /\ UNCHANGED <<item, client, got, parser, parts, committed>>

\* The server cancels event_stream while it awaits the producer, which
\* cancels the producer once more.
CancelAgain(r) ==
    /\ consumer[r] = "stopping" /\ pc[r] # "done"
    /\ Interrupt(r)
    /\ UNCHANGED <<endpointVars, parser, parts, committed>>

CloseConsumer(r) ==
    /\ consumer[r] \in {"leaving", "stopping"} /\ pc[r] = "done"
    /\ consumer' = [consumer EXCEPT ![r] = "closed"]
    /\ UNCHANGED <<pc, out, queue, item, client, got, parser, parts, slot, active, lock, committed>>

---------------------------------------------------------------------------
Backend(r) ==
    \/ \E last \in BOOLEAN : ContentLine(r, last) \/ SilentLine(r, last)
    \/ DoneLine(r) \/ EndOfLines(r) \/ BreakLines(r)
    \/ \E n \in 0 .. 1 : Generated(r, n)
    \/ InferenceFails(r)

Produce(r) ==
    \/ Replay(r) \/ Ask(r) \/ Refuse(r) \/ Backend(r) \/ Commit(r) \/ Logged(r)
    \/ StorageFails(r) \/ Unblock(r) \/ Return(r) \/ PutEnd(r)

Consume(r) == TakeItem(r) \/ Deliver(r) \/ Notice(r) \/ Cancel(r) \/ CloseConsumer(r)

Next ==
    \E r \in Requests :
        \/ Start(r) \/ TakeLock(r) \/ Produce(r) \/ CloseOrphan(r)
        \/ Consume(r) \/ Disconnect(r) \/ CancelAgain(r)

\* Coroutines that can run do, the backend answers or times out, LockManager
\* serves its waiters in turn, and a client that is here reads what is sent.
Fairness ==
    \A r \in Requests :
        /\ SF_vars(TakeLock(r))
        /\ WF_vars(Produce(r)) /\ WF_vars(CloseOrphan(r)) /\ WF_vars(Consume(r))

Spec == Init /\ [][Next]_vars /\ Fairness

---------------------------------------------------------------------------
(***************************************************************************)
(* Properties.                                                             *)
(***************************************************************************)
\* The count of a user's inferences is the number of requests that hold a
\* slot, through errors, cancellations, orphaned generators and the second
\* acquisition after an empty stream, and never exceeds the limit.
SlotsBalanced ==
    /\ active = Cardinality({r \in Requests : slot[r]})
    /\ active <= MaxActive

\* Only an answer whose end was seen is stored: a stream that just stops, or
\* breaks after it showed text, never becomes a turn (base.InferenceBackend:
\* incomplete streams are failures).
CommittedIsWhole == \A t \in Turns : committed[t] # None => committed[t].whole

\* A client that was told "complete" was told of a stored turn and was shown
\* every part of it in order, or none when the turn is replayed.
CompleteIsCanonical ==
    \A r \in Requests : got[r].last = "complete" =>
        /\ committed[TurnOf[r]] # None
        /\ r \in Streams =>
            got[r].deltas \in {0, committed[TurnOf[r]].parts} /\ got[r].deltas = parts[r]

\* Whatever ends the requests, in the end no slot and no session's lock is
\* held, also when a generator was abandoned while its queue was full.
ResourcesReturned == <>[](active = 0 /\ \A t \in Turns : lock[t] = None)

\* Every client that stays learns how its request ended.
OutcomeReachesClient ==
    <>[](\A r \in Requests : pc[r] # "new" => got[r].last # None \/ client[r] = "gone")

\* The producer waits to put the end marker into a queue nobody reads: the
\* client left while the queue was full, and nothing cancels event_stream.
Stuck(r) ==
    consumer[r] = "stopping" /\ pc[r] = "end" /\ out[r] = None /\ ~Room(r)

\* event_stream ends once its request ended or its client left, but for that case.
StreamsEnd == <>[](\A r \in Streams : consumer[r] = "closed" \/ Stuck(r))

=============================================================================
