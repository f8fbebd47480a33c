-------------------------- MODULE SessionService --------------------------
(***************************************************************************)
(* One session served by the web process: requests run as coroutines that  *)
(* can lose control at every await, so each await point is a step.  The    *)
(* row lives in PostgreSQL with an optimistic revision, the transcript of  *)
(* a "disabled" session only in process memory, the encrypted log in a     *)
(* table of its own.  Mutators hold the session's lock; reads (get_session *)
(* and list_sessions) and the retention job, a separate process, do not.   *)
(*                                                                         *)
(* The behaviour begins after create_session has returned.                 *)
(***************************************************************************)
EXTENDS SessionRules, Sequences, SequencesExt, FiniteSets

CONSTANTS
    Requests,       \* request coroutines; each serves one call after another
    MessageIds,     \* client message ids
    OperationNames, \* the calls this instance considers
    Faults,         \* what may go wrong: see AllFaults
    MaxRevision     \* bound: at this revision only reads start

AllFaults == {"cancel", "restart", "inference", "log", "retention"}

ASSUME FaultsAssumption == Faults \subseteq AllFaults
ASSUME MaxRevisionAssumption == MaxRevision \in Nat

VARIABLES
    row,        \* the sessions row: present, revision, doc, messages
    cache,      \* _ephemeral_transcripts entry of the session
    log,        \* encrypted log record: present, available, turns, finalized
    lock,       \* the request that holds the session's lock
    req,        \* the coroutines
    cleaner,    \* the retention job
    deleted,    \* history: delete_session removed the row
    commits,    \* history: turns consumed per message id
    acked       \* history: message ids whose submission returned

vars == <<row, cache, log, lock, req, cleaner, deleted, commits, acked>>
histories == <<deleted, commits, acked>>

NoCache  == <<"no cache">>
NoLog    == [present |-> FALSE, available |-> TRUE, turns |-> 0, finalized |-> FALSE]
Nobody   == "nobody"

ASSUME NamesAssumption == "no cache" \notin MessageIds /\ Nobody \notin Requests

Operations ==
    {op \in [name : {"read", "close", "complete", "resume", "turn_in", "delete"}]
            \cup [name : {"submit"}, message : MessageIds]
            \cup [name : {"reflect"}, hook : Hooks, response : {"blank", "text"}]
            \cup [name : {"postpone"}, hook : Hooks]
        : op.name \in OperationNames}

Idle == [pc |-> "idle"]

\* A loaded document: what _session_from_record returns, then hydrated.
Loading(op) == [pc |-> IF op.name = "read" THEN "read" ELSE "wait", op |-> op]

Init ==
    /\ \E lesson \in Lessons :
        row = [present |-> TRUE, revision |-> 0, doc |-> NewSession(lesson), messages |-> <<>>]
    /\ cache = IF Ephemeral(row.doc) THEN <<>> ELSE NoCache
    /\ log = [NoLog EXCEPT !.present = ~Ephemeral(row.doc)]
    /\ lock = Nobody
    /\ req = [q \in Requests |-> Idle]
    /\ cleaner = Idle
    /\ deleted = FALSE
    /\ commits = [m \in MessageIds |-> 0]
    /\ acked = {}

---------------------------------------------------------------------------
(***************************************************************************)
(* Storage.                                                                *)
(***************************************************************************)

\* Mutant: the revision is not compared.
MutantSaves(p) == TRUE

\* save_session succeeds on a matching revision, and inserts a missing row.
Saves(p) == ~row.present \/ row.revision = p.revision

\* Mutant: closing a session drops its transcript as if it were ephemeral.
MutantStored(p, doc, messages) ==
    [present |-> TRUE,
     revision |-> IF row.present THEN row.revision + 1 ELSE 0,
     doc |-> doc,
     messages |-> IF Ephemeral(doc) \/ ~doc.is_active THEN <<>> ELSE messages]

Stored(p, doc, messages) ==
    [present |-> TRUE,
     revision |-> IF row.present THEN row.revision + 1 ELSE 0,
     doc |-> doc,
     messages |-> IF Ephemeral(doc) THEN <<>> ELSE messages]

\* save_encrypted_log keeps an expired record as it is.
Logged(doc) ==
    IF log.present /\ ~log.available THEN log
    ELSE [present |-> TRUE, available |-> TRUE,
          turns |-> doc.turn_count, finalized |-> doc.is_finalized]

---------------------------------------------------------------------------
(***************************************************************************)
(* Requests.                                                               *)
(***************************************************************************)
Goto(q, pc) == req' = [req EXCEPT ![q].pc = pc]

\* Mutant: the lock is left behind.
MutantFinish(q) == req' = [req EXCEPT ![q] = Idle] /\ UNCHANGED lock

\* The coroutine ends, with or without an exception, and leaves the lock.
Finish(q) ==
    /\ req' = [req EXCEPT ![q] = Idle]
    /\ lock' = IF lock = q THEN Nobody ELSE lock

Start(q) ==
    /\ req[q].pc = "idle"
    /\ \E op \in Operations :
        /\ op.name = "read" \/ row.revision < MaxRevision
        /\ req' = [req EXCEPT ![q] = Loading(op)]
    /\ UNCHANGED <<row, cache, log, lock, cleaner, histories>>

Acquire(q) ==
    /\ req[q].pc = "wait"
    /\ lock = Nobody
    /\ lock' = q
    /\ Goto(q, "read")
    /\ UNCHANGED <<row, cache, log, cleaner, histories>>

\* The database answers the read; the coroutine has not resumed yet.  The
\* code selects the row and then, under READ COMMITTED, the messages: one
\* step here, because the revision comes with the row, so that a save of
\* what mixes two states is refused like one of an older state.
Read(q) ==
    /\ req[q].pc = "read"
    /\ row.present
    /\ req' = [req EXCEPT ![q] =
                [pc |-> "hydrate", op |-> @.op, doc |-> row.doc,
                 messages |-> row.messages, revision |-> row.revision]]
    /\ UNCHANGED <<row, cache, log, lock, cleaner, histories>>

ReadMissing(q) ==
    /\ req[q].pc \in {"read", "reread"}
    /\ ~row.present
    /\ Finish(q)
    /\ UNCHANGED <<row, cache, log, cleaner, histories>>

\* _hydrate_ephemeral_transcript, in one go with the check that follows it.
Hydrate(q) ==
    LET r == req[q] IN
    /\ r.pc = "hydrate"
    /\ cache' = IF cache = NoCache /\ CachedAfterHydrate(r.doc, FALSE) THEN <<>> ELSE cache
    /\ req' = [req EXCEPT
        ![q].doc = Hydrated(r.doc, cache # NoCache),
        ![q].messages = IF ~Ephemeral(r.doc) THEN @
                        ELSE IF cache # NoCache THEN cache ELSE <<>>,
        ![q].pc = IF Interrupted(r.doc, cache # NoCache) THEN "save_restart" ELSE "decide"]
    /\ UNCHANGED <<row, log, lock, cleaner, histories>>

\* get_session and list_sessions store the closure of a session whose
\* transcript a restart has lost.
SaveRestart(q) ==
    LET r == req[q] IN
    /\ r.pc = "save_restart"
    /\ IF Saves(r)
       THEN /\ row' = Stored(r, r.doc, r.messages)
            /\ req' = [req EXCEPT ![q].pc = "decide", ![q].revision = row'.revision]
       ELSE Goto(q, "reread") /\ UNCHANGED row
    /\ UNCHANGED <<cache, log, lock, cleaner, histories>>

\* After a conflict the stored document is taken as it is, not hydrated.
Reread(q) ==
    /\ req[q].pc = "reread"
    /\ row.present
    /\ req' = [req EXCEPT ![q].doc = row.doc, ![q].messages = row.messages,
                          ![q].revision = row.revision, ![q].pc = "decide"]
    /\ UNCHANGED <<row, cache, log, lock, cleaner, histories>>

\* Mutant: a retry is not recognised.
MutantCommitted(r) == FALSE

Committed(r) == r.op.name = "submit" /\ Contains(r.messages, r.op.message)

\* Mutant: a submission to a closed session counts as done, as close does.
MutantAlreadyDone(r) ==
    \/ Committed(r)
    \/ r.op.name \in {"submit", "close"} /\ ~r.doc.is_active
    \/ r.op.name = "turn_in" /\ r.doc.is_finalized

\* A call that finds its work done only repairs the log.
AlreadyDone(r) ==
    \/ Committed(r)
    \/ r.op.name = "close" /\ ~r.doc.is_active
    \/ r.op.name = "turn_in" /\ r.doc.is_finalized

Allowed(op, doc) ==
    \/ op.name = "submit" /\ CanSubmit(doc)
    \/ op.name = "close"
    \/ op.name = "complete" /\ CanBeginCompletion(doc)
    \/ op.name = "resume" /\ CanResume(doc)
    \/ op.name = "reflect" /\ CanSaveReflection(doc, op.hook)
    \/ op.name = "postpone" /\ CanPostpone(doc, op.hook)
    \/ op.name = "turn_in" /\ CanTurnIn(doc)
    \/ op.name = "delete" /\ CanDelete(doc)

Effect(op, doc) ==
    CASE op.name = "submit"   -> CommitUserTurn(doc)
      [] op.name = "close"    -> CloseSession(doc)
      [] op.name = "complete" -> BeginCompletion(doc)
      [] op.name = "resume"   -> ResumeAfterCompletion(doc)
      [] op.name = "reflect"  -> SaveReflection(doc, op.hook, op.response)
      [] op.name = "postpone" -> PostponeReflection(doc, op.hook)
      [] op.name = "turn_in"  -> TurnInSession(doc)

Decide(q) ==
    LET r == req[q] IN
    /\ r.pc = "decide"
    /\ IF AlreadyDone(r) THEN Goto(q, "log") /\ UNCHANGED lock
       ELSE IF ~Allowed(r.op, r.doc) THEN Finish(q)     \* includes "read"
       ELSE /\ Goto(q, CASE r.op.name = "submit" -> "infer"
                         [] r.op.name = "delete" -> "delete"
                         [] OTHER -> "save")
            /\ UNCHANGED lock
    /\ UNCHANGED <<row, cache, log, cleaner, histories>>

InferenceAnswers(q) ==
    /\ req[q].pc = "infer"
    /\ Goto(q, "save")
    /\ UNCHANGED <<row, cache, log, lock, cleaner, histories>>

InferenceFails(q) ==
    /\ "inference" \in Faults
    /\ req[q].pc = "infer"
    /\ Finish(q)
    /\ UNCHANGED <<row, cache, log, cleaner, histories>>

\* The transaction of save_session commits.
SaveSession(q) ==
    LET r == req[q]
        turn == r.op.name = "submit"
        messages == IF turn THEN Append(r.messages, r.op.message) ELSE r.messages
        doc == Effect(r.op, r.doc)
    IN
    /\ r.pc = "save"
    /\ Saves(r)
    /\ row' = Stored(r, doc, messages)
    /\ req' = [req EXCEPT ![q].doc = doc, ![q].messages = messages,
                          ![q].revision = row'.revision,
                          ![q].pc = IF turn /\ Ephemeral(doc) THEN "cache" ELSE "log"]
    /\ commits' = IF turn THEN [commits EXCEPT ![r.op.message] = @ + 1] ELSE commits
    /\ UNCHANGED <<cache, log, lock, cleaner, deleted, acked>>

SaveConflict(q) ==
    /\ req[q].pc = "save"
    /\ ~Saves(req[q])
    /\ Finish(q)
    /\ UNCHANGED <<row, cache, log, cleaner, histories>>

\* Mutant: the transcript in memory is not renewed.
MutantCacheTranscript(q) ==
    /\ req[q].pc = "cache"
    /\ Goto(q, "log")
    /\ UNCHANGED <<row, cache, log, lock, cleaner, histories>>

\* The coroutine resumes after the commit and keeps the transcript.
CacheTranscript(q) ==
    /\ req[q].pc = "cache"
    /\ cache' = req[q].messages
    /\ Goto(q, "log")
    /\ UNCHANGED <<row, log, lock, cleaner, histories>>

\* persist_session_log: a disabled session keeps no log, an expired log
\* stays expired, anything else is replaced by the snapshot.
CheckLog(q) ==
    LET doc == req[q].doc IN
    /\ req[q].pc = "log"
    /\ IF Ephemeral(doc) \/ (log.present /\ ~log.available)
       THEN Goto(q, "done") ELSE Goto(q, "save_log")
    /\ log' = IF Ephemeral(doc) THEN NoLog ELSE log
    /\ UNCHANGED <<row, cache, lock, cleaner, histories>>

SaveLog(q) ==
    /\ req[q].pc = "save_log"
    /\ log' = Logged(req[q].doc)
    /\ Goto(q, "done")
    /\ UNCHANGED <<row, cache, lock, cleaner, histories>>

\* Mutant: a failed log write is swallowed.
MutantLogFails(q) ==
    /\ req[q].pc \in {"log", "save_log"}
    /\ Goto(q, "done")
    /\ UNCHANGED <<row, cache, log, lock, cleaner, histories>>

LogFails(q) ==
    /\ "log" \in Faults
    /\ req[q].pc \in {"log", "save_log", "delete_log"}
    /\ Finish(q)
    /\ UNCHANGED <<row, cache, log, cleaner, histories>>

Respond(q) ==
    LET op == req[q].op IN
    /\ req[q].pc = "done"
    /\ acked' = IF op.name = "submit" THEN acked \cup {op.message} ELSE acked
    /\ Finish(q)
    /\ UNCHANGED <<row, cache, log, cleaner, deleted, commits>>

DeleteRow(q) ==
    /\ req[q].pc = "delete"
    /\ row' = [row EXCEPT !.present = FALSE]
    /\ deleted' = TRUE
    /\ Goto(q, "delete_cache")
    /\ UNCHANGED <<cache, log, lock, cleaner, commits, acked>>

DeleteCache(q) ==
    /\ req[q].pc = "delete_cache"
    /\ cache' = NoCache
    /\ Goto(q, "delete_log")
    /\ UNCHANGED <<row, log, lock, cleaner, histories>>

\* Mutant: the log of a deleted session is left.
MutantDeleteLog(q) ==
    /\ req[q].pc = "delete_log"
    /\ Goto(q, "done")
    /\ UNCHANGED <<row, cache, log, lock, cleaner, histories>>

DeleteLog(q) ==
    /\ req[q].pc = "delete_log"
    /\ log' = NoLog
    /\ Goto(q, "done")
    /\ UNCHANGED <<row, cache, lock, cleaner, histories>>

\* A dropped connection cancels a streamed submission at whatever await it
\* has reached; what it has committed stays.
Cancel(q) ==
    /\ "cancel" \in Faults
    /\ req[q].pc # "idle"
    /\ req[q].op.name = "submit"
    /\ Finish(q)
    /\ UNCHANGED <<row, cache, log, cleaner, histories>>

RequestStep(q) ==
    \/ Acquire(q) \/ Read(q) \/ ReadMissing(q) \/ Hydrate(q)
    \/ SaveRestart(q) \/ Reread(q) \/ Decide(q)
    \/ InferenceAnswers(q) \/ InferenceFails(q)
    \/ SaveSession(q) \/ SaveConflict(q) \/ CacheTranscript(q)
    \/ CheckLog(q) \/ SaveLog(q) \/ LogFails(q) \/ Respond(q)
    \/ DeleteRow(q) \/ DeleteCache(q) \/ DeleteLog(q)

\* The web process restarts: every coroutine and all its memory is gone.
Restart ==
    /\ "restart" \in Faults
    /\ req' = [q \in Requests |-> Idle]
    /\ lock' = Nobody
    /\ cache' = NoCache
    /\ UNCHANGED <<row, log, cleaner, histories>>

---------------------------------------------------------------------------
(***************************************************************************)
(* The retention job: cleanup_once for this session.                       *)
(***************************************************************************)
CleanerIdle == cleaner.pc = "idle"

CleanerList ==
    /\ "retention" \in Faults
    /\ CleanerIdle
    /\ row.present /\ CanExpire(row.doc)
    /\ \E expired \in {row.doc.transcript_unavailable_reason = "content_expired"} :
        /\ expired \/ row.revision < MaxRevision
        /\ cleaner' = [pc |-> IF expired THEN "expire_log" ELSE "save",
                       doc |-> row.doc, revision |-> row.revision]
    /\ UNCHANGED <<row, cache, log, lock, req, histories>>

CleanerSave ==
    /\ cleaner.pc = "save"
    /\ IF Saves(cleaner)
       THEN /\ row' = Stored(cleaner, ExpireContent(cleaner.doc), <<>>)
            /\ cleaner' = [cleaner EXCEPT !.pc = "expire_log"]
       ELSE cleaner' = Idle /\ UNCHANGED row
    /\ UNCHANGED <<cache, log, lock, req, histories>>

CleanerExpireLog ==
    /\ cleaner.pc = "expire_log"
    /\ log' = [log EXCEPT !.available = ~log.present /\ @]
    /\ cleaner' = Idle
    /\ UNCHANGED <<row, cache, lock, req, histories>>

\* The job dies between two awaits and is started again later.
CleanerCrash ==
    /\ ~CleanerIdle
    /\ cleaner' = Idle
    /\ UNCHANGED <<row, cache, log, lock, req, histories>>

CleanerStep == CleanerList \/ CleanerSave \/ CleanerExpireLog

Next ==
    \/ \E q \in Requests : Start(q) \/ RequestStep(q) \/ Cancel(q)
    \/ Restart
    \/ CleanerStep
    \/ CleanerCrash

Spec == Init /\ [][Next]_vars

\* Coroutines are scheduled, the backend answers or times out, and the lock
\* is handed to waiters in order (LockManager).
FairRequests ==
    \A q \in Requests :
        /\ WF_vars(RequestStep(q))
        /\ SF_vars(Acquire(q))

\* The retention job is started again after a crash and does not die at the
\* same place for ever.
FairCleaner ==
    /\ SF_vars(CleanerList)
    /\ SF_vars(CleanerSave)
    /\ SF_vars(CleanerExpireLog)

FairSpec == Spec /\ FairRequests /\ FairCleaner

---------------------------------------------------------------------------
(***************************************************************************)
(* Properties.                                                             *)
(***************************************************************************)
RowExpired == row.doc.transcript_unavailable_reason = "content_expired"
Retained   == row.present /\ ~Ephemeral(row.doc) /\ ~RowExpired

TypeOK ==
    /\ row.present \in BOOLEAN /\ row.revision \in Nat /\ row.doc \in Sessions
    /\ row.messages \in Seq(MessageIds)
    /\ cache \in Seq(MessageIds) \cup {NoCache}
    /\ log \in [present : BOOLEAN, available : BOOLEAN, turns : Nat, finalized : BOOLEAN]
    /\ lock \in Requests \cup {Nobody}
    /\ \A q \in Requests : req[q].pc # "idle" => req[q].op \in Operations

\* However a submission is retried, cancelled, cut by a restart or raced by
\* the retention job, its message id consumes at most one turn.
AtMostOncePerMessage == \A m \in MessageIds : commits[m] <= 1

\* A submission that was answered stays in the stored transcript until the
\* session is deleted or its content expires.
AckedIsKept == Retained => \A m \in acked : Contains(row.messages, m)

\* The stored transcript has exactly the turns the session has consumed.
TranscriptMatchesTurns == Retained => Len(row.messages) = row.doc.turn_count

\* What the model is asked to continue holds every turn consumed so far,
\* also when the transcript lives only in process memory.
ContextComplete ==
    \A q \in Requests :
        req[q].pc \in {"infer", "save"} /\ req[q].op.name = "submit" =>
            Len(req[q].messages) = req[q].doc.turn_count

\* Every answered submission has reached the instructor log, though a
\* request may fail between the commit and the log, and the log never shows
\* a turn that is not committed.
AckedIsLogged ==
    /\ Retained /\ log.available /\ acked # {} =>
           log.present /\ log.turns >= Cardinality(acked)
    /\ log.present => log.turns <= row.doc.turn_count

\* After delete_session and with every request done nothing is left behind.
DeletedLeavesNothing ==
    deleted /\ (\A q \in Requests : req[q].pc = "idle") =>
        ~row.present /\ ~log.present /\ cache = NoCache

\* A session that was deleted never comes back.
DeletedStaysDeleted == deleted => ~row.present

\* Every request ends and leaves the session's lock to the next.
RequestsEnd == \A q \in Requests : req[q].pc # "idle" ~> req[q].pc = "idle"

\* The interleaved service behaves like SessionLifecycle, which performs
\* every operation at once.
Lifecycle ==
    INSTANCE SessionLifecycle WITH
        session <- row.doc, cached <- ~deleted /\ cache # NoCache, deleted <- deleted

AtomicLifecycle == Lifecycle!Spec
============================================================================
