# Plexa session server: TLA+ models, checks and proofs

Plexa runs AI-assisted lessons: a student opens a session on a lesson of a
course, exchanges a limited number of turns with a model, answers reflection
prompts and turns the session in. The server (`src/plexa_server`, Python,
asyncio, PostgreSQL) is the authority on all of it; the portal
(`src/plexa_portal`, TypeScript) is its client. These modules specify the
server's own logic, model-check it with TLC and prove part of it with TLAPS.

Run from this directory: `tlc -workers 2 -config X.cfg M` and `tlapm M.tla`.
`PROJECT.json` lists every run, the source lines behind every definition, the
hazards the properties are for, and the mutants.

## 1. Inventory

| Component | State it keeps | Operations | Hard part |
|---|---|---|---|
| Session lifecycle (`core/sessions.py`, `models/`) | the session document: turns, activity, completion, reflection hooks, transcript availability | create, submit, close, complete, resume, reflect, postpone, turn in, delete | long sequences of legal calls: completing, resuming, postponing and expiring in any order |
| Session service (`core/sessions.py`, `storage/postgres.py`, `api/routes/sessions.py`) | the `sessions` row with an optimistic revision, `_ephemeral_transcripts`, the encrypted log, the lock | the same, as coroutines | every await is an interleaving point; cancellation, restart, partial failure, retries |
| Session locks (`utils/lock_manager.py`) | a registry of counted `asyncio.Lock`s | `lock(session_id)` | cancelled waiters, entries created and dropped, wake-ups |
| Message streaming and inference slots (`api/routes/sessions.py`, `core/sessions.py`, `inference/openai_compatible.py`) | an event queue and a producer task per request; active inferences per user | `send_message`, `stream_message`, acquire, release, the event-stream parser | cancellation with a full queue, abandoned generators, broken streams and the fallback |
| Authentication (`auth/`) | the cached key set and its time stamp, shared by threads | header or bearer identity, fetch, refresh, verify | races of fetching threads, rotated and revoked keys |
| Rate limits (`core/rate_limits.py`) | sliding windows per key | `check` | replayed event ids, pruning, eviction, rounding |
| Encrypted logs (`core/encrypted_logs.py`, `storage/postgres.py`) | one record per session, the keyring, access audits | persist, load, list, expire, delete, re-encrypt | rotation and expiry racing a writer; record and flag in different transactions |
| Retention job (`utils/cleanup_retention.py`) | none; a process of its own | `cleanup_once` | works on what it listed, takes no lock, may die between two transactions |
| Courses, enrolment, timeline (`api/routes/courses.py`, `api/routes/admin.py`, `models/course.py`, `storage/postgres.py`, `auth/dependencies.py`) | rosters, bindings, windows, flags, a revision | create, update, archive, enrol, approve, remove, instructors, bind, timeline, open a session | a course is read table by table and rewritten whole; the timeline is validated on every read |
| Lesson artifacts (`api/routes/courses.py`, `storage/postgres.py`, builder panel) | lesson rows with `artifact_revision` | load, save, snapshot into a session | document and revision are read in two transactions |
| Filesystem import (`storage/filesystem.py`, `utils/import_filesystem_to_postgres.py`) | a directory of files, the target database | the deprecated storage's operations; preflight, write, verify, reset | torn files, partial targets, constraints the preflight must know |
| Workspace state (`core/workspace.py`, `storage/postgres.py`) | last access per user, course, lesson | touch, list | concurrent first touch, lesson ids shared by courses |
| Portal chat (`plexa_portal/src/screens/ChatScreen.tsx`, `api/sessions.ts`) | drafts, pending message id | send, stream, fall back, retry | reconciling a stream that broke |

Interactions: a request is authenticated in a thread and passes the rate limits
(RequestGate); the route checks membership on a copy of the course (CourseStore)
and calls `SessionManager` (SessionService, MessageStream), which takes the
session's lock (LockManager), loads the row, works on the loaded document, saves
it under its revision, then writes the encrypted log (EncryptedLogs). Reads
(`get_session`, `list_sessions`) take no lock and may save too: they store the
closure of a disabled-logging session whose transcript a restart has lost. The
retention job and the key rotation reach the same tables from processes of their
own. The portal retries a submission under the same message id.

What makes each part correct: a session never exceeds its turn limit and work
turned in is complete and final (lifecycle); interleaved operations look atomic,
a message id consumes one turn, an answered turn is never lost (service); only
whole answers are stored, a client is shown what is stored, and locks, slots and
outcomes are given back whatever breaks (stream); one holder per session and
nobody waits for ever (locks); revoked keys fade, published ones are accepted,
the limiter counts exactly (gate); a retained log stays readable, an expired one
is not disclosed, and every access leaves an audit (logs); a change of a course
is atomic, authorised and never undone unseen, and what is stored loads again
(courses); an instructor's save replaces only what it was based on (artifacts);
what is reported as imported is whole (import).

## 2. Modules

    SessionRules          pure operators on a session document
      SessionLifecycle    one session, every operation atomic   (abstract spec)
        SessionLifecycleProofs
      SessionService      one session, one await per step       (implements it)
        MCSessionService, SessionServiceProofs
    MessageStream         streams and plain calls of one user
      MCMessageStream, MessageStreamProofs
    SessionMutex          one holder per session                (abstract spec)
      LockManager         registry of counted locks             (implements it)
        LockManagerProofs
    RequestGate           authentication and rate limits
      MCRequestGate
    EncryptedLogs         one log, one SQL statement per step
      EncryptedLogsProofs
    CourseRules           pure operators on a course document
      CourseLedger        one course, every change atomic       (abstract spec)
      CourseStore         one course, one SELECT per step       (implements it)
        MCCourseStore, CourseStoreProofs
    LessonArtifacts       one artifact, editors and students
      MCLessonArtifacts, LessonArtifactsProofs
    FilesystemStore       the files of the deprecated storage
      FilesystemImport    their import
        MCFilesystemImport, FilesystemImportProofs

**SessionRules.** A session document is a record; each handler of
`SessionManager` is a guard `Can...` (the exceptions it raises) and an operator
(what it assigns before `save_session`). Timestamps that are set exactly when a
flag is set are left out, as the module's header lists. A response is `none`,
`blank` or `text`, because the request schema admits an answer of blanks that
`_required_reflections_answered` does not count. A lesson is any that
`Lesson.validate_lesson` accepts for the given hooks and limits.

**SessionLifecycle.** Variables `session`, `cached` (the process holds the
transcript, which only `disabled` sessions depend on) and `deleted`. One action
per operation. `Hydrated` is what `_hydrate_ephemeral_transcript` makes of the
loaded document, so a restart is visible to the next operation as in the code.
A call that raises leaves what its `get_session` left, which is the action
`GetSession`.

**SessionService.** Each request is a coroutine with a program counter; a step
runs from one await to the next. `row` is the `sessions` row with its revision
and messages, `cache` the ephemeral transcript, `log` the encrypted log record,
`lock` the session's lock (whose own implementation is LockManager), `cleaner`
the retention job. The read of the row and the code that runs on it are separate
steps (`Read`, `Hydrate`, `Decide`), as are the commit of `save_session`, the
update of the ephemeral cache and the two steps of the log
(`SaveSession`, `CacheTranscript`, `CheckLog`, `SaveLog`). A message of the
transcript is its id; a turn appends the id of the user message, and its answer
goes with it, as both are stored in one transaction. `Cancel` stops a
submission anywhere (a dropped stream), `Restart` stops everything and loses
the memory, `InferenceFails` and `LogFails` raise. `deleted`, `commits` and
`acked` are history variables. The behaviour starts after `create_session`.

**MessageStream.** One user's requests, each to `stream_message` or to
`send_message`. `pc` is where the call into `SessionManager` is, `consumer`
where `event_stream` is, `queue` the bounded queue between them, `parser` what
the backend's event stream has shown. Putting into a queue with room and taking
a slot do not suspend, so they are part of the step around them; a full queue
suspends (`Put`, `Unblock`). A client may leave at any moment (`Disconnect`);
`Notice`, `Cancel` and `CancelAgain` are what the endpoint and the server do
then. A generator whose consumer was cancelled in `put` is abandoned and closed
by the event loop (`CloseOrphan`). The content of an answer is the number of its
non-empty parts; a turn is committed or not, which is all this module needs of
the document.

**RequestGate.** Threads verifying tokens share `_cached_jwks` and `_cached_at`,
which are assigned one after the other; the provider publishes and withdraws
keys at any tick. The limiter (`Window`, `Evicted`, `RetryAfter`) runs on the
event loop, so a check is one step; `admitted` is the history it is compared
with. Time is counted in ticks because both compare clock readings finer than
the seconds that token claims and `Retry-After` are given in.

**EncryptedLogs.** `save_encrypted_log`, `expire_encrypted_log` and
`reencrypt_log` select a record and update it at their commit, with nothing
locked in between, and update only the columns that differ from what was
selected; each is therefore two steps. The writer is the coroutine that holds
the session's lock; the retention job, the rotation and the readers hold none.
The web process keeps the keyring it started with (`web`) while the operator
changes the configured one (`config`): introduce a key, restart, rotate, drop.
A reader passes the 410 check, the metadata, the authorisation, the blob and the
audit in the transactions of the code.

**CourseRules, CourseLedger, CourseStore.** CourseRules has one operator per
route: who may call it, what it returns of a course, and `ValidTimeline`,
the validation of `models/course.py` that every read repeats. CourseLedger says what
the routes promise: every change happens at once, to the course as it is, by
someone who may make it then. CourseStore runs the same operators over the
transactions: the row and then one table after another, each from what is
committed at that moment; a later save that compares the revision under the
row's lock and rewrites rosters and bindings. ImplementsLedger says that the
comparison is enough although it covers only what the row held. It is not
obvious, because a copy that mixes two courses still carries one revision.

**LessonArtifacts.** `Update` is one step because the row is locked
(`FOR UPDATE`) from select to commit; when there is no row nothing is locked,
so `SelectNothing` and `Insert` are two. The response of a save may be lost.

**LockManager.** The registry, the reference counts and the queue of futures of
each `asyncio.Lock`. A task runs to its next await in one step. `asyncio.Lock`
is external: `FreeFor`, `Woken`, `PassedOn` and `Resume` are its documented
queue (release wakes the first waiter, which takes the lock when it runs; a
cancelled waiter passes a lost wake-up on).

**FilesystemStore, FilesystemImport.** The storage's operations, each a sequence
of file writes that a crash may cut; datasets of earlier releases (lesson
documents before course scopes, session documents before frozen configs) are
given by a constant. The import is the preflight (`AcceptSource`
and `AcceptTarget`) and then one transaction per record in the order of
the dependencies, then the comparison with the files. A crash leaves a partial
target, which the next preflight refuses until it is reset.

## 3. Runs

| Run | Question | Bounds |
|---|---|---|
| `lifecycle` | do the session rules hold in every order of calls, and can work always be turned in | 2 hooks, limits 1 to 3, default and disabled logging |
| `service_default` | is the interleaved service equivalent to atomic operations; retries, transcript and log | 2 requests, 2 message ids, 1 hook, limit 2, all faults |
| `service_delete` | does a deletion that ends leave anything behind, does every request end | as above, without retention and restart |
| `service_disabled` | is the model asked with the whole transcript when it is in memory only | restart, inference failure, retention |
| `service_retention_delete` (violation) | does a deleted session stay deleted | retention |
| `stream` | are only whole answers stored, and are slots, locks and outcomes delivered | 1 stream, 2 plain calls, 2 turns, queue of 1, 1 slot, answers of up to 2 parts |
| `gate` | do revoked keys fade and published ones verify; is the limiter exact | 2 threads, 2 keys, 3 tokens, 2 buckets, 6 clock readings, 5 limiter checks |
| `logs` | does a retained log stay readable, an expired one undisclosed, and does expiry reach it | 2 keys, 1 rotation, 1 turn, 1 instructor |
| `courses` | is every change of a course atomic and authorised, does what is stored load again | 2 requests of any route, 3 users, 1 lesson in 2 versions, 2 clock readings, 2 revisions |
| `locks` | mutual exclusion, exact counts, fairness of the lock registry | 4 tasks, 2 sessions, 2 entries |
| `artifacts` | optimistic concurrency of lesson saves | 2 editors, 1 student, 4 revisions |
| `import` | is what is reported as imported whole, does an accepted import verify | 3 storage operations on 5 datasets, 2 courses, 1 lesson in 2 versions, 1 session |

**Why the bounds are enough.** Two hooks give every pair of hook kinds, and no
rule relates three. With limit 3 a mid hook can be due before, at and after a
turn, and 1 is the boundary where a lesson admits no mid hook. Two requests are
enough for every race of two operations; the revision check and the lock compare
one request with one other. `MaxRevision` only stops new calls (other than
reads) from starting; requests in flight run to their end. In LockManager four
tasks leave a queue of three behind a holder, the least in which a cancelled
waiter in the middle matters. A third editor adds nothing: each save is compared
with one row.

A queue of one event is full after one `put`, which is the case that needs a
queue of 100 filled; the second plain call retries the stream's turn, the third
competes for the only slot. In RequestGate two buckets are the least in which
evicting one can hurt the other, and the clock passes each window and the
refresh interval. One turn more (created, committed once) is enough for a log:
a save never compares turns, and the record can hold an older or a newer blob.
`MaxRevision` in `courses` stops new requests, not those in flight, and the two
requests may each overtake the other. Three users are the roles a route
distinguishes; the third version of a course is reached from the second by the
same operators. In `import` three operations are a save that is cut, its repair
and one more; the datasets add what only earlier releases have written.

**Deadlock** is checked except in `stream` and `logs`. In the first every request
has ended, in the second the session is deleted and every job is done: nothing
is left to do.

**Fairness.** `service_delete`: coroutines on the event loop are scheduled and
every awaited call answers, fails or times out (weak fairness of each request's
steps), and the lock is given in arrival order, which `locks` checks
(strong fairness of `Acquire`). `stream`: the same, and a client that has not
left reads what it is sent; nothing makes a client leave, a backend succeed or a
cancellation happen. `logs`: strong fairness of the four steps of the retention
job only, which is started every day and does not die at the same statement for
ever; writers, rotation and readers have none. `locks`: the loop runs ready
tasks and critical sections end. `lifecycle`: the student keeps answering what
is open and turning in, and does eventually stop replacing answers by blanks.
The other runs check safety only and assume none.

**Assumptions of the environment.** `courses`: a client sends a revision it has
read, or none; no route deletes a lesson, so the missing-artifact error of
`save_course` is not reached; recency rows are left out; a timeline is a set of
windows, so one that lists a window twice is not considered. `import`: the storage
is at rest while the import runs, nobody else uses the target, which is at the
current schema, and the old server is not started again once its files are
imported; file names are injective and revisions left out. `logs`, `gate`:
encryption and signatures are perfect. `gate`: the key set comes from a URL
(`JwksUrl`), which production requires (`runtime.py:100`); with a file or a literal
alone the code does not look an unknown key id up again (`bearer_jwt.py:120`) and
`PublishedKeyAccepted` claims nothing. `service_*`: `Read` is one step, though
`_get_session_record` selects the row and then its messages under READ COMMITTED
(`storage/postgres.py:869`); a save based on a mixture is refused by the revision,
which comes with the row, and what a plain read shows of one is left out.

**Mutants.** Definitions named `Mutant...` are the code with one plausible
mistake (a dropped guard, an off-by-one, a lost reset). Replacing the definition
by its mutant breaks the property paired with it in `PROJECT.json`; no
specification uses them.

`TypeOK` of SessionLifecycle and LockManager is proved; in the other modules that
have one it documents the variables, and TLC accepts it on the runs' instances.

## 4. Where the code and its documents differ

**Checked.** *A deleted session comes back.* `save_session` inserts a missing row
whatever revision the caller holds. The retention job, which works on sessions
it listed earlier, recreates one deleted in between (`service_retention_delete`).
The same insert is reached by an unlocked read that saves the closure of a
disabled session after a restart.

**Observed while modelling.** The models contain these behaviours unless they say
otherwise; no run is spent on them.

*Sessions.* With disabled logging the committed message ids are only in memory,
written after the commit is awaited: a submission cancelled there consumes a
turn, and its retry another (against ADR-0006). For a disabled session still
cached, hydration resets `content_expired`, and the next save stores that
(against ADR-0003). A crash between the deletion of the row and of the log
leaves an orphan log (`core/sessions.py:456`). `create_session` holds no lock:
when its log cannot be written it deletes the row again, and a submission that
has read the row meanwhile, from a list, inserts it anew (not in the models). A
read that began before a deletion may fill the ephemeral cache after it.

*Reflections.* `begin_completion` asks at once for a mid reflection that is carried
to post, before its own turn does (`core/sessions.py:754`). While the student
postpones it no turn triggers it again, and `resume_after_completion` takes it
back: trigger, postponement and response (`core/sessions.py:759`). The next turn
is then accepted past a reflection that is due, unanswered and not postponed,
and asks for it again. With limit 3 and trigger turn 1: complete, postpone, turn
1, resume, turn 2. No document says whether this is meant.
`DueReflectionGatesTurn` allows it in this case and no other. Answers given to
completion's reflections are dropped by resume by design.

*Streaming.* A client that leaves while the queue is full and is not followed by a
cancellation of `event_stream` leaves its producer waiting to put the end marker
into a queue nobody reads; lock and slot are already given back (`Stuck`, which
`StreamsEnd` leaves out).

*Artifacts.* `get_lesson_artifact` and the create-session route read document and
revision in two transactions (`api/routes/courses.py:564`,
`api/routes/sessions.py:181`; ADR-0002). An editor may hold an old document with
a new revision, and its save overwrites newer work; a session may record the
revision of another document. `CoherentSaveKeepsNewerWork` says what holds
nevertheless. A first save without a token whose existence check came before
another editor's first save overwrites that one without a conflict: the check for
a token is another transaction (`api/routes/courses.py:526`,
`storage/postgres.py:318`). `Update` in the model does the same.

*Logs.* `save_encrypted_log` checks `content_available` without a row lock, so a
save may put a blob back behind the cleared flag until the next daily job; blob,
key id and turn may come from two writers; a rotation may overwrite a newer log
until the next save, and inserts the log of a session deleted since it listed.
`DisclosureSound` and `ExpiryReachesLog` say what holds nevertheless.

*Courses.* A second creation of a course id finds revision 0, which its payload's
default matches, and replaces the first, so both creators are told of success
(`api/routes/admin.py:95`); CourseLedger allows this replacement and no other. A
copy that mixes two courses may not validate and answer 500 though nothing is
wrong with what is stored (`FailureHasCause` says it happens only to requests
that were overtaken).

*Workspace.* Two first requests of a user insert the same recency row, and
`touch_lesson` selects without the course (`storage/postgres.py:1185`), so two
courses that own the lesson id make it raise; the request fails with 500 after
its effect.

*Import.* A session whose config is only in a file of its own gets its
`updated_at` stamped by the later write of the config (`db/models.py:211`), and
the import reports failure after writing everything; `PreflightSuffices` leaves
such sessions out. Lessons copied to a second scope, unbound drafts and versions
no course is bound to any more make the preflight refuse.

## 5. Proofs

All proofs are checked by TLAPS for every value of the constants under the
assumptions in the modules.

**SessionLifecycleProofs** (`TurnLimitsAssumption`: limits are positive;
`PoliciesAssumption`). The checked invariants are not inductive by themselves.
`IInv` adds: each hook keeps the shape `validate_lesson` gave it; a hook that is
due has been triggered, unless it is carried to post; a
completion-triggered source occurs exactly during completion; a finalized session
has answered everything that was triggered; `FinalizedKept` records that it
is not deleted. One lemma per handler shows that it preserves `Good(session)`,
and `HydratedGood` that loading does. From it: `TypeCorrect`, `TurnBudgetHolds`,
`CompletionHooksHold`, `TurnInCompleteHolds`, `ActiveIsReadableHolds` and the
action properties `TurnedInStaysFrozen` and `DueReflectionGates`. The last has
three parts. `TurnGated`: `OnlySubmitCounts` shows that no other operation
consumes a turn, and the invariant that a due hook is triggered or carried.
`TurnTriggersDue`: `CommitTriggers`, by the turn or, at the last one, by
completion. `OnlyResumeWithdraws`: `TriggersKept` for every other step and
`ResumeWithdraws`. Together they say that a carried hook which a resume took back
lets one turn pass, after which `mid_turn` keeps it triggered.

**LessonArtifactsProofs.** `IInv` adds that a student between its two reads
holds a document that was saved. From it: `RevisionNamesDocumentHolds`,
`SnapshotWasSavedHolds` and the action property `CoherentSaveHolds`: optimistic
concurrency is right for every editor whose document and token belong together,
so the lost update of section 4 can only come from the incoherent read.

**LockManagerProofs** (`NoneAssumption`, `NobodyAssumption`,
`TasksAssumption`: finitely many tasks). Mutual exclusion is not inductive,
because a woken waiter takes the lock without looking. `IInv` has two halves.
The table: every task's entry is the registered one, no two sessions share an
entry, a count is the number of tasks on the entry and no registered entry is
unused. The queues: a queue holds waiting tasks once each, a holder's lock is
taken and has one holder, and a woken waiter is at the head of a free lock; a
newcomer takes a free lock only past cancelled waiters, so it cannot pass the
woken one. `RemoveFromQueue` is the lemma about leaving a queue in the middle.
From it: `TypeCorrect`, `MutualExclusionHolds`, `RegistryExactHolds`, and
`ImplementsMutexHolds`: entering a free entry and resuming map to `Acquire`,
leaving to `Release`, everything else to a stuttering step of SessionMutex.
`FirstComeFirstServedHolds` needs one more invariant: a waiter whose future is
cancelled is doomed to leave (`CancelledIsDoomed`).

**SessionServiceProofs** (`NamesAssumption`: a request is not the lock's
`Nobody`, an id is not the mark of an empty cache; the assumptions of
SessionRules). Two facts make a service that loses control at every await behave
like atomic operations. Whoever holds the lock is the only one to consume turns.
And what a coroutine has loaded is the stored document, hydrated, for as long as
its revision is the stored one; a save with another revision is refused, except
when the row is gone. `IInv` says what each program counter knows of the row and
the cache (`Bounds`, `Hydrating`, `Restarting`, `Deciding`), what the retention
job knows of the session it listed (`Listed`), and what only deletion can do
(`Storage`): `ServiceConsistent`. `TInv` adds the turns: a message in any copy of
the transcript has consumed one; the stored transcript has all of them, and so
has the one in memory, or else the coroutine that is about to put it there
(`Remembered`): `TranscriptsConsistent`. From it `SubmittedOnce`,
`PersistedOnce`, `TranscriptIsWhole`, `AnswersAreKept` and `ContextIsWhole`; with
`LInv` for the log, `AnswersAreLogged`; with `DInv` for a deletion on its way,
`DeletionLasts` and `DeletionIsComplete`.

`ServiceRefinesLifecycle` is the step simulation: the stored document is the
session, and `cached` means that a cache exists and the session is not deleted. A
save is the operation it saves (`Submit`, `Answer`, `TurnIn`, ... of
SessionLifecycle), the deletion of the row is `Delete`, the retention job's save
is `Expire`, a restart of the process is `Restart`. A hydration that starts the
cache of an empty session, or the save of a closure that hydration found, is
`GetSession`. Everything else stutters: reads, conflicts, cancellations, the log,
and the update of the cache after a commit, which finds a cache that exists.

These theorems have hypotheses, because the code does not keep the properties
without them (section 4), and each is met by the runs that check the property:

* `NoRevival`: sessions are not deleted, or transcripts are always stored. A
  reader whose hydration closes a `disabled` session saves it, and inserts the row
  again when the session was deleted in between.
* `NoLoss`: transcripts are always stored, or submissions are not cancelled. A
  `disabled` turn cancelled between the commit and the cache is in no transcript,
  and a retry consumes another; the turns that are stored (`PersistedOnce`) need
  no such hypothesis.
* `Lasting`: no deletions, or no retention job and no `disabled` sessions, the
  two that can bring a row back (run `service_retention_delete`).
* `Complete`: for `DeletionIsComplete` no failing log write and no restart
  either, which may come between the deletion of the row and that of the log.

**MessageStreamProofs** (`StreamAssumption`: finitely many requests, at least one
slot and one place in the queue; `NoneAssumption`: no event and no answer is
`None`). No property is inductive. `IInv` adds to
the types that a request which has not asked the backend yet holds no slot, so
none is counted twice; that a response marked as ended has a finish reason or
its end marker; and that a request stores an answer, or shows the one of its
fallback, only after it has seen its end. `SlotReleased` is the lemma that
giving back a slot lowers the count by one and never below zero. From it:
`StreamInvariance`, `SlotsBalancedHolds` and `CommittedIsWholeHolds`.

What a client is shown, `CompleteIsCanonicalHolds`, needs to know where every part
of the answer is. `ShowInv` adds `Locks`: from its lock to its end a request is
alone with its turn, and nothing is stored for the turn before it stores;
`Stages`: which events may be on their way at each program counter, no event that
ends the request before the request has ended; and `Flow`: while `event_stream`
reads for a client that is there, `Ahead`, the deltas come first in the queue, and
those received, in `event_stream`'s hand, in the queue and with the producer add
up to `content_parts`. There is one lemma for each way an event moves
(`DeltaShows`, `OutcomeShows`, `UnblockShows`, `TakeItemShows`, `DeliverShows`,
`StoppedShows`) and `QuietShows` for the steps that move none.

**EncryptedLogsProofs** (`LogAssumption`; `NoneAssumption`: no record and no blob
is `None`). `Selected`: saves and rotations write only over what they selected
available, so neither undoes an expiry, and an update of columns that leaves
`content_available` alone keeps what another transaction made of it
(`SavedRecord`). `Rotation`: when a run that began after the restart of the web
process ends, every available blob is under the active key (`Fresh`), and from
then on saves are as well, so that dropping the others loses nothing.
`Disclosure`: whoever asks after the expiry waits for the 410. From it:
`StaysReadableHolds` and `DisclosureSoundHolds`.

**FilesystemImportProofs** (`RowAssumption`: no row, document or metadata is
`None`). The invariant describes the target at every moment: it holds what the
phases so far have written and the current one has not left over (`Left`,
`Written`), so an interrupted import is as precisely known as a finished one. For
`PreflightSuffices` each phase's constraint is derived from what the preflight
accepted and the phases before it have written (a binding's course and lesson, a
session's course and artifact, an audit's log); a session's config stamps its
`updated_at` unless the document has it (`NoLateConfigs`). From it:
`ImportInvariance`, `ImportedIsWholeHolds` and `PreflightSufficesHolds`, for any
files, whatever storage operations and crashes have left.

**CourseStoreProofs** (`CourseAssumption`, `TimelineAssumption`,
`OperationAssumption`, and `StoredAssumption`: the database starts with a course
that these handlers could have saved). Nothing a request does before its save
holds the course still, so the invariant is about what it knows: `Reads`, its
copy carries the revision of the row it has read first; if that is the stored
revision, or nobody has committed since, every table it has read is the stored
one, and otherwise the copy is older. `Edits` says the same of the document an
administrator sends back, `Decides` of what a request is about to save: while
its revision is the stored one it is what its operation makes of the course as
stored. `CommittedKeeps` shows that a commit leaves everybody else older,
`SavesGood` that every handler saves a course that loads again. From it:
`StoredCourseLoadsHolds`, `FailureHasCauseHolds`, `RemovedStaysOutHolds`, and
`ImplementsLedgerHolds`: an insert maps to `Create`, an update to `Change` or,
of a course nobody has touched, to `Create`, everything else to a stuttering
step of CourseLedger.

Only model-checked: everything of RequestGate, whose limiter is compared with a
history of unbounded length; and every liveness property
(`ExhaustedLeadsToTurnIn`, `RequestsEnd`, `ResourcesReturned`,
`OutcomeReachesClient`, `StreamsEnd`, `ExpiryReachesLog`, `WaitersServed`), which
the prover cannot treat.

## 6. Not modelled

`touch_course` and `touch_lesson` with the sidebar's order (what can go wrong
there does, section 4, and nothing depends on them); the portal's chat screen,
whose protocol the server's properties bound from the other side; the in-memory
storage, a test double; `create_session`, after which SessionService begins and
whose failure path no property could cover (section 4); session titles; payload
building and routing of the backends, which keep no state; the alembic
migrations, bootstrap, deploy and maintenance scripts, portal layout,
documentation tooling and seed data: generated code, I/O or layout.
`PROJECT.json` gives the reason per component.

## 7. Plan

In order of what matters most:

1. Proofs: `RevokedKeyFades` and `PublishedKeyAccepted` of RequestGate, which do
   not depend on the limiter's history.
2. The safety half of `ExpiryReachesLog`: what the log may hold while the
   retention job is between its steps.
3. *StreamClient*: the portal's stream, fallback and retry over MessageStream.
4. Workspace recency, should its first-touch races be repaired.
