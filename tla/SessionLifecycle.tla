------------------------- MODULE SessionLifecycle -------------------------
(***************************************************************************)
(* What SessionManager promises of one lesson session: every operation     *)
(* takes effect at once, in some order.  Restarts of the server process    *)
(* and the retention job are steps of their own.  SessionService is shown  *)
(* to implement this module.                                               *)
(*                                                                         *)
(* An operation that raises leaves what its get_session call left, which   *)
(* is GetSession; requests that arrive after the deletion change nothing.  *)
(***************************************************************************)
EXTENDS SessionRules

VARIABLES
    session,    \* the stored session document
    cached,     \* does the process hold its transcript (disabled logging)
    deleted     \* has delete_session removed the document

vars == <<session, cached, deleted>>

TypeOK ==
    /\ session \in Sessions
    /\ cached \in BOOLEAN
    /\ deleted \in BOOLEAN

Init ==
    /\ \E lesson \in Lessons : session = NewSession(lesson)
    /\ cached = Ephemeral(session)
    /\ deleted = FALSE

---------------------------------------------------------------------------
\* The document an operation works on: stored, then hydrated by get_session.
Loaded == Hydrated(session, cached)

\* The operation saves s; loading may also have filled the cache.
Save(s) ==
    /\ ~deleted
    /\ session' = s
    /\ cached' = CachedAfterHydrate(session, cached)
    /\ UNCHANGED deleted

GetSession ==
    Save(IF Interrupted(session, cached) THEN Loaded ELSE session)

SubmitUserMessage ==
    /\ ~deleted
    /\ CanSubmit(Loaded)
    /\ session' = CommitUserTurn(Loaded)
    /\ cached' = Ephemeral(session)
    /\ UNCHANGED deleted

Close == Loaded.is_active /\ Save(CloseSession(Loaded))

Complete == CanBeginCompletion(Loaded) /\ Save(BeginCompletion(Loaded))

Resume == CanResume(Loaded) /\ Save(ResumeAfterCompletion(Loaded))

Reflect(h, r) == CanSaveReflection(Loaded, h) /\ Save(SaveReflection(Loaded, h, r))

Postpone(h) == CanPostpone(Loaded, h) /\ Save(PostponeReflection(Loaded, h))

TurnIn == CanTurnIn(Loaded) /\ Save(TurnInSession(Loaded))

Delete ==
    /\ ~deleted
    /\ CanDelete(Loaded)
    /\ deleted' = TRUE
    /\ cached' = FALSE
    /\ UNCHANGED session

\* The retention job works on the stored document, not the hydrated one.
Expire ==
    /\ ~deleted
    /\ CanExpire(session)
    /\ session' = ExpireContent(session)
    /\ UNCHANGED <<cached, deleted>>

Restart ==
    /\ cached' = FALSE
    /\ UNCHANGED <<session, deleted>>

Next ==
    \/ GetSession
    \/ SubmitUserMessage
    \/ Close
    \/ Complete
    \/ Resume
    \/ \E h \in Hooks, r \in {"blank", "text"} : Reflect(h, r)
    \/ \E h \in Hooks : Postpone(h)
    \/ TurnIn
    \/ Delete
    \/ Expire
    \/ Restart

Spec == Init /\ [][Next]_vars

\* A student who answers what is asked, stops overwriting answers with
\* blanks, and keeps trying to turn the work in.
PersistentStudent ==
    /\ \A h \in Hooks : WF_vars(Reflect(h, "text") /\ ~Answered(session.hooks[h]))
    /\ WF_vars(TurnIn)
    /\ <>[][\A h \in Hooks : ~Reflect(h, "blank")]_vars

FairSpec == Spec /\ PersistentStudent

---------------------------------------------------------------------------
(***************************************************************************)
(* Properties.                                                             *)
(***************************************************************************)
Expired == session.transcript_unavailable_reason = "content_expired"

\* A session never consumes more turns than its lesson allows, and the one
\* that consumes the last turn is closed and in completion from then on: no
\* later operation reopens it (_commit_user_turn, resume_after_completion).
TurnBudget ==
    /\ session.turn_count <= session.max_turns
    /\ session.turn_count = session.max_turns =>
            ~session.is_active /\ session.is_completion_started

\* What a student owes by the lesson: post reflections, reflections carried
\* to post, and every mid reflection whose turn has been reached.
Owed(hook) ==
    \/ hook.phase = "post"
    \/ hook.carry_to_post
    \/ hook.trigger_turn <= session.turn_count

\* Work that is turned in answers every reflection the lesson asked for,
\* whatever was postponed, resumed or re-triggered on the way; only the
\* retention job removes those answers (turn_in_session).
TurnInComplete ==
    session.is_finalized /\ ~Expired =>
        \A h \in Hooks : Owed(session.hooks[h]) => Answered(session.hooks[h])

\* Completion-triggered reflections are visible exactly during completion:
\* none survives a resume, none is missing once completion has begun.
CompletionHooks ==
    \A h \in Hooks :
        LET hook == session.hooks[h] IN
        IF session.is_completion_started
        THEN hook.phase = "post" \/ hook.carry_to_post => Triggered(hook)
        ELSE hook.trigger_source \notin CompletionSources

\* A session that still accepts turns has its content: the retention job
\* never expires a session a student can continue.
ActiveIsReadable == session.is_active => ~Expired

\* The document without what the retention job blanks.
Submission(s) ==
    [turns |-> s.turn_count, active |-> s.is_active,
     completion |-> s.is_completion_started, finalized |-> s.is_finalized,
     sources |-> [h \in Hooks |-> s.hooks[h].trigger_source]]

\* Work that is turned in never changes again and is never deleted; the
\* retention job alone may remove its content (is_finalized guards).
TurnedInFrozen ==
    [][session.is_finalized =>
        /\ ~deleted'
        /\ Submission(session') = Submission(session)
        /\ \/ session'.hooks = session.hooks
           \/ session'.transcript_unavailable_reason = "content_expired"]_vars

\* A mid reflection that is due lets a turn pass when the student has
\* answered it or set it aside, and also when it is carried to post and a
\* resume has taken it back.
LetsTurnPass(hook) ==
    \/ Answered(hook)
    \/ hook.postponed
    \/ hook.carry_to_post /\ ~Triggered(hook)

TurnGated ==
    session'.turn_count > session.turn_count =>
        \A h \in Hooks :
            LET hook == session.hooks[h] IN
            hook.phase = "mid" /\ hook.trigger_turn <= session.turn_count =>
                LetsTurnPass(hook)

\* With a turn every mid reflection that is due by then has been asked for,
\* again if it was taken back, whether or not the turn is the last.
TurnTriggersDue ==
    session'.turn_count > session.turn_count =>
        \A h \in Hooks :
            LET hook == session'.hooks[h] IN
            hook.phase = "mid" /\ hook.trigger_turn <= session'.turn_count =>
                Triggered(hook)

\* A mid reflection is taken back only if completion asked for it, and only
\* by the resume that ends that completion.
OnlyResumeWithdraws ==
    \A h \in Hooks :
        LET hook == session.hooks[h] IN
        hook.phase = "mid" /\ Triggered(hook) /\ ~Triggered(session'.hooks[h]) =>
            /\ hook.trigger_source = "carry_to_post"
            /\ session.is_completion_started
            /\ ~session'.is_completion_started

\* No turn is consumed past a mid reflection that is due and neither
\* answered nor set aside, with one exception: a reflection that completion
\* asked for before its own turn did is taken back by the resume
\* (_clear_completion_reflections), lets one turn pass, and is asked for
\* again by that turn.  The other reflections gate across completion and
\* resume (_has_pending_mid_reflection, _trigger_mid_reflections).
DueReflectionGatesTurn == [][TurnGated /\ TurnTriggersDue /\ OnlyResumeWithdraws]_vars

\* A session that used its last turn is eventually turned in by a student
\* who keeps answering and trying: no reflection is left that can neither
\* be answered nor skipped.  Expired work is past that.
ExhaustedLeadsToTurnIn ==
    session.turn_count = session.max_turns
        ~> session.is_finalized \/ deleted \/ Expired
============================================================================
