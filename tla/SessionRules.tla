--------------------------- MODULE SessionRules ---------------------------
(***************************************************************************)
(* The state changes of one lesson session, as pure operators on a session *)
(* document: what core/sessions.py assigns to the Session it has loaded    *)
(* before it saves it.  SessionLifecycle applies them atomically,          *)
(* SessionService one await at a time.                                     *)
(*                                                                         *)
(* Data that follows from other fields is left out: closed_at is set       *)
(* exactly when ~is_active, completed_at when is_completion_started,       *)
(* turned_in_at when is_finalized, transcript_available exactly when       *)
(* transcript_unavailable_reason is "none", a hook's triggered_at exactly  *)
(* when it has a trigger_source, carried_to_post exactly when that source  *)
(* is "carry_to_post".                                                     *)
(***************************************************************************)
EXTENDS Naturals

CONSTANTS
    Hooks,          \* reflection hook ids of the lesson
    TurnLimits,     \* lesson.constraints.turn_limit values considered
    Policies        \* logging policies considered

AllPolicies == {"default", "metadata_only", "disabled"}

ASSUME TurnLimitsAssumption == TurnLimits \subseteq Nat \ {0}
ASSUME PoliciesAssumption == Policies \subseteq AllPolicies

(***************************************************************************)
(* Lessons, as Lesson.validate_lesson and LessonReflectionHook admit them. *)
(* NoTrigger stands for trigger_turn = None.                               *)
(***************************************************************************)
NoTrigger == 0

LessonHooks(limit) ==
    [phase : {"post"}, trigger_turn : {NoTrigger}, carry_to_post : {FALSE}]
        \cup
    [phase : {"mid"}, carry_to_post : BOOLEAN,
     trigger_turn : {t \in NoTrigger .. limit - 1 : limit > 1}]

Lessons ==
    UNION {[turn_limit : {n}, logging_policy : Policies,
            hooks : [Hooks -> LessonHooks(n)]] : n \in TurnLimits}

\* A mid hook that names no turn is due halfway through the lesson.
ResolveTriggerTurn(hook, limit) ==
    IF hook.phase # "mid" THEN NoTrigger
    ELSE IF hook.trigger_turn # NoTrigger THEN hook.trigger_turn
    ELSE IF (limit + 1) \div 2 > 1 THEN (limit + 1) \div 2 ELSE 1

(***************************************************************************)
(* Session documents.                                                      *)
(***************************************************************************)
Phases    == {"mid", "post"}
Sources   == {"none", "mid_turn", "soft_complete", "carry_to_post"}
Responses == {"none", "blank", "text"}   \* None; only whitespace; an answer
Reasons   == {"none", "content_expired", "server_restart", "not_persisted"}

HookStates ==
    [phase : Phases, trigger_turn : Nat, carry_to_post : BOOLEAN,
     trigger_source : Sources, postponed : BOOLEAN, response : Responses]

Sessions ==
    [turn_count : Nat, max_turns : Nat, logging_policy : AllPolicies,
     is_active : BOOLEAN, is_completion_started : BOOLEAN, is_finalized : BOOLEAN,
     transcript_unavailable_reason : Reasons, hooks : [Hooks -> HookStates]]

Triggered(hook) == hook.trigger_source # "none"
Answered(hook)  == hook.response = "text"

\* The document create_session builds from a lesson.
NewSession(lesson) ==
    [turn_count |-> 0, max_turns |-> lesson.turn_limit,
     logging_policy |-> lesson.logging_policy,
     is_active |-> TRUE, is_completion_started |-> FALSE, is_finalized |-> FALSE,
     transcript_unavailable_reason |-> "none",
     hooks |-> [h \in Hooks |->
        [phase |-> lesson.hooks[h].phase,
         trigger_turn |-> ResolveTriggerTurn(lesson.hooks[h], lesson.turn_limit),
         carry_to_post |-> lesson.hooks[h].carry_to_post,
         trigger_source |-> "none", postponed |-> FALSE, response |-> "none"]]]

---------------------------------------------------------------------------
(***************************************************************************)
(* Reflection hooks.                                                       *)
(***************************************************************************)
PendingMid(hook) ==
    /\ hook.phase = "mid"
    /\ Triggered(hook)
    /\ ~hook.postponed
    /\ ~Answered(hook)

HasPendingMidReflection(s) == \E h \in Hooks : PendingMid(s.hooks[h])

\* Mutant: a postponed reflection no longer blocks turning in.
MutantRequiredReflectionsAnswered(s) ==
    \A h \in Hooks :
        Triggered(s.hooks[h]) => Answered(s.hooks[h]) \/ s.hooks[h].postponed

RequiredReflectionsAnswered(s) ==
    \A h \in Hooks : Triggered(s.hooks[h]) => Answered(s.hooks[h])

\* Mutant: a mid hook is triggered one turn late.
MutantDueMid(hook, s) ==
    /\ hook.phase = "mid" /\ ~Triggered(hook) /\ hook.trigger_turn # NoTrigger
    /\ ~(hook.carry_to_post /\ s.turn_count >= s.max_turns)
    /\ s.turn_count > hook.trigger_turn

\* A mid hook is due at its turn; a carried one is left to completion when
\* the turn is the last one.
DueMid(hook, s) ==
    /\ hook.phase = "mid"
    /\ ~Triggered(hook)
    /\ hook.trigger_turn # NoTrigger
    /\ ~(hook.carry_to_post /\ s.turn_count >= s.max_turns)
    /\ s.turn_count >= hook.trigger_turn

TriggerMidReflections(s) ==
    [s EXCEPT !.hooks = [h \in Hooks |->
        IF DueMid(s.hooks[h], s)
        THEN [s.hooks[h] EXCEPT !.trigger_source = "mid_turn"]
        ELSE s.hooks[h]]]

\* Completion recalls postponed unanswered mid hooks, triggers every post
\* hook and every mid hook carried to post.
CompletionTriggered(hook) ==
    CASE Triggered(hook) ->
            [hook EXCEPT !.postponed =
                @ /\ ~(hook.phase = "mid" /\ ~Answered(hook))]
      [] ~Triggered(hook) /\ hook.phase = "post" ->
            [hook EXCEPT !.trigger_source = "soft_complete"]
      [] ~Triggered(hook) /\ hook.phase = "mid" /\ hook.carry_to_post ->
            [hook EXCEPT !.trigger_source = "carry_to_post"]
      [] OTHER -> hook

TriggerCompletionReflections(s) ==
    [s EXCEPT !.hooks = [h \in Hooks |-> CompletionTriggered(s.hooks[h])]]

CompletionSources == {"soft_complete", "carry_to_post"}

\* Mutant: hooks carried to post survive a resume.
MutantClearSoftCompleteOnly(s) ==
    [s EXCEPT !.hooks = [h \in Hooks |->
        IF s.hooks[h].trigger_source = "soft_complete"
        THEN [s.hooks[h] EXCEPT !.trigger_source = "none",
                                !.postponed = FALSE, !.response = "none"]
        ELSE s.hooks[h]]]

ClearCompletionReflections(s) ==
    [s EXCEPT !.hooks = [h \in Hooks |->
        IF s.hooks[h].trigger_source \in CompletionSources
        THEN [s.hooks[h] EXCEPT !.trigger_source = "none",
                                !.postponed = FALSE, !.response = "none"]
        ELSE s.hooks[h]]]

---------------------------------------------------------------------------
(***************************************************************************)
(* The handlers: a guard (the exceptions the handler raises) and what the  *)
(* handler assigns before it saves.                                        *)
(***************************************************************************)
CanSubmit(s) ==
    /\ s.is_active
    /\ s.turn_count < s.max_turns
    /\ ~HasPendingMidReflection(s)

ReachTurnLimit(s) ==
    IF s.turn_count >= s.max_turns
    THEN TriggerCompletionReflections(
            [s EXCEPT !.is_completion_started = TRUE, !.is_active = FALSE])
    ELSE s

\* Mutant: the last turn does not close the session.
MutantCommitUserTurn(s) == TriggerMidReflections([s EXCEPT !.turn_count = @ + 1])

CommitUserTurn(s) ==
    ReachTurnLimit(TriggerMidReflections([s EXCEPT !.turn_count = @ + 1]))

CloseSession(s) == [s EXCEPT !.is_active = FALSE]

CanBeginCompletion(s) == ~s.is_finalized

BeginCompletion(s) ==
    TriggerCompletionReflections([s EXCEPT !.is_completion_started = TRUE])

CanResume(s) == ~s.is_finalized /\ s.is_active

ResumeAfterCompletion(s) ==
    ClearCompletionReflections([s EXCEPT !.is_completion_started = FALSE])

\* Mutant: reflections are accepted only while the session takes turns.
MutantCanSaveReflection(s, h) ==
    s.is_active /\ ~s.is_finalized /\ Triggered(s.hooks[h])

CanSaveReflection(s, h) ==
    /\ ~s.is_finalized
    /\ s.transcript_unavailable_reason # "content_expired"
    /\ Triggered(s.hooks[h])

SaveReflection(s, h, r) ==
    [s EXCEPT !.hooks[h].response = r, !.hooks[h].postponed = FALSE]

CanPostpone(s, h) ==
    /\ ~s.is_finalized
    /\ s.hooks[h].phase = "mid"
    /\ Triggered(s.hooks[h])
    /\ ~Answered(s.hooks[h])

PostponeReflection(s, h) == [s EXCEPT !.hooks[h].postponed = TRUE]

CanTurnIn(s) ==
    /\ ~s.is_finalized
    /\ s.is_completion_started
    /\ RequiredReflectionsAnswered(s)

TurnInSession(s) == [s EXCEPT !.is_finalized = TRUE, !.is_active = FALSE]

\* Mutant: turned-in work can be deleted.
MutantCanDelete(s) == TRUE

CanDelete(s) == ~s.is_finalized

(***************************************************************************)
(* utils/cleanup_retention.py.  That the closing date is past the cutoff   *)
(* is left open: any time may pass between two steps.                      *)
(***************************************************************************)

CanExpire(s) == ~s.is_active

ExpireContent(s) ==
    IF s.transcript_unavailable_reason = "content_expired" THEN s
    ELSE [s EXCEPT !.transcript_unavailable_reason = "content_expired",
                   !.hooks = [h \in Hooks |-> [s.hooks[h] EXCEPT !.response = "none"]]]

(***************************************************************************)
(* _hydrate_ephemeral_transcript.  cached says whether this process still  *)
(* holds the session's transcript; only "disabled" sessions depend on it.  *)
(***************************************************************************)
Ephemeral(s) == s.logging_policy = "disabled"

Interrupted(s, cached) ==
    Ephemeral(s) /\ ~cached /\ s.turn_count > 0 /\ s.is_active

Hydrated(s, cached) ==
    IF ~Ephemeral(s) THEN s
    ELSE IF cached \/ s.turn_count = 0 THEN
        [s EXCEPT !.transcript_unavailable_reason = "none"]
    ELSE IF s.is_active THEN
        [s EXCEPT !.transcript_unavailable_reason = "server_restart",
                  !.is_active = FALSE]
    ELSE [s EXCEPT !.transcript_unavailable_reason =
                        IF @ = "none" THEN "not_persisted" ELSE @]

\* What the cache holds once a session has been hydrated.
CachedAfterHydrate(s, cached) == cached \/ (Ephemeral(s) /\ s.turn_count = 0)
============================================================================
