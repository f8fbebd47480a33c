----------------------- MODULE SessionLifecycleProofs -----------------------
(***************************************************************************)
(* Proofs about SessionLifecycle for every set of hooks, turn limits and   *)
(* logging policies.  Every operation is a composition of a few document   *)
(* operators (SessionRules), so the argument is made on documents: Good is *)
(* the inductive invariant of one document, and each operator keeps it.    *)
(***************************************************************************)
EXTENDS SessionLifecycle, TLAPS

(***************************************************************************)
(* Good names the parts of the inductive invariant.                        *)
(***************************************************************************)
\* The lesson's part of a hook is as validate_hook and create_session leave
\* it, and a hook is triggered only by a source its phase allows.
HookShape(hook) ==
    /\ hook.phase = "mid" => hook.trigger_turn # NoTrigger
    /\ hook.phase = "post" => hook.trigger_turn = NoTrigger /\ ~hook.carry_to_post
    /\ hook.trigger_source = "soft_complete" => hook.phase = "post"
    /\ hook.trigger_source = "carry_to_post" => hook.carry_to_post
    /\ hook.trigger_source = "mid_turn" => hook.phase = "mid"

\* A mid hook that is not carried is triggered once its turn is reached.
DueTriggered(s, hook) ==
    hook.phase = "mid" /\ ~hook.carry_to_post /\ hook.trigger_turn <= s.turn_count
        => Triggered(hook)

\* Post and carried hooks follow completion.
FollowsCompletion(s, hook) ==
    IF s.is_completion_started
    THEN hook.phase = "post" \/ hook.carry_to_post => Triggered(hook)
    ELSE hook.trigger_source \notin CompletionSources

Budget(s) ==
    /\ s.turn_count <= s.max_turns
    /\ s.turn_count = s.max_turns => ~s.is_active /\ s.is_completion_started

FinalizedIsDone(s) ==
    s.is_finalized =>
        /\ ~s.is_active
        /\ s.is_completion_started
        /\ s.transcript_unavailable_reason # "content_expired" =>
                RequiredReflectionsAnswered(s)

Good(s) ==
    /\ s \in Sessions
    /\ \A h \in Hooks : /\ HookShape(s.hooks[h])
                        /\ DueTriggered(s, s.hooks[h])
                        /\ FollowsCompletion(s, s.hooks[h])
    /\ Budget(s)
    /\ FinalizedIsDone(s)
    /\ s.is_active => s.transcript_unavailable_reason # "content_expired"

IInv == Good(session) /\ cached \in BOOLEAN /\ deleted \in BOOLEAN

USE DEF NoTrigger

---------------------------------------------------------------------------
(* A new document is good: the default trigger turn of a mid hook falls    *)
(* before the last turn (_resolve_reflection_trigger_turn).                *)
LEMMA ResolvedTrigger ==
    ASSUME NEW limit \in Nat \ {0}, NEW hook \in LessonHooks(limit)
    PROVE  /\ ResolveTriggerTurn(hook, limit) \in Nat
           /\ hook.phase = "mid" => ResolveTriggerTurn(hook, limit) \in 1 .. limit - 1
           /\ hook.phase = "post" =>
                ResolveTriggerTurn(hook, limit) = NoTrigger /\ ~hook.carry_to_post
           /\ hook.phase \in Phases /\ hook.carry_to_post \in BOOLEAN
<1>1. CASE hook \in [phase : {"post"}, trigger_turn : {NoTrigger}, carry_to_post : {FALSE}]
  BY <1>1 DEF ResolveTriggerTurn, Phases
<1>2. CASE hook \in [phase : {"mid"}, carry_to_post : BOOLEAN,
                     trigger_turn : {t \in NoTrigger .. limit - 1 : limit > 1}]
  <2>1. /\ hook.phase = "mid" /\ hook.carry_to_post \in BOOLEAN
        /\ hook.trigger_turn \in 0 .. limit - 1 /\ limit > 1
    BY <1>2
  <2>2. (limit + 1) \div 2 \in Nat /\ (limit + 1) \div 2 < limit
    BY <2>1
  <2>3. ResolveTriggerTurn(hook, limit) \in 1 .. limit - 1
    BY <2>1, <2>2 DEF ResolveTriggerTurn
  <2>4. QED BY <2>1, <2>3 DEF Phases
<1>3. QED BY <1>1, <1>2 DEF LessonHooks

LEMMA NewSessionGood ==
    ASSUME NEW lesson \in Lessons
    PROVE  Good(NewSession(lesson))
<1>1. PICK n \in TurnLimits :
        lesson \in [turn_limit : {n}, logging_policy : Policies,
                    hooks : [Hooks -> LessonHooks(n)]]
  BY DEF Lessons
<1>2. /\ lesson.turn_limit = n /\ lesson.logging_policy \in AllPolicies
      /\ \A h \in Hooks : lesson.hooks[h] \in LessonHooks(n)
      /\ n \in Nat \ {0}
  BY <1>1, TurnLimitsAssumption, PoliciesAssumption
<1> DEFINE s == NewSession(lesson)
           hook(h) == s.hooks[h]
<1>3. ASSUME NEW h \in Hooks
      PROVE  /\ hook(h) \in HookStates /\ HookShape(hook(h))
             /\ DueTriggered(s, hook(h)) /\ FollowsCompletion(s, hook(h))
  <2>1. /\ hook(h).phase = lesson.hooks[h].phase
        /\ hook(h).trigger_turn = ResolveTriggerTurn(lesson.hooks[h], n)
        /\ hook(h).carry_to_post = lesson.hooks[h].carry_to_post
        /\ hook(h).trigger_source = "none"
        /\ s.turn_count = 0 /\ s.is_completion_started = FALSE
    BY <1>2, <1>3 DEF NewSession
  <2>2. hook(h) \in HookStates
    BY <1>2, <1>3, ResolvedTrigger
       DEF NewSession, HookStates, Sources, Responses
  <2>3. QED
    BY <1>2, <1>3, <2>1, <2>2, ResolvedTrigger
       DEF HookShape, DueTriggered, FollowsCompletion, CompletionSources, HookStates, Phases
<1>4. s \in Sessions
  BY <1>2, <1>3 DEF NewSession, Sessions, Reasons
<1>5. /\ s.turn_count = 0 /\ s.max_turns = n /\ s.is_finalized = FALSE
      /\ s.transcript_unavailable_reason = "none"
  BY <1>2 DEF NewSession
<1>6. Budget(s) /\ FinalizedIsDone(s)
  BY <1>2, <1>5 DEF Budget, FinalizedIsDone
<1>7. QED
  BY <1>3, <1>4, <1>5, <1>6 DEF Good

---------------------------------------------------------------------------
(* What completion does to one hook: the lesson's part and the response    *)
(* stay, triggered hooks stay triggered, post and carried hooks become so. *)
LEMMA CompletionTriggeredHook ==
    ASSUME NEW hook \in HookStates, HookShape(hook)
    PROVE  LET k == CompletionTriggered(hook) IN
           /\ k \in HookStates /\ HookShape(k)
           /\ k.phase = hook.phase /\ k.trigger_turn = hook.trigger_turn
           /\ k.carry_to_post = hook.carry_to_post /\ k.response = hook.response
           /\ Triggered(hook) => Triggered(k)
           /\ hook.phase = "post" \/ hook.carry_to_post => Triggered(k)
<1>1. hook.phase \in {"mid", "post"} /\ hook.postponed \in BOOLEAN
  BY DEF HookStates, Phases
<1>2. CASE Triggered(hook)
  <2>1. CompletionTriggered(hook) =
          [hook EXCEPT !.postponed = @ /\ ~(hook.phase = "mid" /\ ~Answered(hook))]
    BY <1>2 DEF CompletionTriggered
  <2>2. QED BY <1>2, <2>1 DEF HookStates, HookShape, Triggered
<1>3. CASE ~Triggered(hook) /\ hook.phase = "post"
  <2>1. CompletionTriggered(hook) = [hook EXCEPT !.trigger_source = "soft_complete"]
    BY <1>3 DEF CompletionTriggered
  <2>2. QED BY <1>3, <2>1 DEF HookStates, HookShape, Triggered, Sources
<1>4. CASE ~Triggered(hook) /\ hook.phase = "mid" /\ hook.carry_to_post
  <2>1. CompletionTriggered(hook) = [hook EXCEPT !.trigger_source = "carry_to_post"]
    BY <1>4 DEF CompletionTriggered
  <2>2. QED BY <1>4, <2>1 DEF HookStates, HookShape, Triggered, Sources
<1>5. CASE ~Triggered(hook) /\ hook.phase = "mid" /\ ~hook.carry_to_post
  <2>1. CompletionTriggered(hook) = hook
    BY <1>5 DEF CompletionTriggered
  <2>2. QED BY <1>5, <2>1
<1>6. QED BY <1>1, <1>2, <1>3, <1>4, <1>5

(* The fields of a document after completion has triggered its hooks.      *)
LEMMA CompletionDocument ==
    ASSUME NEW s \in Sessions, \A h \in Hooks : HookShape(s.hooks[h])
    PROVE  LET c == TriggerCompletionReflections(s) IN
           /\ c \in Sessions
           /\ c.turn_count = s.turn_count /\ c.max_turns = s.max_turns
           /\ c.is_active = s.is_active /\ c.is_finalized = s.is_finalized
           /\ c.is_completion_started = s.is_completion_started
           /\ c.transcript_unavailable_reason = s.transcript_unavailable_reason
           /\ \A h \in Hooks : c.hooks[h] = CompletionTriggered(s.hooks[h])
<1>1. \A h \in Hooks : s.hooks[h] \in HookStates
  BY DEF Sessions
<1>2. [h \in Hooks |-> CompletionTriggered(s.hooks[h])] \in [Hooks -> HookStates]
  BY <1>1, CompletionTriggeredHook
<1>3. QED BY <1>2 DEF TriggerCompletionReflections, Sessions

(* begin_completion keeps a good document good.                            *)
LEMMA BeginCompletionGood ==
    ASSUME NEW s, Good(s), ~s.is_finalized
    PROVE  Good(BeginCompletion(s))
<1> DEFINE b == [s EXCEPT !.is_completion_started = TRUE]
           c == TriggerCompletionReflections(b)
<1>1. /\ b \in Sessions /\ b.hooks = s.hooks
      /\ b.turn_count = s.turn_count /\ b.max_turns = s.max_turns
      /\ b.is_active = s.is_active /\ b.is_finalized = s.is_finalized
      /\ b.is_completion_started = TRUE
      /\ b.transcript_unavailable_reason = s.transcript_unavailable_reason
  BY DEF Good, Sessions
<1> HIDE DEF b
<1>2. /\ c \in Sessions /\ c.turn_count = s.turn_count /\ c.max_turns = s.max_turns
      /\ c.is_active = s.is_active /\ c.is_finalized = FALSE
      /\ c.is_completion_started = TRUE
      /\ c.transcript_unavailable_reason = s.transcript_unavailable_reason
      /\ \A h \in Hooks : c.hooks[h] = CompletionTriggered(s.hooks[h])
  BY <1>1, CompletionDocument DEF Good, Sessions
<1> HIDE DEF c
<1>3. ASSUME NEW h \in Hooks
      PROVE  /\ HookShape(c.hooks[h])
             /\ DueTriggered(c, c.hooks[h])
             /\ FollowsCompletion(c, c.hooks[h])
  <2>1. /\ s.hooks[h] \in HookStates /\ HookShape(s.hooks[h])
        /\ DueTriggered(s, s.hooks[h])
    BY DEF Good, Sessions
  <2>2. QED
    BY <1>2, <2>1, CompletionTriggeredHook DEF DueTriggered, FollowsCompletion
<1>4. Budget(c) /\ FinalizedIsDone(c)
  BY <1>2 DEF Good, Budget, FinalizedIsDone
<1>5. Good(c)
  BY <1>2, <1>3, <1>4 DEF Good
<1>6. QED BY <1>5 DEF BeginCompletion, b, c

(* _commit_user_turn keeps a good document good.                           *)
LEMMA CommitGood ==
    ASSUME NEW s, Good(s), CanSubmit(s)
    PROVE  Good(CommitUserTurn(s))
<1> DEFINE a == [s EXCEPT !.turn_count = @ + 1]
           t == TriggerMidReflections(a)
<1>1. /\ s.turn_count \in Nat /\ s.max_turns \in Nat /\ s.turn_count < s.max_turns
      /\ s.is_active = TRUE /\ s.is_finalized = FALSE
      /\ \A h \in Hooks : s.hooks[h] \in HookStates
  BY DEF Good, Sessions, CanSubmit, FinalizedIsDone
<1>2. /\ a \in Sessions /\ a.hooks = s.hooks /\ a.turn_count = s.turn_count + 1
      /\ a.max_turns = s.max_turns /\ a.is_active = TRUE /\ a.is_finalized = FALSE
      /\ a.is_completion_started = s.is_completion_started
      /\ a.transcript_unavailable_reason = s.transcript_unavailable_reason
  BY <1>1 DEF Good, Sessions
<1> HIDE DEF a
<1>3. ASSUME NEW h \in Hooks
      PROVE  /\ t.hooks[h] \in HookStates /\ HookShape(t.hooks[h])
             /\ DueTriggered(t, t.hooks[h])
             /\ FollowsCompletion(s, t.hooks[h])
  <2>1. t.hooks[h] = IF DueMid(s.hooks[h], a)
                     THEN [s.hooks[h] EXCEPT !.trigger_source = "mid_turn"]
                     ELSE s.hooks[h]
    BY <1>2 DEF TriggerMidReflections, Sessions
  <2>2. t.turn_count = a.turn_count
    BY <1>2 DEF TriggerMidReflections, Sessions
  <2>3. /\ s.hooks[h] \in HookStates /\ HookShape(s.hooks[h])
        /\ FollowsCompletion(s, s.hooks[h])
    BY <1>1 DEF Good
  <2>4. CASE DueMid(s.hooks[h], a)
    BY <1>2, <2>1, <2>2, <2>3, <2>4
       DEF DueMid, HookStates, HookShape, DueTriggered, FollowsCompletion,
           CompletionSources, Triggered, Sources
  <2>5. CASE ~DueMid(s.hooks[h], a)
    <3>1. t.hooks[h] = s.hooks[h]
      BY <2>1, <2>5
    <3>2. s.hooks[h].trigger_turn \in Nat /\ a.turn_count \in Nat
      BY <1>1, <1>2 DEF HookStates
    <3>3. DueTriggered(a, s.hooks[h])
      BY <2>3, <2>5, <3>2 DEF DueTriggered, DueMid, HookShape
    <3>4. QED BY <2>2, <2>3, <3>1, <3>3 DEF DueTriggered
  <2>6. QED BY <2>4, <2>5
<1>4. /\ t \in Sessions /\ t.turn_count = s.turn_count + 1 /\ t.max_turns = s.max_turns
      /\ t.is_active = TRUE /\ t.is_finalized = FALSE
      /\ t.is_completion_started = s.is_completion_started
      /\ t.transcript_unavailable_reason = s.transcript_unavailable_reason
  <2>1. [h \in Hooks |-> IF DueMid(a.hooks[h], a)
                         THEN [a.hooks[h] EXCEPT !.trigger_source = "mid_turn"]
                         ELSE a.hooks[h]] \in [Hooks -> HookStates]
    BY <1>1, <1>2 DEF HookStates, Sources
  <2>2. QED BY <1>2, <2>1 DEF TriggerMidReflections, Sessions
<1> HIDE DEF t
<1>5. s.transcript_unavailable_reason # "content_expired"
  BY <1>1 DEF Good
<1>6. CASE s.turn_count + 1 < s.max_turns
  <2>1. CommitUserTurn(s) = t
    BY <1>1, <1>4, <1>6 DEF CommitUserTurn, ReachTurnLimit, a, t
  <2>2. Budget(t) /\ FinalizedIsDone(t)
    BY <1>1, <1>4, <1>6 DEF Budget, FinalizedIsDone
  <2>3. \A h \in Hooks : FollowsCompletion(t, t.hooks[h])
    BY <1>3, <1>4 DEF FollowsCompletion
  <2>4. QED BY <1>3, <1>4, <1>5, <2>1, <2>2, <2>3 DEF Good
<1>7. CASE s.turn_count + 1 = s.max_turns
  <2> DEFINE u == [t EXCEPT !.is_completion_started = TRUE, !.is_active = FALSE]
             c == TriggerCompletionReflections(u)
  <2>1. CommitUserTurn(s) = c
    BY <1>1, <1>4, <1>7 DEF CommitUserTurn, ReachTurnLimit, a, t
  <2>2. /\ u \in Sessions /\ u.hooks = t.hooks /\ u.turn_count = t.turn_count
        /\ u.max_turns = t.max_turns /\ u.is_active = FALSE /\ u.is_finalized = FALSE
        /\ u.is_completion_started = TRUE
    BY <1>4 DEF Sessions
  <2> HIDE DEF u
  <2>3. /\ c \in Sessions /\ c.turn_count = s.turn_count + 1 /\ c.max_turns = s.max_turns
        /\ c.is_active = FALSE /\ c.is_finalized = FALSE /\ c.is_completion_started = TRUE
        /\ \A h \in Hooks : c.hooks[h] = CompletionTriggered(t.hooks[h])
    BY <1>3, <1>4, <2>2, CompletionDocument
  <2> HIDE DEF c
  <2>4. ASSUME NEW h \in Hooks
        PROVE  /\ HookShape(c.hooks[h])
               /\ DueTriggered(c, c.hooks[h])
               /\ FollowsCompletion(c, c.hooks[h])
    <3>1. /\ t.hooks[h] \in HookStates /\ HookShape(t.hooks[h])
          /\ DueTriggered(t, t.hooks[h])
      BY <1>3
    <3>2. QED
      BY <1>4, <2>3, <3>1, CompletionTriggeredHook DEF DueTriggered, FollowsCompletion
  <2>5. Budget(c) /\ FinalizedIsDone(c)
    BY <1>1, <1>7, <2>3 DEF Budget, FinalizedIsDone
  <2>6. QED BY <2>1, <2>3, <2>4, <2>5 DEF Good
<1>8. QED BY <1>1, <1>6, <1>7

(* _commit_user_turn takes no trigger back and triggers what is due, be it *)
(* at its turn or, at the last one, by completion.                         *)
LEMMA CommitTriggers ==
    ASSUME NEW s, Good(s), CanSubmit(s), NEW h \in Hooks
    PROVE  LET k == CommitUserTurn(s) IN
           /\ Triggered(s.hooks[h]) => Triggered(k.hooks[h])
           /\ k.hooks[h].phase = "mid" /\ k.hooks[h].trigger_turn <= k.turn_count =>
                Triggered(k.hooks[h])
<1> DEFINE a == [s EXCEPT !.turn_count = @ + 1]
           t == TriggerMidReflections(a)
           k == CommitUserTurn(s)
<1>1. /\ s \in Sessions /\ s.turn_count \in Nat /\ s.max_turns \in Nat
      /\ s.turn_count < s.max_turns
      /\ s.hooks[h] \in HookStates /\ HookShape(s.hooks[h])
  BY DEF Good, Sessions, CanSubmit
<1>2. /\ a \in Sessions /\ a.hooks = s.hooks /\ a.turn_count = s.turn_count + 1
      /\ a.max_turns = s.max_turns
  BY <1>1 DEF Sessions
<1> HIDE DEF a
<1>3. /\ t.hooks[h] = IF DueMid(s.hooks[h], a)
                      THEN [s.hooks[h] EXCEPT !.trigger_source = "mid_turn"]
                      ELSE s.hooks[h]
      /\ t.turn_count = s.turn_count + 1 /\ t.max_turns = s.max_turns
      /\ DOMAIN t.hooks = Hooks
  BY <1>2 DEF TriggerMidReflections, Sessions
<1> HIDE DEF t
<1>4. Triggered(s.hooks[h]) => Triggered(t.hooks[h])
  BY <1>3 DEF DueMid
<1>5. CASE s.turn_count + 1 < s.max_turns
  <2>1. k = t
    BY <1>1, <1>3, <1>5 DEF CommitUserTurn, ReachTurnLimit, a, t
  <2>2. ASSUME t.hooks[h].phase = "mid", t.hooks[h].trigger_turn <= t.turn_count
        PROVE  Triggered(t.hooks[h])
    <3>1. CASE DueMid(s.hooks[h], a)
      BY <1>1, <1>3, <3>1 DEF Triggered, HookStates
    <3>2. CASE ~DueMid(s.hooks[h], a)
      BY <1>1, <1>2, <1>3, <1>5, <2>2, <3>2 DEF DueMid, HookShape, HookStates
    <3>3. QED BY <3>1, <3>2
  <2>3. QED BY <1>4, <2>1, <2>2
<1>6. CASE s.turn_count + 1 = s.max_turns
  <2> DEFINE u == [t EXCEPT !.is_completion_started = TRUE, !.is_active = FALSE]
  <2>1. k = TriggerCompletionReflections(u)
    BY <1>1, <1>3, <1>6 DEF CommitUserTurn, ReachTurnLimit, a, t
  <2>2. u.hooks = t.hooks
    BY <1>2 DEF t, TriggerMidReflections, Sessions
  <2>3. k.hooks[h] = CompletionTriggered(t.hooks[h]) /\ k.turn_count = s.max_turns
    BY <1>2, <1>3, <1>6, <2>1, <2>2 DEF t, TriggerMidReflections, TriggerCompletionReflections, Sessions
  <2>4. Triggered(t.hooks[h]) => Triggered(k.hooks[h])
    BY <1>1, <1>3, <2>3 DEF CompletionTriggered, Triggered, HookStates
  <2>5. Good(k) /\ k.max_turns \in Nat
    BY CommitGood DEF Good, Sessions
  <2>6. k.max_turns = s.max_turns
    BY <1>3, <2>1, <1>2 DEF t, TriggerMidReflections, TriggerCompletionReflections, Sessions
  <2>7. k.is_completion_started
    BY <2>3, <2>5, <2>6 DEF Good, Budget
  <2>8. DueTriggered(k, k.hooks[h]) /\ FollowsCompletion(k, k.hooks[h])
    BY <2>5 DEF Good
  <2>9. QED BY <1>4, <2>4, <2>7, <2>8 DEF DueTriggered, FollowsCompletion
<1>7. QED BY <1>1, <1>5, <1>6

(* _hydrate_ephemeral_transcript keeps a good document good unless it is   *)
(* turned in; it touches the reason and, after a restart, is_active.       *)
LEMMA HydratedGood ==
    ASSUME NEW s, NEW c \in BOOLEAN, Good(s)
    PROVE  /\ Hydrated(s, c) \in Sessions
           /\ Hydrated(s, c).hooks = s.hooks
           /\ Hydrated(s, c).turn_count = s.turn_count
           /\ Hydrated(s, c).is_finalized = s.is_finalized
           /\ Hydrated(s, c).is_active => s.is_active
           /\ ~s.is_finalized => Good(Hydrated(s, c))
<1>1. s \in Sessions /\ s.is_finalized \in BOOLEAN
  BY DEF Good, Sessions
<1>2. PICK reason \in Reasons, active \in BOOLEAN :
        /\ Hydrated(s, c) = [s EXCEPT !.transcript_unavailable_reason = reason,
                                      !.is_active = active]
        /\ active => s.is_active /\ reason # "content_expired"
  <2>1. CASE ~Ephemeral(s)
    <3>1. Hydrated(s, c) = s
      BY <2>1 DEF Hydrated
    <3>2. s = [s EXCEPT !.transcript_unavailable_reason = s.transcript_unavailable_reason,
                        !.is_active = s.is_active]
      BY <1>1 DEF Sessions
    <3>3. QED BY <1>1, <3>1, <3>2 DEF Good, Sessions
  <2>2. CASE Ephemeral(s) /\ (c \/ s.turn_count = 0)
    <3>1. Hydrated(s, c) = [s EXCEPT !.transcript_unavailable_reason = "none",
                                     !.is_active = s.is_active]
      BY <1>1, <2>2 DEF Hydrated, Sessions
    <3>2. QED BY <1>1, <3>1 DEF Sessions, Reasons
  <2>3. CASE Ephemeral(s) /\ ~c /\ s.turn_count # 0 /\ s.is_active
    <3>1. Hydrated(s, c) = [s EXCEPT !.transcript_unavailable_reason = "server_restart",
                                     !.is_active = FALSE]
      BY <1>1, <2>3 DEF Hydrated, Sessions
    <3>2. QED BY <3>1 DEF Reasons
  <2>4. CASE Ephemeral(s) /\ ~c /\ s.turn_count # 0 /\ ~s.is_active
    <3> DEFINE old == s.transcript_unavailable_reason
               reason == IF old = "none" THEN "not_persisted" ELSE old
    <3>1. Hydrated(s, c) = [s EXCEPT !.transcript_unavailable_reason = reason]
      BY <1>1, <2>4 DEF Hydrated
    <3>2. Hydrated(s, c) = [s EXCEPT !.transcript_unavailable_reason = reason,
                                     !.is_active = FALSE]
      BY <1>1, <2>4, <3>1 DEF Sessions
    <3>3. reason \in Reasons
      BY <1>1 DEF Sessions, Reasons
    <3>4. QED BY <3>2, <3>3
  <2>5. QED BY <2>1, <2>2, <2>3, <2>4
<1> DEFINE k == Hydrated(s, c)
<1>3. /\ k \in Sessions /\ k.hooks = s.hooks /\ k.turn_count = s.turn_count
      /\ k.max_turns = s.max_turns /\ k.is_finalized = s.is_finalized
      /\ k.is_completion_started = s.is_completion_started
      /\ k.is_active = active /\ k.transcript_unavailable_reason = reason
  BY <1>1, <1>2 DEF Sessions
<1> HIDE DEF k
<1>4. ASSUME ~s.is_finalized PROVE Good(k)
  <2>1. \A h \in Hooks : /\ HookShape(k.hooks[h])
                         /\ DueTriggered(k, k.hooks[h])
                         /\ FollowsCompletion(k, k.hooks[h])
    BY <1>3 DEF Good, DueTriggered, FollowsCompletion
  <2>2. Budget(k) /\ FinalizedIsDone(k)
    BY <1>2, <1>3, <1>4 DEF Good, Budget, FinalizedIsDone
  <2>3. QED BY <1>2, <1>3, <2>1, <2>2 DEF Good
<1>5. QED BY <1>2, <1>3, <1>4 DEF k

(* resume_after_completion keeps a good document good: it hides exactly    *)
(* the hooks that completion had triggered.                                *)
LEMMA ResumeGood ==
    ASSUME NEW s, Good(s), CanResume(s)
    PROVE  Good(ResumeAfterCompletion(s))
<1> DEFINE Cleared(hook) == IF hook.trigger_source \in CompletionSources
                            THEN [hook EXCEPT !.trigger_source = "none",
                                              !.postponed = FALSE, !.response = "none"]
                            ELSE hook
           k == ResumeAfterCompletion(s)
<1>1. /\ s \in Sessions /\ s.is_active = TRUE /\ s.is_finalized = FALSE
      /\ s.turn_count < s.max_turns /\ s.turn_count \in Nat /\ s.max_turns \in Nat
  BY DEF Good, Budget, Sessions, CanResume
<1>2. ASSUME NEW h \in Hooks
      PROVE  /\ Cleared(s.hooks[h]) \in HookStates /\ HookShape(Cleared(s.hooks[h]))
             /\ DueTriggered(s, Cleared(s.hooks[h]))
             /\ Cleared(s.hooks[h]).trigger_source \notin CompletionSources
  <2>1. /\ s.hooks[h] \in HookStates /\ HookShape(s.hooks[h])
        /\ DueTriggered(s, s.hooks[h])
    BY <1>1 DEF Good, Sessions
  <2>2. CASE s.hooks[h].trigger_source \in CompletionSources
    BY <2>1, <2>2
       DEF HookStates, HookShape, DueTriggered, CompletionSources, Sources, Responses
  <2>3. CASE s.hooks[h].trigger_source \notin CompletionSources
    BY <2>1, <2>3
  <2>4. QED BY <2>2, <2>3
<1>3. [h \in Hooks |-> Cleared(s.hooks[h])] \in [Hooks -> HookStates]
  BY <1>2
<1>4. /\ k \in Sessions /\ k.turn_count = s.turn_count /\ k.max_turns = s.max_turns
      /\ k.is_active = TRUE /\ k.is_finalized = FALSE /\ k.is_completion_started = FALSE
      /\ k.transcript_unavailable_reason = s.transcript_unavailable_reason
      /\ k.hooks = [h \in Hooks |-> Cleared(s.hooks[h])]
  BY <1>1, <1>3 DEF ResumeAfterCompletion, ClearCompletionReflections, Sessions
<1> HIDE DEF k, Cleared
<1>5. \A h \in Hooks : /\ HookShape(k.hooks[h])
                       /\ DueTriggered(k, k.hooks[h])
                       /\ FollowsCompletion(k, k.hooks[h])
  BY <1>2, <1>4 DEF DueTriggered, FollowsCompletion
<1>6. Budget(k) /\ FinalizedIsDone(k)
  BY <1>1, <1>4 DEF Budget, FinalizedIsDone
<1>7. Good(k)
  BY <1>1, <1>4, <1>5, <1>6 DEF Good
<1>8. QED BY <1>7 DEF k

(* A change of one hook's response and postponement, before turn-in, keeps *)
(* a good document good: nothing in Good depends on them until then.       *)
LEMMA HookEditGood ==
    ASSUME NEW s, Good(s), ~s.is_finalized, NEW g \in Hooks,
           NEW r \in Responses, NEW p \in BOOLEAN
    PROVE  Good([s EXCEPT !.hooks[g] = [@ EXCEPT !.response = r, !.postponed = p]])
<1> DEFINE e == [s.hooks[g] EXCEPT !.response = r, !.postponed = p]
           k == [s EXCEPT !.hooks[g] = e]
<1>1. s \in Sessions /\ s.hooks \in [Hooks -> HookStates]
  BY DEF Good, Sessions
<1>2. /\ e \in HookStates /\ e.phase = s.hooks[g].phase
      /\ e.trigger_turn = s.hooks[g].trigger_turn
      /\ e.carry_to_post = s.hooks[g].carry_to_post
      /\ e.trigger_source = s.hooks[g].trigger_source
  BY <1>1 DEF HookStates
<1> HIDE DEF e
<1>3. /\ k \in Sessions /\ k.turn_count = s.turn_count /\ k.max_turns = s.max_turns
      /\ k.is_active = s.is_active /\ k.is_finalized = s.is_finalized
      /\ k.is_completion_started = s.is_completion_started
      /\ k.transcript_unavailable_reason = s.transcript_unavailable_reason
      /\ k.hooks = [s.hooks EXCEPT ![g] = e]
  BY <1>1, <1>2 DEF Sessions
<1> HIDE DEF k
<1>4. ASSUME NEW h \in Hooks
      PROVE  /\ HookShape(k.hooks[h])
             /\ DueTriggered(k, k.hooks[h])
             /\ FollowsCompletion(k, k.hooks[h])
  <2>1. HookShape(s.hooks[h]) /\ DueTriggered(s, s.hooks[h])
            /\ FollowsCompletion(s, s.hooks[h])
    BY DEF Good
  <2>2. /\ k.hooks[h].phase = s.hooks[h].phase
        /\ k.hooks[h].trigger_turn = s.hooks[h].trigger_turn
        /\ k.hooks[h].carry_to_post = s.hooks[h].carry_to_post
        /\ k.hooks[h].trigger_source = s.hooks[h].trigger_source
    BY <1>1, <1>2, <1>3
  <2>3. QED
    BY <1>3, <2>1, <2>2 DEF HookShape, DueTriggered, FollowsCompletion, Triggered
<1>5. Budget(k) /\ FinalizedIsDone(k)
  BY <1>3 DEF Good, Budget, FinalizedIsDone
<1>6. Good(k)
  BY <1>3, <1>4, <1>5 DEF Good
<1>7. k = [s EXCEPT !.hooks[g] = [@ EXCEPT !.response = r, !.postponed = p]]
  BY DEF k, e
<1>8. QED BY <1>6, <1>7

(* save_reflection_response keeps a good document good.                    *)
LEMMA ReflectGood ==
    ASSUME NEW s, Good(s), NEW h \in Hooks, CanSaveReflection(s, h),
           NEW r \in {"blank", "text"}
    PROVE  Good(SaveReflection(s, h, r))
<1>1. s \in Sessions /\ s.hooks \in [Hooks -> HookStates] /\ ~s.is_finalized
  BY DEF Good, Sessions, CanSaveReflection
<1>2. SaveReflection(s, h, r) =
        [s EXCEPT !.hooks[h] = [@ EXCEPT !.response = r, !.postponed = FALSE]]
  BY <1>1 DEF SaveReflection, Sessions, HookStates
<1>3. r \in Responses
  BY DEF Responses
<1>4. Good([s EXCEPT !.hooks[h] = [@ EXCEPT !.response = r, !.postponed = FALSE]])
  BY <1>1, <1>3, HookEditGood
<1>5. QED BY <1>2, <1>4

(* postpone_reflection keeps a good document good.                         *)
LEMMA PostponeGood ==
    ASSUME NEW s, Good(s), NEW h \in Hooks, CanPostpone(s, h)
    PROVE  Good(PostponeReflection(s, h))
<1> DEFINE r == s.hooks[h].response
<1>1. /\ s \in Sessions /\ s.hooks \in [Hooks -> HookStates] /\ ~s.is_finalized
      /\ s.hooks[h] \in HookStates /\ r \in Responses
  BY DEF Good, Sessions, HookStates, CanPostpone
<1>2. [s.hooks[h] EXCEPT !.postponed = TRUE]
        = [s.hooks[h] EXCEPT !.response = r, !.postponed = TRUE]
  BY <1>1 DEF HookStates
<1>3. PostponeReflection(s, h) =
        [s EXCEPT !.hooks[h] = [@ EXCEPT !.response = r, !.postponed = TRUE]]
  BY <1>1, <1>2 DEF PostponeReflection
<1>4. Good([s EXCEPT !.hooks[h] = [@ EXCEPT !.response = r, !.postponed = TRUE]])
  BY <1>1, HookEditGood
<1>5. QED BY <1>3, <1>4

(* Closing, turning in and expiring keep a good document good.             *)
LEMMA CloseGood ==
    ASSUME NEW s, Good(s)
    PROVE  Good(CloseSession(s))
BY DEF Good, CloseSession, Sessions, Budget, FinalizedIsDone, DueTriggered,
       FollowsCompletion, RequiredReflectionsAnswered

LEMMA TurnInGood ==
    ASSUME NEW s, Good(s), CanTurnIn(s)
    PROVE  Good(TurnInSession(s))
BY DEF Good, CanTurnIn, TurnInSession, Sessions, Budget, FinalizedIsDone, DueTriggered,
       FollowsCompletion, RequiredReflectionsAnswered

LEMMA ExpireGood ==
    ASSUME NEW s, Good(s), CanExpire(s)
    PROVE  Good(ExpireContent(s))
<1> DEFINE k == [s EXCEPT !.transcript_unavailable_reason = "content_expired",
                   !.hooks = [h \in Hooks |-> [s.hooks[h] EXCEPT !.response = "none"]]]
<1>1. s \in Sessions /\ s.hooks \in [Hooks -> HookStates] /\ s.is_active = FALSE
  BY DEF Good, Sessions, CanExpire
<1>2. [h \in Hooks |-> [s.hooks[h] EXCEPT !.response = "none"]] \in [Hooks -> HookStates]
  BY <1>1 DEF HookStates, Responses
<1>3. /\ k \in Sessions /\ k.turn_count = s.turn_count /\ k.max_turns = s.max_turns
      /\ k.is_active = FALSE /\ k.is_finalized = s.is_finalized
      /\ k.is_completion_started = s.is_completion_started
      /\ k.transcript_unavailable_reason = "content_expired"
  BY <1>1, <1>2 DEF Sessions, Reasons
<1>4. ASSUME NEW h \in Hooks
      PROVE  /\ k.hooks[h].phase = s.hooks[h].phase
             /\ k.hooks[h].trigger_turn = s.hooks[h].trigger_turn
             /\ k.hooks[h].carry_to_post = s.hooks[h].carry_to_post
             /\ k.hooks[h].trigger_source = s.hooks[h].trigger_source
  BY <1>1 DEF Sessions, HookStates
<1> HIDE DEF k
<1>5. ASSUME NEW h \in Hooks
      PROVE  /\ HookShape(k.hooks[h])
             /\ DueTriggered(k, k.hooks[h])
             /\ FollowsCompletion(k, k.hooks[h])
  <2>1. HookShape(s.hooks[h]) /\ DueTriggered(s, s.hooks[h])
            /\ FollowsCompletion(s, s.hooks[h])
    BY DEF Good
  <2>2. QED
    BY <1>3, <1>4, <2>1 DEF HookShape, DueTriggered, FollowsCompletion, Triggered
<1>6. Budget(k) /\ FinalizedIsDone(k)
  BY <1>1, <1>3 DEF Good, Budget, FinalizedIsDone
<1>7. Good(k)
  BY <1>1, <1>3, <1>5, <1>6 DEF Good
<1>8. QED BY <1>7 DEF ExpireContent, k

---------------------------------------------------------------------------
(* The stored document is good at first, whatever the lesson.              *)
LEMMA InitGood == Init => IInv
<1> SUFFICES ASSUME Init PROVE IInv
  OBVIOUS
<1>1. PICK lesson \in Lessons : session = NewSession(lesson)
  BY DEF Init
<1>2. Good(session)
  BY <1>1, NewSessionGood
<1>3. cached \in BOOLEAN
  BY DEF Init, Ephemeral
<1>4. QED BY <1>2, <1>3 DEF IInv, Init

(* Every operation, the retention job and a restart keep it good.          *)
LEMMA NextGood == IInv /\ [Next]_vars => IInv'
<1> SUFFICES ASSUME IInv, [Next]_vars PROVE IInv'
  OBVIOUS
<1>1. Good(session) /\ cached \in BOOLEAN /\ deleted \in BOOLEAN
  BY DEF IInv
<1>2. ~session.is_finalized => Good(Loaded)
  BY <1>1, HydratedGood DEF Loaded
<1>3. /\ Loaded.is_finalized = session.is_finalized
      /\ Loaded.is_active => session.is_active
      /\ Loaded.is_finalized \in BOOLEAN
  BY <1>1, HydratedGood DEF Loaded, Sessions
<1>4. session.is_active => ~session.is_finalized
  BY <1>1 DEF Good, FinalizedIsDone
<1>5. CachedAfterHydrate(session, cached) \in BOOLEAN /\ Ephemeral(session) \in BOOLEAN
  BY <1>1 DEF CachedAfterHydrate, Ephemeral
<1>6. ASSUME NEW s, Good(s), Save(s) PROVE IInv'
  BY <1>1, <1>5, <1>6 DEF IInv, Save
<1>7. CASE GetSession
  <2>1. Interrupted(session, cached) => ~session.is_finalized
    BY <1>4 DEF Interrupted
  <2>2. Good(IF Interrupted(session, cached) THEN Loaded ELSE session)
    BY <1>1, <1>2, <2>1
  <2>3. QED BY <1>6, <1>7, <2>2 DEF GetSession
<1>8. CASE SubmitUserMessage
  <2>1. CanSubmit(Loaded) /\ Loaded.is_active
    BY <1>8 DEF SubmitUserMessage, CanSubmit
  <2>2. Good(CommitUserTurn(Loaded))
    BY <1>2, <1>3, <1>4, <2>1, CommitGood
  <2>3. QED BY <1>1, <1>5, <1>8, <2>2 DEF SubmitUserMessage, IInv
<1>9. CASE Close
  <2>1. Good(CloseSession(Loaded))
    BY <1>2, <1>3, <1>4, <1>9, CloseGood DEF Close
  <2>2. QED BY <1>6, <1>9, <2>1 DEF Close
<1>10. CASE Complete
  <2>1. Good(BeginCompletion(Loaded))
    BY <1>2, <1>3, <1>10, BeginCompletionGood DEF Complete, CanBeginCompletion
  <2>2. QED BY <1>6, <1>10, <2>1 DEF Complete
<1>11. CASE Resume
  <2>1. Good(ResumeAfterCompletion(Loaded))
    BY <1>2, <1>3, <1>11, ResumeGood DEF Resume, CanResume
  <2>2. QED BY <1>6, <1>11, <2>1 DEF Resume
<1>12. ASSUME NEW h \in Hooks, NEW r \in {"blank", "text"}, Reflect(h, r) PROVE IInv'
  <2>1. Good(SaveReflection(Loaded, h, r))
    BY <1>2, <1>3, <1>12, ReflectGood DEF Reflect, CanSaveReflection
  <2>2. QED BY <1>6, <1>12, <2>1 DEF Reflect
<1>13. ASSUME NEW h \in Hooks, Postpone(h) PROVE IInv'
  <2>1. Good(PostponeReflection(Loaded, h))
    BY <1>2, <1>3, <1>13, PostponeGood DEF Postpone, CanPostpone
  <2>2. QED BY <1>6, <1>13, <2>1 DEF Postpone
<1>14. CASE TurnIn
  <2>1. Good(TurnInSession(Loaded))
    BY <1>2, <1>3, <1>14, TurnInGood DEF TurnIn, CanTurnIn
  <2>2. QED BY <1>6, <1>14, <2>1 DEF TurnIn
<1>15. CASE Delete
  BY <1>1, <1>15 DEF Delete, IInv
<1>16. CASE Expire
  BY <1>1, <1>16, ExpireGood DEF Expire, IInv
<1>17. CASE Restart
  BY <1>1, <1>17 DEF Restart, IInv
<1>18. CASE UNCHANGED vars
  BY <1>1, <1>18 DEF vars, IInv
<1>19. QED
  BY <1>7, <1>8, <1>9, <1>10, <1>11, <1>12, <1>13, <1>14, <1>15, <1>16, <1>17, <1>18
     DEF Next

(* The stored document is good in every reachable state.                   *)
THEOREM Invariance == Spec => []IInv
BY InitGood, NextGood, PTL DEF Spec

(* The variables keep their types, for every set of hooks, turn limits and *)
(* policies.                                                               *)
THEOREM TypeCorrect == Spec => []TypeOK
<1>1. IInv => TypeOK
  BY DEF IInv, Good, TypeOK
<1>2. QED BY Invariance, <1>1, PTL

(* A session never consumes more turns than its lesson allows, and at the  *)
(* limit it is closed and in completion for good.                          *)
THEOREM TurnBudgetHolds == Spec => []TurnBudget
<1>1. IInv => TurnBudget
  BY DEF IInv, Good, Budget, TurnBudget
<1>2. QED BY Invariance, <1>1, PTL

(* Completion-triggered reflections are visible exactly during completion. *)
THEOREM CompletionHooksHold == Spec => []CompletionHooks
<1>1. IInv => CompletionHooks
  BY DEF IInv, Good, FollowsCompletion, CompletionHooks
<1>2. QED BY Invariance, <1>1, PTL

(* Work that is turned in, and not expired, answers every reflection the   *)
(* lesson asked for: post, carried, and mid ones whose turn was reached.   *)
THEOREM TurnInCompleteHolds == Spec => []TurnInComplete
<1>1. IInv => TurnInComplete
  <2> SUFFICES ASSUME IInv, session.is_finalized, ~Expired, NEW h \in Hooks,
                      Owed(session.hooks[h])
               PROVE  Answered(session.hooks[h])
    BY DEF TurnInComplete
  <2> DEFINE hook == session.hooks[h]
  <2>1. /\ session.is_completion_started
        /\ HookShape(hook) /\ DueTriggered(session, hook)
        /\ FollowsCompletion(session, hook)
        /\ RequiredReflectionsAnswered(session)
        /\ hook.phase \in Phases /\ hook.carry_to_post \in BOOLEAN
    BY DEF IInv, Good, FinalizedIsDone, Expired, Sessions, HookStates
  <2>2. Triggered(hook)
    BY <2>1 DEF Owed, DueTriggered, FollowsCompletion, Phases
  <2>3. QED BY <2>1, <2>2 DEF RequiredReflectionsAnswered
<1>2. QED BY Invariance, <1>1, PTL

(* A session that still accepts turns is never one whose content expired.  *)
THEOREM ActiveIsReadableHolds == Spec => []ActiveIsReadable
<1>1. IInv => ActiveIsReadable
  BY DEF IInv, Good, ActiveIsReadable, Expired
<1>2. QED BY Invariance, <1>1, PTL

(* From a finalized document only the retention job and a restart step on. *)
LEMMA FinalizedStep ==
    ASSUME IInv, session.is_finalized, Next
    PROVE  \/ Expire
           \/ UNCHANGED <<session, deleted>>
<1>1. /\ Loaded.is_finalized = session.is_finalized
      /\ ~Loaded.is_active /\ ~session.is_active
  BY HydratedGood DEF IInv, Loaded, Good, FinalizedIsDone
<1>2. ~SubmitUserMessage /\ ~Close /\ ~Complete /\ ~Resume /\ ~TurnIn /\ ~Delete
  BY <1>1 DEF SubmitUserMessage, CanSubmit, Close, Complete, CanBeginCompletion,
              Resume, CanResume, TurnIn, CanTurnIn, Delete, CanDelete
<1>3. /\ \A h \in Hooks, r \in {"blank", "text"} : ~Reflect(h, r)
      /\ \A h \in Hooks : ~Postpone(h)
  BY <1>1 DEF Reflect, CanSaveReflection, Postpone, CanPostpone
<1>4. ~Interrupted(session, cached)
  BY <1>1 DEF Interrupted
<1>5. GetSession => UNCHANGED <<session, deleted>>
  BY <1>4 DEF GetSession, Save
<1>6. Restart => UNCHANGED <<session, deleted>>
  BY DEF Restart
<1>7. QED BY <1>2, <1>3, <1>5, <1>6 DEF Next

(* A finalized session is not deleted: delete_session refuses it, and a    *)
(* deleted one can no longer be turned in.                                 *)
FinalizedKept == session.is_finalized => ~deleted

LEMMA FinalizedKeptStep == IInv /\ FinalizedKept /\ [Next]_vars => FinalizedKept'
<1> SUFFICES ASSUME IInv, FinalizedKept, [Next]_vars PROVE FinalizedKept'
  OBVIOUS
<1>1. CASE UNCHANGED vars
  BY <1>1 DEF vars, FinalizedKept
<1>2. CASE Next /\ session.is_finalized
  <2>1. CASE Expire
    BY <1>2, <2>1 DEF Expire, FinalizedKept
  <2>2. QED BY <1>2, <2>1, FinalizedStep DEF FinalizedKept
<1>3. CASE Next /\ ~session.is_finalized /\ deleted
  BY <1>3 DEF Next, GetSession, SubmitUserMessage, Close, Complete, Resume, Reflect,
              Postpone, TurnIn, Delete, Expire, Restart, Save, FinalizedKept
<1>4. CASE Next /\ ~session.is_finalized /\ ~deleted
  <2>1. CASE Delete
    BY <1>4, <2>1 DEF Delete, FinalizedKept
  <2>2. CASE ~Delete
    <3>1. ~deleted'
      BY <1>4, <2>2 DEF Next, GetSession, SubmitUserMessage, Close, Complete, Resume,
                        Reflect, Postpone, TurnIn, Expire, Restart, Save
    <3>2. QED BY <3>1 DEF FinalizedKept
  <2>3. QED BY <2>1, <2>2
<1>5. QED BY <1>1, <1>2, <1>3, <1>4

(* Work that is turned in never changes again and is never deleted; only   *)
(* the retention job still removes its content.                            *)
THEOREM TurnedInStaysFrozen == Spec => TurnedInFrozen
<1> DEFINE Frozen == session.is_finalized =>
                        /\ ~deleted'
                        /\ Submission(session') = Submission(session)
                        /\ \/ session'.hooks = session.hooks
                           \/ session'.transcript_unavailable_reason = "content_expired"
<1>1. Init => FinalizedKept
  BY DEF Init, FinalizedKept
<1>2. IInv /\ FinalizedKept /\ [Next]_vars => [Frozen]_vars
  <2> SUFFICES ASSUME IInv, FinalizedKept, Next, session.is_finalized PROVE Frozen
    OBVIOUS
  <2>1. FinalizedKept'
    BY FinalizedKeptStep
  <2>2. CASE UNCHANGED <<session, deleted>>
    BY <2>2 DEF FinalizedKept
  <2>3. CASE Expire
    <3>1. CASE session' = session
      BY <2>3, <3>1 DEF Expire
    <3>2. CASE session.transcript_unavailable_reason # "content_expired"
      <4>1. session \in Sessions /\ session.hooks \in [Hooks -> HookStates]
        BY DEF IInv, Good, Sessions
      <4>2. session' = [session EXCEPT
                !.transcript_unavailable_reason = "content_expired",
                !.hooks = [h \in Hooks |-> [session.hooks[h] EXCEPT !.response = "none"]]]
        BY <2>3, <3>2 DEF Expire, ExpireContent
      <4>3. /\ session'.turn_count = session.turn_count
            /\ session'.is_active = session.is_active
            /\ session'.is_completion_started = session.is_completion_started
            /\ session'.is_finalized = session.is_finalized
            /\ session'.transcript_unavailable_reason = "content_expired"
            /\ \A h \in Hooks :
                  session'.hooks[h].trigger_source = session.hooks[h].trigger_source
        BY <4>1, <4>2 DEF Sessions, HookStates
      <4>4. Submission(session') = Submission(session)
        BY <4>3 DEF Submission
      <4>5. ~deleted'
        BY <2>3 DEF Expire
      <4>6. QED BY <4>3, <4>4, <4>5
    <3>3. QED BY <2>3, <3>1, <3>2 DEF Expire, ExpireContent
  <2>4. QED BY <2>2, <2>3, FinalizedStep
<1>3. QED
  BY Invariance, FinalizedKeptStep, <1>1, <1>2, PTL DEF Spec, TurnedInFrozen

(* What an operation saves has the turns of the stored document unless it  *)
(* consumes one.                                                           *)
LEMMA OnlySubmitCounts ==
    ASSUME IInv, Next, ~SubmitUserMessage
    PROVE  session'.turn_count = session.turn_count
<1>1. /\ session \in Sessions /\ Loaded \in Sessions
      /\ Loaded.turn_count = session.turn_count
  BY HydratedGood DEF IInv, Good, Loaded
<1>2. CASE GetSession
  BY <1>1, <1>2 DEF GetSession, Save
<1>3. CASE Close
  BY <1>1, <1>3 DEF Close, Save, CloseSession, Sessions
<1>4. CASE Complete
  BY <1>1, <1>4 DEF Complete, Save, BeginCompletion, TriggerCompletionReflections, Sessions
<1>5. CASE Resume
  BY <1>1, <1>5 DEF Resume, Save, ResumeAfterCompletion, ClearCompletionReflections, Sessions
<1>6. ASSUME NEW h \in Hooks, NEW r \in {"blank", "text"}, Reflect(h, r)
      PROVE  session'.turn_count = session.turn_count
  BY <1>1, <1>6 DEF Reflect, Save, SaveReflection, Sessions
<1>7. ASSUME NEW h \in Hooks, Postpone(h)
      PROVE  session'.turn_count = session.turn_count
  BY <1>1, <1>7 DEF Postpone, Save, PostponeReflection, Sessions
<1>8. CASE TurnIn
  BY <1>1, <1>8 DEF TurnIn, Save, TurnInSession, Sessions
<1>9. CASE Expire
  BY <1>1, <1>9 DEF Expire, ExpireContent, Sessions
<1>10. CASE Delete \/ Restart
  BY <1>10 DEF Delete, Restart
<1>11. QED
  BY <1>2, <1>3, <1>4, <1>5, <1>6, <1>7, <1>8, <1>9, <1>10 DEF Next

(* No step but a resume takes a trigger back.                              *)
LEMMA TriggersKept ==
    ASSUME IInv, Next, ~Resume, NEW h \in Hooks, Triggered(session.hooks[h])
    PROVE  Triggered(session'.hooks[h])
<1> DEFINE hook == session.hooks[h]
<1>1. /\ Good(session) /\ Loaded \in Sessions /\ Loaded.hooks = session.hooks
      /\ Loaded.hooks \in [Hooks -> HookStates] /\ hook \in HookStates
      /\ HookShape(hook)
  BY HydratedGood DEF IInv, Good, Loaded, Sessions
<1>2. CASE GetSession
  BY <1>1, <1>2 DEF GetSession, Save
<1>3. CASE SubmitUserMessage
  <2>1. Good(Loaded) /\ CanSubmit(Loaded)
    <3>1. session.is_active /\ CanSubmit(Loaded)
      BY <1>3, HydratedGood DEF SubmitUserMessage, CanSubmit, Loaded, IInv
    <3>2. ~session.is_finalized
      BY <1>1, <3>1 DEF Good, FinalizedIsDone
    <3>3. QED BY <3>1, <3>2, HydratedGood DEF IInv, Loaded
  <2>2. session' = CommitUserTurn(Loaded)
    BY <1>3 DEF SubmitUserMessage
  <2>3. QED BY <1>1, <2>1, <2>2, CommitTriggers
<1>4. CASE Close
  BY <1>1, <1>4 DEF Close, Save, CloseSession, Sessions
<1>5. CASE Complete
  <2>1. session'.hooks[h] = CompletionTriggered(hook)
    BY <1>1, <1>5 DEF Complete, Save, BeginCompletion, TriggerCompletionReflections, Sessions
  <2>2. QED BY <1>1, <2>1, CompletionTriggeredHook
<1>6. ASSUME NEW g \in Hooks, NEW r \in {"blank", "text"}, Reflect(g, r)
      PROVE  session'.hooks[h].trigger_source = hook.trigger_source
  BY <1>1, <1>6 DEF Reflect, Save, SaveReflection, Sessions, HookStates
<1>7. ASSUME NEW g \in Hooks, Postpone(g)
      PROVE  session'.hooks[h].trigger_source = hook.trigger_source
  BY <1>1, <1>7 DEF Postpone, Save, PostponeReflection, Sessions, HookStates
<1>8. CASE TurnIn
  BY <1>1, <1>8 DEF TurnIn, Save, TurnInSession, Sessions
<1>9. CASE Expire
  <2>1. session'.hooks[h].trigger_source = hook.trigger_source
    BY <1>1, <1>9 DEF Expire, ExpireContent, Good, Sessions, HookStates
  <2>2. QED BY <2>1 DEF Triggered
<1>10. CASE Delete \/ Restart
  BY <1>10 DEF Delete, Restart
<1>11. QED
  BY <1>2, <1>3, <1>4, <1>5, <1>6, <1>7, <1>8, <1>9, <1>10 DEF Next, Triggered

(* A resume takes back what completion triggered and nothing else.         *)
LEMMA ResumeWithdraws ==
    ASSUME IInv, Resume, NEW h \in Hooks,
           session.hooks[h].phase = "mid",
           Triggered(session.hooks[h]), ~Triggered(session'.hooks[h])
    PROVE  /\ session.hooks[h].trigger_source = "carry_to_post"
           /\ session.is_completion_started
           /\ ~session'.is_completion_started
<1>1. /\ Good(session) /\ Loaded \in Sessions /\ Loaded.hooks = session.hooks
      /\ HookShape(session.hooks[h]) /\ FollowsCompletion(session, session.hooks[h])
  BY HydratedGood DEF IInv, Good, Loaded
<1>2. session' = ResumeAfterCompletion(Loaded)
  BY DEF Resume, Save
<1>3. /\ session.hooks[h].trigger_source \notin CompletionSources =>
            session'.hooks[h] = session.hooks[h]
      /\ session'.is_completion_started = FALSE
  BY <1>1, <1>2 DEF ResumeAfterCompletion, ClearCompletionReflections, Sessions
<1>4. session.hooks[h].trigger_source \in CompletionSources
  BY <1>3
<1>5. session.hooks[h].trigger_source = "carry_to_post"
  BY <1>1, <1>4 DEF CompletionSources, HookShape
<1>6. session.is_completion_started
  BY <1>1, <1>4 DEF FollowsCompletion
<1>7. QED BY <1>3, <1>5, <1>6

(* A due mid reflection gates the turn: the trigger of an earlier turn is  *)
(* still there (DueTriggered), and _has_pending_mid_reflection asks for    *)
(* the answer, unless a resume took a carried one back.  That is the only  *)
(* way to lose a trigger, and the turn that passes triggers it again.      *)
THEOREM DueReflectionGates == Spec => DueReflectionGatesTurn
<1>1. ASSUME IInv, Next PROVE TurnGated
  <2>1. CASE ~SubmitUserMessage
    BY <1>1, <2>1, OnlySubmitCounts DEF IInv, Good, Sessions, TurnGated
  <2>2. CASE SubmitUserMessage
    <3> SUFFICES ASSUME NEW h \in Hooks,
                        session.hooks[h].phase = "mid",
                        session.hooks[h].trigger_turn <= session.turn_count
                 PROVE  LetsTurnPass(session.hooks[h])
      BY DEF TurnGated
    <3>1. Triggered(session.hooks[h]) \/ session.hooks[h].carry_to_post
      BY <1>1 DEF IInv, Good, DueTriggered
    <3>2. Loaded.hooks = session.hooks
      BY <1>1, HydratedGood DEF IInv, Loaded
    <3>3. ~PendingMid(session.hooks[h])
      BY <2>2, <3>2 DEF SubmitUserMessage, CanSubmit, HasPendingMidReflection
    <3>4. QED BY <3>1, <3>3 DEF PendingMid, LetsTurnPass
  <2>3. QED BY <2>1, <2>2
<1>2. ASSUME IInv, Next PROVE TurnTriggersDue
  <2>1. CASE ~SubmitUserMessage
    BY <1>2, <2>1, OnlySubmitCounts DEF IInv, Good, Sessions, TurnTriggersDue
  <2>2. CASE SubmitUserMessage
    <3>1. session.is_active /\ CanSubmit(Loaded) /\ session' = CommitUserTurn(Loaded)
      BY <1>2, <2>2, HydratedGood DEF SubmitUserMessage, CanSubmit, Loaded, IInv
    <3>2. ~session.is_finalized
      BY <1>2, <3>1 DEF IInv, Good, FinalizedIsDone
    <3>3. Good(Loaded)
      BY <1>2, <3>2, HydratedGood DEF IInv, Loaded
    <3>4. QED BY <3>1, <3>3, CommitTriggers DEF TurnTriggersDue
  <2>3. QED BY <2>1, <2>2
<1>3. ASSUME IInv, Next PROVE OnlyResumeWithdraws
  BY <1>3, TriggersKept, ResumeWithdraws DEF OnlyResumeWithdraws
<1>4. IInv /\ [Next]_vars => [TurnGated /\ TurnTriggersDue /\ OnlyResumeWithdraws]_vars
  BY <1>1, <1>2, <1>3
<1>5. QED
  BY Invariance, <1>4, PTL DEF Spec, DueReflectionGatesTurn

=============================================================================
