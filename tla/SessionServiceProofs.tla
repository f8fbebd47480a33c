------------------------ MODULE SessionServiceProofs ------------------------
(***************************************************************************)
(* Theorems about SessionService for any number of requests, messages,     *)
(* hooks and turns.  Two things make the interleaved service behave like   *)
(* atomic operations: the coroutine that holds the lock is the only one    *)
(* that consumes turns, and what it has loaded is the stored document      *)
(* (hydrated) for as long as the revision it has read is the stored one.   *)
(*                                                                         *)
(* A session that is deleted may come back (README, section 4).  For       *)
(* disabled logging a reader brings it back with the turns it has read,    *)
(* so the theorems leave out the combination of deletion and disabled      *)
(* logging.                                                                *)
(***************************************************************************)
EXTENDS SessionService, FiniteSetTheorems, TLAPS

NoRevival == "delete" \notin OperationNames \/ "disabled" \notin Policies

(***************************************************************************)
(* Types.                                                                  *)
(***************************************************************************)
Before == {"hydrate", "save_restart", "reread"}
Acting == {"decide", "infer", "save", "delete"}
After  == {"cache", "log", "save_log"}
Gone   == {"delete_cache", "delete_log"}

Rows == [present : BOOLEAN, revision : Nat, doc : Sessions, messages : Seq(MessageIds)]

\* A request that has not read the row, and one that has.
Asking == [pc : {"wait", "read"}, op : Operations]

Loaded ==
    [pc : Before \cup Acting \cup After \cup Gone \cup {"done"}, op : Operations,
     doc : Sessions, messages : Seq(MessageIds), revision : Nat]

Types ==
    /\ row \in Rows
    /\ cache \in Seq(MessageIds) \cup {NoCache}
    /\ log \in [present : BOOLEAN, available : BOOLEAN, turns : Nat, finalized : BOOLEAN]
    /\ lock \in Requests \cup {Nobody}
    /\ req \in [Requests -> {Idle} \cup Asking \cup Loaded]
    /\ cleaner \in {Idle} \cup [pc : {"save", "expire_log"}, doc : Sessions, revision : Nat]
    /\ deleted \in BOOLEAN
    /\ commits \in [MessageIds -> Nat]
    /\ acked \subseteq MessageIds

\* Who holds the lock, and what a coroutine is at.
Place(r, holds) ==
    /\ holds <=> r.pc \notin {"idle", "wait"} /\ r.op.name # "read"
    /\ r.pc # "idle" /\ r.op.name = "read" => r.pc \in Before \cup {"read", "decide"}

Rules(r) ==
    /\ r.pc = "save_restart" =>
            /\ Ephemeral(r.doc) /\ r.doc.turn_count > 0 /\ ~r.doc.is_active
            /\ r.doc.transcript_unavailable_reason = "server_restart"
    /\ r.pc \in {"infer", "save", "delete"} => ~AlreadyDone(r) /\ Allowed(r.op, r.doc)
    /\ r.pc = "infer" => r.op.name = "submit"
    /\ r.pc = "save" => r.op.name # "delete"
    /\ r.pc \in {"delete"} \cup Gone => r.op.name = "delete"
    /\ r.pc = "cache" => r.op.name = "submit" /\ Ephemeral(r.doc)
    /\ r.pc \in After => r.op.name # "delete"
    /\ r.pc = "save_log" => ~Ephemeral(r.doc)

---------------------------------------------------------------------------
(***************************************************************************)
(* What a coroutine knows.                                                 *)
(***************************************************************************)
\* The transcript of an interrupted session is lost and the closure stored.
Lost(w, c) ==
    /\ Ephemeral(w.doc) /\ c = NoCache
    /\ ~w.doc.is_active /\ w.doc.turn_count > 0
    /\ w.doc.transcript_unavailable_reason # "none"

Working(r) ==
    \/ r.pc \in Before \cup Acting \cup After
    \/ r.pc = "done" /\ r.op.name # "delete"

Transcript(w, c) ==
    IF ~Ephemeral(w.doc) THEN w.messages ELSE IF c # NoCache THEN c ELSE <<>>

\* The loaded document may be out of date only as to what readers and the
\* retention job have stored meanwhile.
Bounds(r, holds, w) ==
    /\ r.doc.logging_policy = w.doc.logging_policy
    /\ Ephemeral(w.doc) \/ (holds /\ Working(r)) =>
            r.revision <= w.revision /\ r.doc.turn_count <= w.doc.turn_count
    /\ holds /\ Working(r) =>
            /\ w.present /\ r.doc.turn_count = w.doc.turn_count
            /\ r.doc.is_finalized = w.doc.is_finalized

Hydrating(r, holds, w, c) ==
    r.pc = "hydrate" =>
        /\ (Ephemeral(w.doc) \/ holds) /\ r.revision = w.revision =>
                r.doc = w.doc /\ r.messages = w.messages
        /\ holds /\ r.revision # w.revision /\ r.doc.is_active => Lost(w, c)
        /\ Ephemeral(w.doc) /\ r.doc.turn_count = 0 => w.doc.turn_count = 0 \/ c # NoCache

Restarting(r, holds, w, c) ==
    /\ r.pc = "save_restart" =>
        /\ c = NoCache /\ r.messages = <<>>
        /\ r.revision = w.revision =>
                Interrupted(w.doc, FALSE) /\ r.doc = Hydrated(w.doc, FALSE)
        /\ holds /\ r.revision # w.revision => Lost(w, c)
    /\ r.pc = "reread" /\ holds => Lost(w, c)

\* A coroutine that acts has the stored document, hydrated, unless its save
\* will be refused; a document that takes turns is never out of date.
Deciding(r, holds, w, c) ==
    r.pc \in Acting /\ holds =>
        /\ r.revision = w.revision =>
                /\ r.doc = Hydrated(w.doc, c # NoCache)
                /\ r.messages = Transcript(w, c)
                /\ Ephemeral(w.doc) /\ w.doc.turn_count = 0 => c # NoCache
        /\ r.doc.is_active => r.revision = w.revision

Knows(r, holds, w, c) ==
    /\ Bounds(r, holds, w)
    /\ Hydrating(r, holds, w, c)
    /\ Restarting(r, holds, w, c)
    /\ Deciding(r, holds, w, c)
    /\ r.pc = "cache" => c # NoCache

Listed(k, w) ==
    k.pc = "save" =>
        /\ ~k.doc.is_active /\ ~w.doc.is_active
        /\ k.doc.logging_policy = w.doc.logging_policy
        /\ k.doc.turn_count = w.doc.turn_count
        /\ k.revision <= w.revision
        /\ k.revision = w.revision => k.doc = w.doc

\* The row: only deletion takes it away, and then for good, or expired.
Storage ==
    /\ row.doc.logging_policy \in Policies
    /\ row.present \/ deleted
    /\ deleted => "delete" \in OperationNames /\ ~Retained
    /\ RowExpired => ~row.doc.is_active
    /\ IF Ephemeral(row.doc) THEN row.messages = <<>> ELSE cache = NoCache

Consistent ==
    /\ \A q \in Requests :
        /\ Place(req[q], lock = q)
        /\ req[q] \in Loaded => Rules(req[q]) /\ Knows(req[q], lock = q, row, cache)
    /\ Listed(cleaner, row)
    /\ Storage
    /\ \A q \in Requests : req[q].pc \in Gone => deleted

IInv == Types /\ Consistent

---------------------------------------------------------------------------
(***************************************************************************)
(* Transcripts.                                                            *)
(***************************************************************************)
\* Every message in a transcript has consumed a turn.
Heard ==
    \A m \in MessageIds : commits[m] = 0 =>
        /\ ~Contains(row.messages, m)
        /\ cache # NoCache => ~Contains(cache, m)
        /\ \A q \in Requests : req[q] \in Loaded => ~Contains(req[q].messages, m)

Holds(messages, doc) ==
    /\ Len(messages) = doc.turn_count
    /\ \A m \in MessageIds : commits[m] > 0 => Contains(messages, m)

\* The transcript in memory is kept whole: no submission is cancelled
\* between its commit and the cache.
NoLoss == "disabled" \notin Policies \/ "cancel" \notin Faults

\* The transcript in memory holds every turn, or the coroutine does that is
\* about to store it there.
Remembered ==
    /\ row.doc.turn_count = 0 => \A m \in MessageIds : commits[m] = 0
    /\ cache # NoCache /\ (\A q \in Requests : req[q].pc # "cache") => Holds(cache, row.doc)
    /\ \A q \in Requests : req[q].pc = "cache" => Holds(req[q].messages, row.doc)

Transcripts ==
    /\ Retained => Holds(row.messages, row.doc)
    /\ NoLoss /\ Ephemeral(row.doc) => Remembered

Submitted ==
    /\ \A m \in acked : commits[m] > 0
    /\ \A q \in Requests :
        req[q].pc \in After \cup {"done"} /\ req[q].op.name = "submit" =>
            commits[req[q].op.message] > 0

TInv ==
    /\ Heard
    /\ Transcripts
    /\ Submitted
    /\ NoLoss \/ ~Ephemeral(row.doc) => AtMostOncePerMessage

---------------------------------------------------------------------------
(***************************************************************************)
(* The log and the deletion.                                               *)
(***************************************************************************)
LInv ==
    /\ AckedIsLogged
    /\ Retained => log.present
    /\ \A q \in Requests :
        req[q].pc = "done" /\ req[q].op.name # "delete" /\ Retained /\ log.available =>
            log.turns = row.doc.turn_count

\* No save can bring back the row of a deleted session.
Lasting ==
    "delete" \notin OperationNames \/ ("retention" \notin Faults /\ "disabled" \notin Policies)

\* Deletions that nothing disturbs: also the log write succeeds and the
\* process lives on.
Complete == {"retention", "restart", "log"} \cap Faults = {} /\ "disabled" \notin Policies

Removed ==
    /\ "retention" \notin Faults => CleanerIdle
    /\ deleted => ~row.present

DInv == deleted /\ log.present => \E q \in Requests : req[q].pc \in Gone

---------------------------------------------------------------------------
(***************************************************************************)
(* Documents.                                                              *)
(***************************************************************************)
LEMMA LessonHook ==
    ASSUME NEW n \in Nat, NEW hook \in LessonHooks(n), NEW limit \in Nat
    PROVE  /\ hook.phase \in Phases /\ hook.carry_to_post \in BOOLEAN
           /\ ResolveTriggerTurn(hook, limit) \in Nat
<1>1. CASE hook \in [phase : {"post"}, trigger_turn : {NoTrigger}, carry_to_post : {FALSE}]
  BY <1>1 DEF Phases, NoTrigger, ResolveTriggerTurn
<1>2. CASE hook \in [phase : {"mid"}, carry_to_post : BOOLEAN,
                     trigger_turn : {t \in NoTrigger .. n - 1 : n > 1}]
  <2>1. (limit + 1) \div 2 \in Nat
    OBVIOUS
  <2>. QED
    BY <1>2, <2>1 DEF Phases, NoTrigger, ResolveTriggerTurn
<1>. QED
  BY <1>1, <1>2 DEF LessonHooks

\* A new document, as create_session stores it.
LEMMA NewDocument ==
    ASSUME NEW lesson \in Lessons
    PROVE  LET s == NewSession(lesson) IN
           /\ s \in Sessions /\ s.turn_count = 0 /\ s.is_active
           /\ s.transcript_unavailable_reason = "none" /\ s.logging_policy \in Policies
<1>1. PICK n \in TurnLimits :
        lesson \in [turn_limit : {n}, logging_policy : Policies,
                    hooks : [Hooks -> LessonHooks(n)]]
  BY DEF Lessons
<1>2. /\ lesson.turn_limit \in Nat /\ lesson.logging_policy \in AllPolicies
      /\ lesson.logging_policy \in Policies
      /\ \A h \in Hooks : lesson.hooks[h] \in LessonHooks(n)
      /\ n \in Nat \ {0}
  BY <1>1, TurnLimitsAssumption, PoliciesAssumption
<1>3. ASSUME NEW h \in Hooks
      PROVE  /\ lesson.hooks[h].phase \in Phases
             /\ lesson.hooks[h].carry_to_post \in BOOLEAN
             /\ ResolveTriggerTurn(lesson.hooks[h], lesson.turn_limit) \in Nat
  BY <1>2, LessonHook
<1>. QED
  BY <1>2, <1>3 DEF NewSession, Sessions, HookStates, Sources, Responses, Reasons

\* Hydrating keeps what the row says of turns, policy and turning in, never
\* reopens a session, and closes one whose transcript is lost.
LEMMA HydratedDocument ==
    ASSUME NEW s \in Sessions, NEW c \in BOOLEAN
    PROVE  LET h == Hydrated(s, c) IN
           /\ h \in Sessions
           /\ h.turn_count = s.turn_count /\ h.logging_policy = s.logging_policy
           /\ h.is_finalized = s.is_finalized
           /\ h.is_active => s.is_active
           /\ s.is_active /\ ~Interrupted(s, c) => h.is_active
           /\ h.transcript_unavailable_reason = "content_expired" =>
                s.transcript_unavailable_reason = "content_expired"
           /\ Interrupted(s, c) =>
                ~h.is_active /\ h.transcript_unavailable_reason = "server_restart"
<1> DEFINE h == Hydrated(s, c)
<1>1. CASE ~Ephemeral(s)
  BY <1>1, s \in Sessions DEF Hydrated, Interrupted
<1>2. CASE Ephemeral(s) /\ (c \/ s.turn_count = 0)
  <2>1. h = [s EXCEPT !.transcript_unavailable_reason = "none"]
    BY <1>2 DEF Hydrated
  <2>. HIDE DEF h
  <2>2. h \in Sessions /\ h.transcript_unavailable_reason = "none"
        /\ h.turn_count = s.turn_count /\ h.logging_policy = s.logging_policy
        /\ h.is_finalized = s.is_finalized /\ h.is_active = s.is_active
    BY <2>1 DEF Sessions, Reasons
  <2>3. ~Interrupted(s, c)
    BY <1>2 DEF Interrupted, Sessions
  <2>. QED
    BY <2>2, <2>3 DEF h
<1>3. CASE Ephemeral(s) /\ ~c /\ s.turn_count # 0 /\ s.is_active
  <2>1. h = [s EXCEPT !.transcript_unavailable_reason = "server_restart", !.is_active = FALSE]
    BY <1>3 DEF Hydrated
  <2>. HIDE DEF h
  <2>2. h \in Sessions /\ h.transcript_unavailable_reason = "server_restart"
        /\ h.turn_count = s.turn_count /\ h.logging_policy = s.logging_policy
        /\ h.is_finalized = s.is_finalized /\ h.is_active = FALSE
    BY <2>1 DEF Sessions, Reasons
  <2>3. Interrupted(s, c)
    BY <1>3 DEF Interrupted, Sessions
  <2>. QED
    BY <2>2, <2>3 DEF h
<1>4. CASE Ephemeral(s) /\ ~c /\ s.turn_count # 0 /\ ~s.is_active
  <2>1. PICK reason \in Reasons :
          /\ h = [s EXCEPT !.transcript_unavailable_reason = reason]
          /\ reason = IF s.transcript_unavailable_reason = "none"
                      THEN "not_persisted" ELSE s.transcript_unavailable_reason
    BY <1>4 DEF Hydrated, Sessions, Reasons
  <2>. HIDE DEF h
  <2>2. h \in Sessions /\ h.transcript_unavailable_reason = reason
        /\ h.turn_count = s.turn_count /\ h.logging_policy = s.logging_policy
        /\ h.is_finalized = s.is_finalized /\ h.is_active = s.is_active
    BY <2>1 DEF Sessions
  <2>3. ~Interrupted(s, c)
    BY <1>4 DEF Interrupted
  <2>. QED
    BY <1>4, <2>1, <2>2, <2>3 DEF h
<1>. QED
  BY <1>1, <1>2, <1>3, <1>4

LEMMA HydratedPlain ==
    ASSUME NEW s, NEW c, ~Ephemeral(s)
    PROVE  Hydrated(s, c) = s /\ ~Interrupted(s, c)
BY DEF Hydrated, Interrupted

\* Nothing is lost of a session without turns.
LEMMA HydratedFresh ==
    ASSUME NEW s, s.turn_count = 0, NEW c, NEW d
    PROVE  Hydrated(s, c) = Hydrated(s, d)
BY DEF Hydrated

\* A document whose lost transcript is on record is hydrated already.
LEMMA HydratedLost ==
    ASSUME NEW s \in Sessions, Ephemeral(s), ~s.is_active, s.turn_count > 0,
           s.transcript_unavailable_reason # "none", NEW c, c = NoCache
    PROVE  Hydrated(s, c # NoCache) = s
<1>1. Hydrated(s, c # NoCache) =
        [s EXCEPT !.transcript_unavailable_reason = s.transcript_unavailable_reason]
  BY DEF Hydrated, Sessions
<1>. QED
  BY <1>1 DEF Sessions

LEMMA HydratedClosed ==
    ASSUME NEW s \in Sessions, Interrupted(s, FALSE), NEW c, c = NoCache
    PROVE  /\ Hydrated(s, c # NoCache) = Hydrated(s, FALSE)
           /\ Hydrated(s, FALSE).turn_count = s.turn_count
           /\ Hydrated(s, FALSE).logging_policy = s.logging_policy
           /\ Hydrated(s, FALSE).is_finalized = s.is_finalized
           /\ ~Hydrated(s, FALSE).is_active
<1>1. Ephemeral(s) /\ s.is_active /\ s.turn_count # 0
  BY DEF Interrupted, Sessions
<1>2. /\ Hydrated(s, FALSE) =
            [s EXCEPT !.transcript_unavailable_reason = "server_restart", !.is_active = FALSE]
      /\ Hydrated(s, c # NoCache) =
            [s EXCEPT !.transcript_unavailable_reason = "server_restart", !.is_active = FALSE]
  BY <1>1 DEF Hydrated
<1>. QED
  BY <1>2 DEF Sessions

LEMMA ExpiredDocument ==
    ASSUME NEW s \in Sessions
    PROVE  LET e == ExpireContent(s) IN
           /\ e \in Sessions
           /\ e.turn_count = s.turn_count /\ e.logging_policy = s.logging_policy
           /\ e.is_active = s.is_active /\ e.is_finalized = s.is_finalized
           /\ e.transcript_unavailable_reason = "content_expired"
<1>1. [h \in Hooks |-> [s.hooks[h] EXCEPT !.response = "none"]] \in [Hooks -> HookStates]
  BY DEF Sessions, HookStates, Responses
<1>. QED
  BY <1>1 DEF ExpireContent, Sessions, Reasons

LEMMA OperationKinds ==
    ASSUME NEW op \in Operations
    PROVE  /\ op.name \in OperationNames
           /\ op.name \in {"read", "submit", "close", "complete", "resume",
                           "reflect", "postpone", "turn_in", "delete"}
           /\ op.name = "submit" => op.message \in MessageIds
           /\ op.name \in {"reflect", "postpone"} => op.hook \in Hooks
           /\ op.name = "reflect" => op.response \in {"blank", "text"}
<1>1. CASE op \in [name : {"read", "close", "complete", "resume", "turn_in", "delete"}]
  BY <1>1 DEF Operations
<1>2. CASE op \in [name : {"submit"}, message : MessageIds]
  BY <1>2 DEF Operations
<1>3. CASE op \in [name : {"reflect"}, hook : Hooks, response : {"blank", "text"}]
  BY <1>3 DEF Operations
<1>4. CASE op \in [name : {"postpone"}, hook : Hooks]
  BY <1>4 DEF Operations
<1>. QED
  BY <1>1, <1>2, <1>3, <1>4 DEF Operations

\* A document with other hooks is a document.
LEMMA OtherHooks ==
    ASSUME NEW s \in Sessions, NEW hooks \in [Hooks -> HookStates]
    PROVE  LET t == [s EXCEPT !.hooks = hooks] IN
           /\ t \in Sessions
           /\ t.turn_count = s.turn_count /\ t.logging_policy = s.logging_policy
           /\ t.is_active = s.is_active
           /\ t.transcript_unavailable_reason = s.transcript_unavailable_reason
BY DEF Sessions

LEMMA CompletionHook ==
    ASSUME NEW hook \in HookStates
    PROVE  CompletionTriggered(hook) \in HookStates
<1>1. CASE Triggered(hook)
  BY <1>1 DEF CompletionTriggered, HookStates
<1>2. CASE ~Triggered(hook) /\ hook.phase = "post"
  BY <1>2 DEF CompletionTriggered, HookStates, Sources
<1>3. CASE ~Triggered(hook) /\ hook.phase = "mid" /\ hook.carry_to_post
  BY <1>3 DEF CompletionTriggered, HookStates, Sources
<1>4. CASE ~Triggered(hook) /\ hook.phase = "mid" /\ ~hook.carry_to_post
  BY <1>4 DEF CompletionTriggered
<1>. QED
  BY <1>1, <1>2, <1>3, <1>4 DEF HookStates, Phases

LEMMA CompletionHooksTriggered ==
    ASSUME NEW s \in Sessions
    PROVE  LET t == TriggerCompletionReflections(s) IN
           /\ t \in Sessions
           /\ t.turn_count = s.turn_count /\ t.logging_policy = s.logging_policy
           /\ t.is_active = s.is_active
           /\ t.transcript_unavailable_reason = s.transcript_unavailable_reason
<1>1. [h \in Hooks |-> CompletionTriggered(s.hooks[h])] \in [Hooks -> HookStates]
  BY CompletionHook DEF Sessions
<1>. QED
  BY <1>1, OtherHooks DEF TriggerCompletionReflections

\* The last turn closes the session; no turn opens it.
LEMMA CommittedDocument ==
    ASSUME NEW s \in Sessions
    PROVE  LET t == CommitUserTurn(s) IN
           /\ t \in Sessions
           /\ t.turn_count = s.turn_count + 1 /\ t.logging_policy = s.logging_policy
           /\ t.is_active => s.is_active
           /\ t.transcript_unavailable_reason = s.transcript_unavailable_reason
<1> DEFINE a == [s EXCEPT !.turn_count = s.turn_count + 1]
           b == TriggerMidReflections(a)
           c == [b EXCEPT !.is_completion_started = TRUE, !.is_active = FALSE]
<1>1. /\ a \in Sessions
      /\ a.turn_count = s.turn_count + 1 /\ a.logging_policy = s.logging_policy
      /\ a.is_active = s.is_active
      /\ a.transcript_unavailable_reason = s.transcript_unavailable_reason
  BY DEF Sessions
<1>2. CommitUserTurn(s) = ReachTurnLimit(b)
  BY DEF CommitUserTurn
<1>. HIDE DEF a
<1>3. [h \in Hooks |->
          IF DueMid(a.hooks[h], a)
          THEN [a.hooks[h] EXCEPT !.trigger_source = "mid_turn"]
          ELSE a.hooks[h]] \in [Hooks -> HookStates]
  <2>1. ASSUME NEW k \in HookStates
        PROVE  [k EXCEPT !.trigger_source = "mid_turn"] \in HookStates
    BY DEF HookStates, Sources
  <2>. QED
    BY <1>1, <2>1 DEF Sessions
<1>4. /\ b \in Sessions
      /\ b.turn_count = s.turn_count + 1 /\ b.logging_policy = s.logging_policy
      /\ b.is_active = s.is_active
      /\ b.transcript_unavailable_reason = s.transcript_unavailable_reason
  BY <1>1, <1>3, OtherHooks DEF TriggerMidReflections
<1>. HIDE DEF b
<1>5. /\ c \in Sessions
      /\ c.turn_count = s.turn_count + 1 /\ c.logging_policy = s.logging_policy
      /\ c.is_active = FALSE
      /\ c.transcript_unavailable_reason = s.transcript_unavailable_reason
  BY <1>4 DEF Sessions
<1>6. CASE b.turn_count >= b.max_turns
  <2>1. ReachTurnLimit(b) = TriggerCompletionReflections(c)
    BY <1>6 DEF ReachTurnLimit
  <2>. HIDE DEF c
  <2>. QED
    BY <1>2, <1>5, <2>1, CompletionHooksTriggered
<1>7. CASE ~(b.turn_count >= b.max_turns)
  <2>1. ReachTurnLimit(b) = b
    BY <1>7 DEF ReachTurnLimit
  <2>. QED
    BY <1>2, <1>4, <2>1
<1>. QED
  BY <1>6, <1>7

LEMMA ReflectedDocument ==
    ASSUME NEW s \in Sessions, NEW h \in Hooks, NEW r \in Responses
    PROVE  LET t == SaveReflection(s, h, r) IN
           /\ t \in Sessions
           /\ t.turn_count = s.turn_count /\ t.logging_policy = s.logging_policy
           /\ t.is_active = s.is_active
           /\ t.transcript_unavailable_reason = s.transcript_unavailable_reason
<1>1. s.hooks \in [Hooks -> HookStates]
  BY DEF Sessions
<1>2. SaveReflection(s, h, r) =
        [s EXCEPT !.hooks[h] = [@ EXCEPT !.response = r, !.postponed = FALSE]]
  BY <1>1 DEF SaveReflection, Sessions, HookStates
<1>3. [s.hooks[h] EXCEPT !.response = r, !.postponed = FALSE] \in HookStates
  BY <1>1 DEF HookStates
<1>. QED
  BY <1>1, <1>2, <1>3 DEF Sessions

LEMMA PostponedDocument ==
    ASSUME NEW s \in Sessions, NEW h \in Hooks
    PROVE  LET t == PostponeReflection(s, h) IN
           /\ t \in Sessions
           /\ t.turn_count = s.turn_count /\ t.logging_policy = s.logging_policy
           /\ t.is_active = s.is_active
           /\ t.transcript_unavailable_reason = s.transcript_unavailable_reason
<1>1. s.hooks \in [Hooks -> HookStates]
  BY DEF Sessions
<1>2. PostponeReflection(s, h) = [s EXCEPT !.hooks[h] = [@ EXCEPT !.postponed = TRUE]]
  BY <1>1 DEF PostponeReflection
<1>3. [s.hooks[h] EXCEPT !.postponed = TRUE] \in HookStates
  BY <1>1 DEF HookStates
<1>. QED
  BY ZenonT(60), <1>1, <1>2, <1>3 DEF Sessions

\* An operation consumes a turn exactly when it is a submission, reopens
\* nothing, and leaves the policy and the expiry alone.
LEMMA EffectDocument ==
    ASSUME NEW op \in Operations, op.name \notin {"read", "delete"}, NEW s \in Sessions
    PROVE  LET t == Effect(op, s) IN
           /\ t \in Sessions
           /\ t.turn_count = IF op.name = "submit" THEN s.turn_count + 1 ELSE s.turn_count
           /\ t.logging_policy = s.logging_policy
           /\ t.is_active => s.is_active
           /\ t.transcript_unavailable_reason = s.transcript_unavailable_reason
<1>1. CASE op.name = "submit"
  BY <1>1, CommittedDocument DEF Effect
<1>2. CASE op.name = "close"
  <2>1. Effect(op, s) = [s EXCEPT !.is_active = FALSE]
    BY <1>2 DEF Effect, CloseSession
  <2>. QED
    BY <1>2, <2>1 DEF Sessions
<1>3. CASE op.name = "complete"
  <2>. DEFINE a == [s EXCEPT !.is_completion_started = TRUE]
  <2>1. Effect(op, s) = TriggerCompletionReflections(a)
    BY <1>3 DEF Effect, BeginCompletion
  <2>2. /\ a \in Sessions
        /\ a.turn_count = s.turn_count /\ a.logging_policy = s.logging_policy
        /\ a.is_active = s.is_active
        /\ a.transcript_unavailable_reason = s.transcript_unavailable_reason
    BY DEF Sessions
  <2>. HIDE DEF a
  <2>. QED
    BY <1>3, <2>1, <2>2, CompletionHooksTriggered
<1>4. CASE op.name = "resume"
  <2>. DEFINE a == [s EXCEPT !.is_completion_started = FALSE]
  <2>1. Effect(op, s) = ClearCompletionReflections(a)
    BY <1>4 DEF Effect, ResumeAfterCompletion
  <2>2. /\ a \in Sessions
        /\ a.turn_count = s.turn_count /\ a.logging_policy = s.logging_policy
        /\ a.is_active = s.is_active
        /\ a.transcript_unavailable_reason = s.transcript_unavailable_reason
    BY DEF Sessions
  <2>. HIDE DEF a
  <2>3. [h \in Hooks |->
          IF a.hooks[h].trigger_source \in CompletionSources
          THEN [a.hooks[h] EXCEPT !.trigger_source = "none",
                                  !.postponed = FALSE, !.response = "none"]
          ELSE a.hooks[h]] \in [Hooks -> HookStates]
    <3>1. ASSUME NEW k \in HookStates
          PROVE  [k EXCEPT !.trigger_source = "none", !.postponed = FALSE,
                           !.response = "none"] \in HookStates
      BY DEF HookStates, Sources, Responses
    <3>. QED
      BY <2>2, <3>1 DEF Sessions
  <2>. DEFINE t == ClearCompletionReflections(a)
  <2>4. /\ t \in Sessions
        /\ t.turn_count = a.turn_count /\ t.logging_policy = a.logging_policy
        /\ t.is_active = a.is_active
        /\ t.transcript_unavailable_reason = a.transcript_unavailable_reason
    BY <2>2, <2>3, OtherHooks DEF ClearCompletionReflections
  <2>. HIDE DEF t
  <2>. QED
    BY <1>4, <2>1, <2>2, <2>4 DEF t
<1>5. CASE op.name = "reflect"
  <2>1. op.hook \in Hooks /\ op.response \in Responses
    BY <1>5, OperationKinds DEF Responses
  <2>2. Effect(op, s) = SaveReflection(s, op.hook, op.response)
    BY <1>5 DEF Effect
  <2>. QED
    BY <1>5, <2>1, <2>2, ReflectedDocument
<1>6. CASE op.name = "postpone"
  <2>1. Effect(op, s) = PostponeReflection(s, op.hook)
    BY <1>6 DEF Effect
  <2>. QED
    BY <1>6, <2>1, PostponedDocument, OperationKinds
<1>7. CASE op.name = "turn_in"
  <2>1. Effect(op, s) = [s EXCEPT !.is_finalized = TRUE, !.is_active = FALSE]
    BY <1>7 DEF Effect, TurnInSession
  <2>. QED
    BY <1>7, <2>1 DEF Sessions
<1>. QED
  BY <1>1, <1>2, <1>3, <1>4, <1>5, <1>6, <1>7, OperationKinds

---------------------------------------------------------------------------
(***************************************************************************)
(* One coroutine moves.                                                    *)
(***************************************************************************)
LEMMA NoCacheIsNone == NoCache \notin Seq(MessageIds)
<1>1. Len(NoCache) = 1 /\ NoCache[1] = "no cache"
  BY DEF NoCache
<1>2. \A s \in Seq(MessageIds) : Len(s) = 1 => s[1] \in MessageIds
  OBVIOUS
<1>. QED
  BY <1>1, <1>2, NamesAssumption

LEMMA Kinds ==
    ASSUME NEW r \in {Idle} \cup Asking \cup Loaded
    PROVE  /\ r = Idle <=> r.pc = "idle"
           /\ r \in Asking <=> r.pc \in {"wait", "read"}
           /\ r \in Loaded <=> r.pc \notin {"idle", "wait", "read"}
<1>1. CASE r = Idle
  BY <1>1 DEF Idle, Asking, Loaded, Before, Acting, After, Gone
<1>2. CASE r \in Asking
  <2>1. r.pc \in {"wait", "read"}
    BY <1>2 DEF Asking
  <2>. QED
    BY <1>2, <2>1 DEF Idle, Asking, Loaded, Before, Acting, After, Gone
<1>3. CASE r \in Loaded
  <2>1. r.pc \notin {"idle", "wait", "read"}
    BY <1>3 DEF Loaded, Before, Acting, After, Gone
  <2>. QED
    BY <1>3, <2>1 DEF Idle, Asking, Loaded
<1>. QED
  BY <1>1, <1>2, <1>3

\* What has to be shown of a step of q.
LEMMA OneMoves ==
    ASSUME Types, Consistent, Types', NEW q \in Requests,
           \A p \in Requests \ {q} :
                /\ req'[p] = req[p] /\ (lock' = p <=> lock = p)
                /\ req[p] \in Loaded => Knows(req[p], lock = p, row', cache'),
           Place(req'[q], lock' = q),
           req'[q] \in Loaded => Rules(req'[q]) /\ Knows(req'[q], lock' = q, row', cache'),
           Listed(cleaner', row'), Storage',
           deleted => deleted', req'[q].pc \in Gone => deleted'
    PROVE  Consistent'
<1>1. ASSUME NEW p \in Requests, p # q
      PROVE  /\ Place(req'[p], lock' = p)
             /\ req'[p] \in Loaded => Rules(req'[p]) /\ Knows(req'[p], lock' = p, row', cache')
             /\ req'[p].pc \in Gone => deleted'
  <2>1. /\ Place(req[p], lock = p)
        /\ req[p] \in Loaded => Rules(req[p])
        /\ req[p].pc \in Gone => deleted
    BY DEF Consistent
  <2>2. req'[p] = req[p] /\ (lock' = p <=> lock = p)
    BY <1>1
  <2>3. Place(req'[p], lock' = p)
    BY <2>1, <2>2 DEF Place
  <2>4. req[p] \in Loaded => Knows(req[p], lock' = p, row', cache')
    <3>1. CASE lock = p
      BY <1>1, <2>2, <3>1
    <3>2. CASE lock # p
      BY <1>1, <2>2, <3>2
    <3>. QED
      BY <3>1, <3>2
  <2>. QED
    BY <2>1, <2>2, <2>3, <2>4
<1>. QED
  BY <1>1 DEF Consistent

\* A step that leaves the row and the cache alone.
LEMMA QuietMove ==
    ASSUME Types, Consistent, NEW q \in Requests,
           NEW r \in {Idle} \cup Asking \cup Loaded, req' = [req EXCEPT ![q] = r],
           \A p \in Requests \ {q} : lock' = p <=> lock = p,
           Place(r, lock' = q),
           r \in Loaded => Rules(r) /\ Knows(r, lock' = q, row, cache),
           r.pc \in Gone => deleted,
           row' = row, cache' = cache, cleaner' = cleaner, deleted' = deleted,
           lock' \in Requests \cup {Nobody},
           log' \in [present : BOOLEAN, available : BOOLEAN, turns : Nat, finalized : BOOLEAN],
           commits' = commits, acked' \subseteq MessageIds
    PROVE  Types' /\ Consistent'
<1>1. /\ req'[q] = r /\ \A p \in Requests \ {q} : req'[p] = req[p]
      /\ req' \in [Requests -> {Idle} \cup Asking \cup Loaded]
  BY DEF Types
<1>2. Types'
  BY <1>1 DEF Types
<1>3. \A p \in Requests \ {q} :
        req[p] \in Loaded => Knows(req[p], lock = p, row', cache')
  BY DEF Consistent
<1>4. Listed(cleaner', row') /\ Storage'
  <2>1. Retained' <=> Retained
    BY DEF Retained, RowExpired
  <2>. QED
    BY <2>1 DEF Consistent, Storage, RowExpired
<1>. QED
  BY <1>1, <1>2, <1>3, <1>4, OneMoves

\* A request ends.
LEMMA FinishMove ==
    ASSUME Types, Consistent, NEW q \in Requests, Finish(q),
           row' = row, cache' = cache, log' = log, cleaner' = cleaner,
           deleted' = deleted, commits' = commits, acked' \subseteq MessageIds
    PROVE  Types' /\ Consistent'
<1>1. req' = [req EXCEPT ![q] = Idle] /\ lock' = IF lock = q THEN Nobody ELSE lock
  BY DEF Finish
<1>2. Nobody # q /\ Nobody \notin Requests
  BY NamesAssumption
<1>3. /\ \A p \in Requests \ {q} : lock' = p <=> lock = p
      /\ lock' # q /\ lock' \in Requests \cup {Nobody}
  BY <1>1, <1>2 DEF Types
<1>4. Idle \notin Loaded /\ Idle.pc = "idle"
  BY DEF Idle, Loaded, Before, Acting, After, Gone
<1>5. Place(Idle, lock' = q) /\ Idle.pc \notin Gone
  BY <1>3, <1>4 DEF Place, Gone
<1>6. log' \in [present : BOOLEAN, available : BOOLEAN, turns : Nat, finalized : BOOLEAN]
  BY DEF Types
<1>. QED
  BY <1>1, <1>3, <1>4, <1>5, <1>6, QuietMove

\* A loaded coroutine goes on to pc with what it has.
LEMMA LoadedGoto ==
    ASSUME Types, Consistent, NEW q \in Requests, req[q] \in Loaded,
           NEW pc \in Before \cup Acting \cup After \cup Gone \cup {"done"}
    PROVE  LET r == [req[q] EXCEPT !.pc = pc] IN
           /\ r \in Loaded /\ r.pc = pc /\ r.op = req[q].op /\ r.doc = req[q].doc
           /\ r.messages = req[q].messages /\ r.revision = req[q].revision
BY DEF Loaded

---------------------------------------------------------------------------
(***************************************************************************)
(* Steps that leave the row and the cache alone.                           *)
(***************************************************************************)
LEMMA StartConsistent ==
    ASSUME Types, Consistent, NEW q \in Requests, Start(q)
    PROVE  Types' /\ Consistent'
<1>1. PICK op \in Operations : req' = [req EXCEPT ![q] = Loading(op)]
  BY DEF Start
<1>. DEFINE r == Loading(op)
<1>2. /\ r \in Asking /\ r.op = op
      /\ r.pc = IF op.name = "read" THEN "read" ELSE "wait"
  BY DEF Loading, Asking
<1>. HIDE DEF r
<1>3. /\ lock' = lock /\ row' = row /\ cache' = cache /\ log' = log /\ cleaner' = cleaner
      /\ deleted' = deleted /\ commits' = commits /\ acked' = acked
  BY DEF Start, histories
<1>4. Place(req[q], lock = q) /\ req[q].pc = "idle"
  BY DEF Consistent, Start
<1>5. Place(r, lock' = q) /\ r.pc \notin Gone /\ r \notin Loaded
  BY <1>2, <1>3, <1>4, Kinds DEF Place, Gone
<1>6. /\ lock' \in Requests \cup {Nobody} /\ acked' \subseteq MessageIds
      /\ log' \in [present : BOOLEAN, available : BOOLEAN, turns : Nat, finalized : BOOLEAN]
  BY <1>3 DEF Types
<1>. QED
  BY <1>1, <1>2, <1>3, <1>5, <1>6, QuietMove DEF r

LEMMA AcquireConsistent ==
    ASSUME Types, Consistent, NEW q \in Requests, Acquire(q)
    PROVE  Types' /\ Consistent'
<1>1. /\ req[q].pc = "wait" /\ lock = Nobody /\ lock' = q
      /\ req' = [req EXCEPT ![q].pc = "read"]
      /\ row' = row /\ cache' = cache /\ log' = log /\ cleaner' = cleaner
      /\ deleted' = deleted /\ commits' = commits /\ acked' = acked
  BY DEF Acquire, Goto, histories
<1>2. req[q] \in Asking /\ Place(req[q], FALSE)
  BY <1>1, Kinds, NamesAssumption DEF Types, Consistent
<1>. DEFINE r == [req[q] EXCEPT !.pc = "read"]
<1>3. r \in Asking /\ r.pc = "read" /\ r.op = req[q].op
  BY <1>2 DEF Asking
<1>4. req' = [req EXCEPT ![q] = r]
  BY <1>1 DEF Types
<1>. HIDE DEF r
<1>5. Place(r, lock' = q) /\ r.pc \notin Gone /\ r \notin Loaded
  BY <1>1, <1>2, <1>3, Kinds DEF Place, Before, Gone
<1>6. /\ lock' \in Requests \cup {Nobody} /\ acked' \subseteq MessageIds
      /\ log' \in [present : BOOLEAN, available : BOOLEAN, turns : Nat, finalized : BOOLEAN]
      /\ \A p \in Requests \ {q} : lock' = p <=> lock = p
  BY <1>1, NamesAssumption DEF Types
<1>. QED
  BY <1>1, <1>3, <1>4, <1>5, <1>6, QuietMove

\* What a coroutine has just read is up to date.
LEMMA ReadConsistent ==
    ASSUME Types, Consistent, NEW q \in Requests, Read(q)
    PROVE  Types' /\ Consistent'
<1>. DEFINE r == [pc |-> "hydrate", op |-> req[q].op, doc |-> row.doc,
                  messages |-> row.messages, revision |-> row.revision]
<1>1. /\ req[q].pc = "read" /\ row.present
      /\ req' = [req EXCEPT ![q] = r]
      /\ lock' = lock /\ row' = row /\ cache' = cache /\ log' = log /\ cleaner' = cleaner
      /\ deleted' = deleted /\ commits' = commits /\ acked' = acked
  BY DEF Read, histories
<1>2. req[q] \in Asking /\ Place(req[q], lock = q)
  BY <1>1, Kinds DEF Types, Consistent
<1>3. /\ r \in Loaded /\ r.pc = "hydrate" /\ r.op = req[q].op /\ r.doc = row.doc
      /\ r.messages = row.messages /\ r.revision = row.revision
  BY <1>2 DEF Asking, Loaded, Before, Types, Rows
<1>. HIDE DEF r
<1>4. Place(r, lock' = q) /\ r.pc \notin Gone
  BY <1>1, <1>2, <1>3 DEF Place, Before, Gone
<1>5. Rules(r)
  BY <1>3 DEF Rules, After, Gone
<1>6. row.revision \in Nat /\ row.doc.turn_count \in Nat
  BY DEF Types, Rows, Sessions
<1>7. Knows(r, lock' = q, row, cache)
  BY <1>1, <1>3, <1>6 DEF Knows, Bounds, Hydrating, Restarting, Deciding, Acting
<1>8. /\ lock' \in Requests \cup {Nobody} /\ acked' \subseteq MessageIds
      /\ log' \in [present : BOOLEAN, available : BOOLEAN, turns : Nat, finalized : BOOLEAN]
  BY <1>1 DEF Types
<1>. QED
  BY <1>1, <1>3, <1>4, <1>5, <1>7, <1>8, QuietMove

\* Lock and row stay; the coroutine goes on with what it has loaded.
LEMMA GotoConsistent ==
    ASSUME Types, Consistent, NEW q \in Requests, req[q] \in Loaded,
           NEW pc \in Acting \cup After \cup {"reread", "done"}, Goto(q, pc),
           UNCHANGED <<row, cache, lock, cleaner, deleted, commits, acked>>,
           log' \in [present : BOOLEAN, available : BOOLEAN, turns : Nat, finalized : BOOLEAN],
           req[q].pc \in Before \cup Acting \cup After \cup Gone,
           lock = q \/ pc \in {"reread", "decide"},
           pc = "reread" => req[q].pc = "save_restart" /\ req[q].revision # row.revision,
           pc \in Acting => req[q].pc \in Acting,
           pc = "done" /\ req[q].op.name # "delete" => req[q].pc \notin Gone,
           Rules([req[q] EXCEPT !.pc = pc]), pc # "cache"
    PROVE  Types' /\ Consistent'
<1>. DEFINE r == [req[q] EXCEPT !.pc = pc]
<1>1. req' = [req EXCEPT ![q] = r]
  BY DEF Goto, Types
<1>2. /\ r \in Loaded /\ r.pc = pc /\ r.op = req[q].op /\ r.doc = req[q].doc
      /\ r.messages = req[q].messages /\ r.revision = req[q].revision
  <2>1. pc \in Before \cup Acting \cup After \cup Gone \cup {"done"}
    BY DEF Before
  <2>. QED
    BY <2>1, LoadedGoto
<1>3. Rules(r)
  OBVIOUS
<1>. HIDE DEF r
<1>4. /\ Place(req[q], lock = q) /\ Rules(req[q]) /\ Knows(req[q], lock = q, row, cache)
  BY DEF Consistent
<1>5. Place(r, lock' = q)
  BY <1>2, <1>4 DEF Place, Before, Acting, After, Gone
<1>6. Knows(r, lock' = q, row, cache)
  <2>1. Working(r) => Working(req[q])
    BY <1>2, <1>4 DEF Working, Rules, Before, Acting, After, Gone
  <2>2. Bounds(r, lock' = q, row)
    BY <1>2, <1>4, <2>1 DEF Knows, Bounds
  <2>3. Hydrating(r, lock' = q, row, cache)
    BY <1>2 DEF Hydrating, Acting, After
  <2>4. Restarting(r, lock' = q, row, cache)
    BY <1>2, <1>4 DEF Restarting, Knows, Acting, After
  <2>5. Deciding(r, lock' = q, row, cache)
    BY <1>2, <1>4 DEF Deciding, Knows
  <2>. QED
    BY <1>2, <2>2, <2>3, <2>4, <2>5 DEF Knows
<1>7. r.pc \notin Gone
  BY <1>2 DEF Gone, Acting, After
<1>8. lock' \in Requests \cup {Nobody} /\ acked' \subseteq MessageIds
  BY DEF Types
<1>. QED
  BY <1>1, <1>2, <1>3, <1>5, <1>6, <1>7, <1>8, QuietMove

LEMMA FinishesConsistent ==
    ASSUME Types, Consistent, NEW q \in Requests,
           \/ ReadMissing(q) \/ InferenceFails(q) \/ SaveConflict(q)
           \/ LogFails(q) \/ Respond(q) \/ Cancel(q)
    PROVE  Types' /\ Consistent'
<1>1. /\ Finish(q) /\ row' = row /\ cache' = cache /\ log' = log /\ cleaner' = cleaner
      /\ deleted' = deleted /\ commits' = commits
  BY DEF ReadMissing, InferenceFails, SaveConflict, LogFails, Respond, Cancel, histories
<1>2. acked' \subseteq MessageIds
  <2>1. CASE Respond(q)
    <3>1. req[q] \in Loaded
      BY <2>1, Kinds DEF Respond, Types
    <3>2. req[q].op \in Operations
      BY <3>1 DEF Loaded
    <3>. QED
      BY <2>1, <3>2, OperationKinds DEF Respond, Types
  <2>2. CASE ~Respond(q)
    BY <2>2 DEF ReadMissing, InferenceFails, SaveConflict, LogFails, Cancel, histories, Types
  <2>. QED
    BY <2>1, <2>2
<1>. QED
  BY <1>1, <1>2, FinishMove

\* Reading again after a lost restart update: the closure is stored by then.
LEMMA RereadConsistent ==
    ASSUME Types, Consistent, NEW q \in Requests, Reread(q)
    PROVE  Types' /\ Consistent'
<1>. DEFINE r == [req[q] EXCEPT !.doc = row.doc, !.messages = row.messages,
                                !.revision = row.revision, !.pc = "decide"]
<1>1. /\ req[q].pc = "reread" /\ row.present
      /\ req' = [req EXCEPT ![q] = r]
      /\ lock' = lock /\ row' = row /\ cache' = cache /\ log' = log /\ cleaner' = cleaner
      /\ deleted' = deleted /\ commits' = commits /\ acked' = acked
  BY DEF Reread, histories, Types
<1>2. req[q] \in Loaded
  BY <1>1, Kinds DEF Types
<1>3. /\ Place(req[q], lock = q) /\ Rules(req[q]) /\ Knows(req[q], lock = q, row, cache)
  BY <1>2 DEF Consistent
<1>4. /\ r \in Loaded /\ r.pc = "decide" /\ r.op = req[q].op /\ r.doc = row.doc
      /\ r.messages = row.messages /\ r.revision = row.revision
  BY <1>2 DEF Loaded, Acting, Types, Rows
<1>. HIDE DEF r
<1>5. Place(r, lock' = q) /\ r.pc \notin Gone
  BY <1>1, <1>3, <1>4 DEF Place, Before, Gone
<1>6. Rules(r)
  BY <1>4 DEF Rules, After, Gone
<1>7. row.revision \in Nat /\ row.doc.turn_count \in Nat /\ row.doc \in Sessions
  BY DEF Types, Rows, Sessions
<1>8. Deciding(r, lock' = q, row, cache)
  <2>. SUFFICES ASSUME lock = q
                PROVE  Deciding(r, TRUE, row, cache)
    BY <1>1 DEF Deciding
  <2>1. Lost(row, cache)
    BY <1>1, <1>3 DEF Knows, Restarting
  <2>2. Hydrated(row.doc, cache # NoCache) = row.doc /\ cache = NoCache
    BY <1>7, <2>1, HydratedLost DEF Lost
  <2>3. row.messages = Transcript(row, cache)
    BY <2>1 DEF Lost, Transcript, Consistent, Storage
  <2>. QED
    BY <1>4, <2>1, <2>2, <2>3 DEF Deciding, Lost
<1>9. Knows(r, lock' = q, row, cache)
  BY <1>1, <1>4, <1>7, <1>8 DEF Knows, Bounds, Hydrating, Restarting
<1>10. /\ lock' \in Requests \cup {Nobody} /\ acked' \subseteq MessageIds
       /\ log' \in [present : BOOLEAN, available : BOOLEAN, turns : Nat, finalized : BOOLEAN]
  BY <1>1 DEF Types
<1>. QED
  BY <1>1, <1>4, <1>5, <1>6, <1>9, <1>10, QuietMove

\* A call that is let through has not been done before, and may be done.
LEMMA DecideConsistent ==
    ASSUME Types, Consistent, NEW q \in Requests, Decide(q)
    PROVE  Types' /\ Consistent'
<1>. DEFINE o == req[q]
<1>1. /\ o.pc = "decide" /\ row' = row /\ cache' = cache /\ log' = log /\ cleaner' = cleaner
      /\ deleted' = deleted /\ commits' = commits /\ acked' = acked
  BY DEF Decide, histories
<1>2. o \in Loaded
  BY <1>1, Kinds DEF Types
<1>3. /\ Place(o, lock = q) /\ Rules(o) /\ Knows(o, lock = q, row, cache)
  BY <1>2 DEF Consistent
<1>4. o.op \in Operations /\ o.doc \in Sessions
  BY <1>2 DEF Loaded
<1>5. log' \in [present : BOOLEAN, available : BOOLEAN, turns : Nat, finalized : BOOLEAN]
  BY <1>1 DEF Types
<1>6. CASE AlreadyDone(o)
  <2>1. Goto(q, "log") /\ lock' = lock
    BY <1>6 DEF Decide
  <2>2. o.op.name \in {"submit", "close", "turn_in"}
    BY <1>6 DEF AlreadyDone, Committed
  <2>3. lock = q
    BY <1>1, <1>3, <2>2 DEF Place
  <2>. DEFINE r == [o EXCEPT !.pc = "log"]
  <2>4. r.pc = "log" /\ r.op = o.op
    BY <1>2, LoadedGoto DEF After
  <2>5. Rules(r)
    <3>. HIDE DEF r, o
    <3>. QED
      BY <2>2, <2>4 DEF Rules, Gone
  <2>. QED
    BY <1>1, <1>2, <1>5, <2>1, <2>3, <2>5, GotoConsistent DEF Acting, After
<1>7. CASE ~AlreadyDone(o) /\ ~Allowed(o.op, o.doc)
  <2>1. Finish(q)
    BY <1>7 DEF Decide
  <2>. QED
    BY <1>1, <2>1, FinishMove DEF Types
<1>8. CASE ~AlreadyDone(o) /\ Allowed(o.op, o.doc)
  <2>. DEFINE pc == CASE o.op.name = "submit" -> "infer"
                      [] o.op.name = "delete" -> "delete"
                      [] OTHER -> "save"
              r == [o EXCEPT !.pc = pc]
  <2>1. Goto(q, pc) /\ lock' = lock
    BY <1>8 DEF Decide
  <2>2. o.op.name # "read"
    BY <1>8 DEF Allowed
  <2>3. lock = q
    BY <1>1, <1>3, <2>2 DEF Place
  <2>4. /\ pc \in {"infer", "delete", "save"}
        /\ pc = "infer" => o.op.name = "submit"
        /\ pc = "delete" <=> o.op.name = "delete"
    OBVIOUS
  <2>. HIDE DEF pc
  <2>5. /\ r.pc = pc /\ r.op = o.op /\ r.doc = o.doc /\ r.messages = o.messages
    BY <1>2, <2>4, LoadedGoto DEF Acting
  <2>6. Rules(r)
    <3>1. AlreadyDone(r) <=> AlreadyDone(o)
      <4>. HIDE DEF r, o
      <4>. QED
        BY <2>5 DEF AlreadyDone, Committed
    <3>. HIDE DEF r, o
    <3>. QED
      BY <1>8, <2>4, <2>5, <3>1 DEF Rules, Gone, After
  <2>. QED
    BY <1>1, <1>2, <1>5, <2>1, <2>3, <2>4, <2>6, GotoConsistent DEF Acting, After
<1>. QED
  BY <1>6, <1>7, <1>8

LEMMA AnswerConsistent ==
    ASSUME Types, Consistent, NEW q \in Requests, InferenceAnswers(q)
    PROVE  Types' /\ Consistent'
<1>. DEFINE o == req[q]
            r == [o EXCEPT !.pc = "save"]
<1>1. /\ o.pc = "infer" /\ Goto(q, "save")
      /\ UNCHANGED <<row, cache, log, lock, cleaner, deleted, commits, acked>>
  BY DEF InferenceAnswers, histories
<1>2. o \in Loaded
  BY <1>1, Kinds DEF Types
<1>3. Place(o, lock = q) /\ Rules(o)
  BY <1>2 DEF Consistent
<1>4. r.pc = "save" /\ r.op = o.op /\ r.doc = o.doc /\ r.messages = o.messages
  BY <1>2, LoadedGoto DEF Acting
<1>5. Rules(r)
  <2>1. AlreadyDone(r) <=> AlreadyDone(o)
    <3>. HIDE DEF r, o
    <3>. QED
      BY <1>4 DEF AlreadyDone, Committed
  <2>. HIDE DEF r, o
  <2>. QED
    BY <1>1, <1>3, <1>4, <2>1 DEF Rules, Gone, After
<1>6. lock = q
  BY <1>1, <1>3 DEF Place, Before
<1>7. log' \in [present : BOOLEAN, available : BOOLEAN, turns : Nat, finalized : BOOLEAN]
  BY <1>1 DEF Types
<1>. QED
  BY <1>1, <1>2, <1>5, <1>6, <1>7, GotoConsistent DEF Acting, After

\* The steps that write the log.
LEMMA LogConsistent ==
    ASSUME Types, Consistent, NEW q \in Requests,
           CheckLog(q) \/ SaveLog(q) \/ DeleteLog(q)
    PROVE  Types' /\ Consistent'
<1>. DEFINE o == req[q]
<1>1. /\ o.pc \in {"log", "save_log", "delete_log"}
      /\ UNCHANGED <<row, cache, lock, cleaner, deleted, commits, acked>>
  BY DEF CheckLog, SaveLog, DeleteLog, histories
<1>2. o \in Loaded
  BY <1>1, Kinds DEF Types
<1>3. Place(o, lock = q) /\ Rules(o)
  BY <1>2 DEF Consistent
<1>4. lock = q
  BY <1>1, <1>3 DEF Place, Before
<1>5. log' \in [present : BOOLEAN, available : BOOLEAN, turns : Nat, finalized : BOOLEAN]
  <2>1. o.doc.turn_count \in Nat /\ o.doc.is_finalized \in BOOLEAN
    BY <1>2 DEF Loaded, Sessions
  <2>2. NoLog \in [present : BOOLEAN, available : BOOLEAN, turns : Nat, finalized : BOOLEAN]
    BY DEF NoLog
  <2>3. Logged(o.doc) \in [present : BOOLEAN, available : BOOLEAN, turns : Nat, finalized : BOOLEAN]
    BY <2>1 DEF Logged, Types
  <2>4. log' \in {log, NoLog, Logged(o.doc)}
    BY DEF CheckLog, SaveLog, DeleteLog
  <2>. QED
    BY <2>2, <2>3, <2>4 DEF Types
<1>6. CASE CheckLog(q) /\ (Ephemeral(o.doc) \/ (log.present /\ ~log.available))
  <2>. DEFINE r == [o EXCEPT !.pc = "done"]
  <2>1. Goto(q, "done") /\ o.pc = "log"
    BY <1>6 DEF CheckLog
  <2>2. r.pc = "done" /\ r.op = o.op /\ r.doc = o.doc /\ r.messages = o.messages
    BY <1>2, LoadedGoto
  <2>3. Rules(r)
    <3>. HIDE DEF r, o
    <3>. QED
      BY <1>3, <2>1, <2>2 DEF Rules, Gone, After
  <2>. QED
    BY <1>1, <1>2, <1>4, <1>5, <2>1, <2>3, GotoConsistent DEF Acting, After, Gone
<1>7. CASE CheckLog(q) /\ ~(Ephemeral(o.doc) \/ (log.present /\ ~log.available))
  <2>. DEFINE r == [o EXCEPT !.pc = "save_log"]
  <2>1. Goto(q, "save_log") /\ o.pc = "log"
    BY <1>7 DEF CheckLog
  <2>2. r.pc = "save_log" /\ r.op = o.op /\ r.doc = o.doc /\ r.messages = o.messages
    BY <1>2, LoadedGoto DEF After
  <2>3. Rules(r)
    <3>. HIDE DEF r, o
    <3>. QED
      BY <1>3, <1>7, <2>1, <2>2 DEF Rules, Gone, After, o
  <2>. QED
    BY <1>1, <1>2, <1>4, <1>5, <2>1, <2>3, GotoConsistent DEF Acting, After, Gone
<1>8. CASE SaveLog(q) \/ DeleteLog(q)
  <2>. DEFINE r == [o EXCEPT !.pc = "done"]
  <2>1. Goto(q, "done") /\ o.pc \in {"save_log", "delete_log"}
    BY <1>8 DEF SaveLog, DeleteLog
  <2>2. r.pc = "done" /\ r.op = o.op /\ r.doc = o.doc /\ r.messages = o.messages
    BY <1>2, LoadedGoto
  <2>3. Rules(r)
    <3>. HIDE DEF r, o
    <3>. QED
      BY <2>2 DEF Rules, Gone, After
  <2>4. o.pc = "delete_log" => o.op.name = "delete"
    BY <1>3 DEF Rules, Gone
  <2>. QED
    BY <1>1, <1>2, <1>4, <1>5, <2>1, <2>3, <2>4, GotoConsistent DEF Acting, After, Gone
<1>. QED
  BY <1>6, <1>7, <1>8

---------------------------------------------------------------------------
(***************************************************************************)
(* Steps that write the transcript in memory.                              *)
(***************************************************************************)
\* The cache is filled only for a session without turns, and then nobody
\* has found its transcript lost.
LEMMA HydrateConsistent ==
    ASSUME Types, Consistent, NEW q \in Requests, Hydrate(q)
    PROVE  Types' /\ Consistent'
<1>. DEFINE o == req[q]
            held == cache # NoCache
            fills == cache = NoCache /\ CachedAfterHydrate(o.doc, FALSE)
            doc == Hydrated(o.doc, held)
            messages == IF ~Ephemeral(o.doc) THEN o.messages
                        ELSE IF cache # NoCache THEN cache ELSE <<>>
            pc == IF Interrupted(o.doc, held) THEN "save_restart" ELSE "decide"
            r == [o EXCEPT !.doc = doc, !.messages = messages, !.pc = pc]
<1>1. /\ o.pc = "hydrate" /\ cache' = IF fills THEN <<>> ELSE cache
      /\ req' = [req EXCEPT ![q] = r]
      /\ lock' = lock /\ row' = row /\ log' = log /\ cleaner' = cleaner
      /\ deleted' = deleted /\ commits' = commits /\ acked' = acked
  BY DEF Hydrate, histories, Types
<1>2. o \in Loaded
  BY <1>1, Kinds DEF Types
<1>3. /\ Place(o, lock = q) /\ Rules(o) /\ Knows(o, lock = q, row, cache)
  BY <1>2 DEF Consistent
<1>4. /\ o.doc \in Sessions /\ o.doc.turn_count \in Nat /\ row.doc \in Sessions
      /\ row.doc.turn_count \in Nat /\ o.revision \in Nat /\ row.revision \in Nat
      /\ cache \in Seq(MessageIds) \cup {NoCache} /\ o.messages \in Seq(MessageIds)
  BY <1>2 DEF Loaded, Types, Rows, Sessions
<1>5. <<>> \in Seq(MessageIds) /\ <<>> # NoCache
  BY DEF NoCache
<1>6. Ephemeral(o.doc) <=> Ephemeral(row.doc)
  BY <1>3 DEF Knows, Bounds, Ephemeral
<1>7. /\ doc \in Sessions
      /\ doc.turn_count = o.doc.turn_count /\ doc.logging_policy = o.doc.logging_policy
      /\ doc.is_finalized = o.doc.is_finalized
      /\ doc.is_active => o.doc.is_active
      /\ Interrupted(o.doc, held) =>
           ~doc.is_active /\ doc.transcript_unavailable_reason = "server_restart"
  BY <1>4, HydratedDocument
<1>8. messages \in Seq(MessageIds) /\ pc \in {"save_restart", "decide"}
  BY <1>4, <1>5
<1>9. fills <=> cache = NoCache /\ Ephemeral(row.doc) /\ o.doc.turn_count = 0
  BY <1>6 DEF CachedAfterHydrate
<1>10. fills => Ephemeral(row.doc) /\ row.doc.turn_count = 0 /\ cache = NoCache
  BY <1>1, <1>3, <1>9 DEF Knows, Hydrating
<1>11. Interrupted(o.doc, held) =>
         Ephemeral(row.doc) /\ cache = NoCache /\ o.doc.turn_count > 0 /\ o.doc.is_active
  BY <1>6 DEF Interrupted
<1>12. ~Interrupted(o.doc, held) /\ Ephemeral(row.doc) /\ cache = NoCache
         /\ o.doc.turn_count > 0 => ~o.doc.is_active
  BY <1>6 DEF Interrupted
<1>13. pc = "save_restart" <=> Interrupted(o.doc, held)
  OBVIOUS
<1>. HIDE DEF doc, messages, pc
<1>14. /\ r \in Loaded /\ r.pc = pc /\ r.op = o.op /\ r.doc = doc
       /\ r.messages = messages /\ r.revision = o.revision
  BY <1>2, <1>7, <1>8 DEF Loaded, Before, Acting
<1>. HIDE DEF r
<1>15. cache' \in Seq(MessageIds) \cup {NoCache}
  BY <1>1, <1>4, <1>5
<1>16. Types'
  BY <1>1, <1>14, <1>15 DEF Types
<1>17. /\ req'[q] = r /\ lock' = lock
       /\ \A p \in Requests \ {q} : req'[p] = req[p] /\ (lock' = p <=> lock = p)
  BY <1>1 DEF Types
<1>18. ASSUME NEW p \in Requests \ {q}, req[p] \in Loaded
       PROVE  Knows(req[p], lock = p, row', cache')
  <2>1. Knows(req[p], lock = p, row, cache) /\ Rules(req[p])
    BY <1>18 DEF Consistent
  <2>2. CASE fills
    <3>1. ~Lost(row, cache) /\ cache' # NoCache /\ row' = row
      BY <1>1, <1>5, <1>10, <2>2 DEF Lost
    <3>2. req[p].doc.turn_count \in Nat /\ req[p].doc.turn_count <= row.doc.turn_count
      BY <1>10, <1>18, <2>1, <2>2 DEF Knows, Bounds, Loaded, Sessions
    <3>3. req[p].pc # "save_restart"
      BY <1>10, <2>1, <2>2, <3>2 DEF Rules
    <3>4. Restarting(req[p], lock = p, row', cache') /\ Hydrating(req[p], lock = p, row', cache')
      BY <2>1, <3>1, <3>3 DEF Knows, Restarting, Hydrating
    <3>5. req[p].pc \in Acting /\ lock = p => req[p].revision # row.revision
      BY <1>10, <2>1, <2>2 DEF Knows, Deciding
    <3>6. Deciding(req[p], lock = p, row', cache')
      BY <2>1, <3>1, <3>5 DEF Knows, Deciding
    <3>. QED
      BY <2>1, <3>1, <3>4, <3>6 DEF Knows
  <2>3. CASE ~fills
    BY <1>1, <2>1, <2>3
  <2>. QED
    BY <2>2, <2>3
<1>19. Place(r, lock' = q)
  BY <1>1, <1>3, <1>8, <1>14 DEF Place, Before
<1>20. Rules(r)
  BY <1>6, <1>7, <1>8, <1>11, <1>13, <1>14 DEF Rules, After, Gone, Ephemeral
<1>21. Knows(r, lock' = q, row', cache')
  <2>1. Working(o)
    BY <1>1 DEF Working, Before
  <2>2. Bounds(r, lock' = q, row')
    BY <1>1, <1>3, <1>7, <1>14, <2>1 DEF Knows, Bounds
  <2>3. Hydrating(r, lock' = q, row', cache')
    BY <1>8, <1>14 DEF Hydrating
  <2>4. Restarting(r, lock' = q, row', cache')
    <3>1. SUFFICES ASSUME pc = "save_restart"
                   PROVE  /\ cache = NoCache /\ messages = <<>> /\ cache' = cache
                          /\ o.revision = row.revision =>
                               Interrupted(row.doc, FALSE) /\ doc = Hydrated(row.doc, FALSE)
                          /\ lock = q /\ o.revision # row.revision => Lost(row, cache)
      BY <1>1, <1>8, <1>14 DEF Restarting
    <3>2. cache = NoCache /\ cache' = cache
      <4>1. cache = NoCache /\ o.doc.turn_count # 0
        BY <1>4, <1>11, <1>13, <3>1
      <4>2. ~fills
        BY <1>9, <4>1
      <4>. QED
        BY <1>1, <4>1, <4>2
    <3>3. messages = <<>>
      BY <1>6, <1>11, <1>13, <3>1 DEF messages
    <3>4. o.revision = row.revision => o.doc = row.doc
      BY <1>1, <1>3, <1>11, <1>13, <3>1 DEF Knows, Hydrating
    <3>5. Interrupted(o.doc, FALSE) /\ doc = Hydrated(o.doc, FALSE)
      <4>1. held = FALSE
        BY <3>2
      <4>. QED
        BY <4>1, <1>13, <3>1 DEF doc
    <3>6. lock = q /\ o.revision # row.revision => Lost(row, cache)
      BY <1>1, <1>3, <1>11, <1>13, <3>1 DEF Knows, Hydrating
    <3>. QED
      BY <3>2, <3>3, <3>4, <3>5, <3>6
  <2>5. Deciding(r, lock' = q, row', cache')
    <3>1. SUFFICES ASSUME pc = "decide", lock = q
                   PROVE  /\ o.revision = row.revision =>
                             /\ doc = Hydrated(row.doc, cache' # NoCache)
                             /\ messages = Transcript(row, cache')
                             /\ Ephemeral(row.doc) /\ row.doc.turn_count = 0 => cache' # NoCache
                          /\ doc.is_active => o.revision = row.revision
      BY <1>1, <1>8, <1>14 DEF Deciding, Acting
    <3>2. ASSUME o.revision = row.revision
          PROVE  /\ doc = Hydrated(row.doc, cache' # NoCache)
                 /\ messages = Transcript(row, cache')
                 /\ Ephemeral(row.doc) /\ row.doc.turn_count = 0 => cache' # NoCache
      <4>1. o.doc = row.doc /\ o.messages = row.messages
        BY <1>1, <1>3, <3>1, <3>2 DEF Knows, Hydrating
      <4>2. CASE fills
        <5>1. doc = Hydrated(row.doc, cache' # NoCache)
          BY <1>10, <4>1, <4>2, HydratedFresh DEF doc
        <5>2. messages = Transcript(row, cache')
          BY <1>1, <1>5, <1>6, <1>10, <4>2 DEF messages, Transcript
        <5>. QED
          BY <1>1, <1>5, <4>2, <5>1, <5>2
      <4>3. CASE ~fills
        <5>1. cache' = cache
          BY <1>1, <4>3
        <5>2. doc = Hydrated(row.doc, cache' # NoCache)
          BY <4>1, <5>1 DEF doc
        <5>3. messages = Transcript(row, cache')
          BY <1>6, <4>1, <5>1 DEF messages, Transcript
        <5>. QED
          BY <1>9, <4>1, <4>3, <5>1, <5>2, <5>3
      <4>. QED
        BY <4>2, <4>3
    <3>3. doc.is_active => o.revision = row.revision
      <4>1. SUFFICES ASSUME doc.is_active, o.revision # row.revision
                     PROVE  FALSE
        OBVIOUS
      <4>2. Lost(row, cache) /\ o.doc.is_active
        BY <1>1, <1>3, <1>7, <3>1, <4>1 DEF Knows, Hydrating
      <4>3. o.doc.turn_count = row.doc.turn_count
        BY <1>3, <2>1, <3>1 DEF Knows, Bounds
      <4>. QED
        BY <1>12, <1>13, <3>1, <4>2, <4>3 DEF Lost
    <3>. QED
      BY <3>2, <3>3
  <2>. QED
    BY <1>8, <1>14, <2>2, <2>3, <2>4, <2>5 DEF Knows
<1>22. Listed(cleaner', row') /\ Storage'
  <2>1. ~Ephemeral(row.doc) => cache' = cache
    BY <1>1, <1>9
  <2>. QED
    BY <1>1, <2>1 DEF Consistent, Storage, RowExpired, Retained
<1>23. r.pc \notin Gone
  BY <1>8, <1>14 DEF Gone
<1>24. deleted => deleted'
  BY <1>1
<1>. QED
  BY <1>16, <1>17, <1>18, <1>19, <1>20, <1>21, <1>22, <1>23, <1>24, OneMoves

\* A submission keeps its transcript only where one is kept already.
LEMMA CacheConsistent ==
    ASSUME Types, Consistent, NEW q \in Requests, CacheTranscript(q)
    PROVE  Types' /\ Consistent'
<1>. DEFINE o == req[q]
            r == [o EXCEPT !.pc = "log"]
<1>1. /\ o.pc = "cache" /\ cache' = o.messages
      /\ req' = [req EXCEPT ![q] = r]
      /\ lock' = lock /\ row' = row /\ log' = log /\ cleaner' = cleaner
      /\ deleted' = deleted /\ commits' = commits /\ acked' = acked
  BY DEF CacheTranscript, Goto, histories, Types
<1>2. o \in Loaded
  BY <1>1, Kinds DEF Types
<1>3. /\ Place(o, lock = q) /\ Rules(o) /\ Knows(o, lock = q, row, cache)
  BY <1>2 DEF Consistent
<1>4. /\ r \in Loaded /\ r.pc = "log" /\ r.op = o.op /\ r.doc = o.doc
      /\ r.messages = o.messages /\ r.revision = o.revision
  BY <1>2, LoadedGoto DEF After
<1>. HIDE DEF r
<1>5. cache' \in Seq(MessageIds) /\ cache' # NoCache /\ cache # NoCache
  <2>1. NoCache \notin Seq(MessageIds)
    BY NoCacheIsNone
  <2>. QED
    BY <1>1, <1>2, <1>3, <2>1 DEF Loaded, Knows
<1>6. Ephemeral(row.doc)
  BY <1>1, <1>3 DEF Rules, Knows, Bounds, Ephemeral
<1>7. lock = q
  BY <1>1, <1>3 DEF Place, Before, Rules
<1>8. Types'
  BY <1>1, <1>4, <1>5 DEF Types
<1>9. /\ req'[q] = r /\ lock' = lock
      /\ \A p \in Requests \ {q} : req'[p] = req[p] /\ (lock' = p <=> lock = p)
  BY <1>1 DEF Types
<1>10. ASSUME NEW p \in Requests \ {q}, req[p] \in Loaded
       PROVE  Knows(req[p], lock = p, row', cache')
  <2>1. Knows(req[p], FALSE, row, cache) /\ lock # p
    BY <1>7, <1>10 DEF Consistent
  <2>2. Knows(req[p], FALSE, row', cache')
    BY <1>1, <1>5, <2>1 DEF Knows, Bounds, Hydrating, Restarting, Deciding
  <2>. QED
    BY <2>1, <2>2
<1>11. Place(r, lock' = q) /\ r.pc \notin Gone
  BY <1>1, <1>3, <1>4 DEF Place, Before, Gone, Rules
<1>12. Rules(r)
  BY <1>1, <1>3, <1>4 DEF Rules, After, Gone
<1>13. Working(o)
  BY <1>1 DEF Working, After
<1>14. Knows(r, lock' = q, row', cache')
  BY <1>1, <1>3, <1>4, <1>13 DEF Knows, Bounds, Hydrating, Restarting, Deciding, Acting
<1>15. Listed(cleaner', row') /\ Storage'
  BY <1>1, <1>6 DEF Consistent, Storage, RowExpired, Retained
<1>16. deleted => deleted'
  BY <1>1
<1>. QED
  BY <1>8, <1>9, <1>10, <1>11, <1>12, <1>14, <1>15, <1>16, OneMoves

\* A session that may be deleted keeps no transcript in memory.
LEMMA Undisabled ==
    ASSUME NoRevival, Types, Consistent, "delete" \in OperationNames
    PROVE  ~Ephemeral(row.doc)
BY DEF NoRevival, Consistent, Storage, Ephemeral

LEMMA DeleteCacheConsistent ==
    ASSUME NoRevival, Types, Consistent, NEW q \in Requests, DeleteCache(q)
    PROVE  Types' /\ Consistent'
<1>. DEFINE o == req[q]
            r == [o EXCEPT !.pc = "delete_log"]
<1>1. /\ o.pc = "delete_cache" /\ cache' = NoCache
      /\ req' = [req EXCEPT ![q] = r]
      /\ lock' = lock /\ row' = row /\ log' = log /\ cleaner' = cleaner
      /\ deleted' = deleted /\ commits' = commits /\ acked' = acked
  BY DEF DeleteCache, Goto, histories, Types
<1>2. o \in Loaded
  BY <1>1, Kinds DEF Types
<1>3. /\ Place(o, lock = q) /\ Rules(o) /\ Knows(o, lock = q, row, cache)
      /\ o.pc \in Gone => deleted
  BY <1>2 DEF Consistent
<1>4. /\ r \in Loaded /\ r.pc = "delete_log" /\ r.op = o.op /\ r.doc = o.doc
      /\ r.messages = o.messages /\ r.revision = o.revision
  BY <1>2, LoadedGoto DEF Gone
<1>. HIDE DEF r
<1>5. o.op.name = "delete" /\ o.op \in Operations
  BY <1>1, <1>2, <1>3 DEF Rules, Gone, Loaded
<1>6. ~Ephemeral(row.doc)
  BY <1>5, OperationKinds, Undisabled
<1>7. cache = NoCache
  BY <1>6 DEF Consistent, Storage
<1>8. Place(r, lock' = q)
  BY <1>1, <1>3, <1>4, <1>5 DEF Place, Gone, Before
<1>9. Rules(r)
  BY <1>4, <1>5 DEF Rules, After, Gone
<1>10. Working(r) => Working(o)
  BY <1>4 DEF Working, Before, Acting, After
<1>11. Knows(r, lock' = q, row, cache)
  BY <1>1, <1>3, <1>4, <1>6, <1>10 DEF Knows, Bounds, Hydrating, Restarting, Deciding, Acting
<1>12. /\ lock' \in Requests \cup {Nobody} /\ acked' \subseteq MessageIds
       /\ log' \in [present : BOOLEAN, available : BOOLEAN, turns : Nat, finalized : BOOLEAN]
       /\ \A p \in Requests \ {q} : lock' = p <=> lock = p
  BY <1>1 DEF Types
<1>13. r.pc \in Gone => deleted
  BY <1>1, <1>3 DEF Gone
<1>. QED
  BY <1>1, <1>4, <1>7, <1>8, <1>9, <1>11, <1>12, <1>13, QuietMove

---------------------------------------------------------------------------
(***************************************************************************)
(* Steps that write the row.                                               *)
(***************************************************************************)
LEMMA StoredRow ==
    ASSUME Types, NEW p, NEW doc \in Sessions, NEW messages \in Seq(MessageIds)
    PROVE  LET w == Stored(p, doc, messages) IN
           /\ w \in Rows /\ w.present /\ w.doc = doc
           /\ w.revision = IF row.present THEN row.revision + 1 ELSE 0
           /\ w.messages = IF Ephemeral(doc) THEN <<>> ELSE messages
BY DEF Types, Rows, Stored

\* Storing the closure of a session whose transcript is lost.  A request
\* that has loaded it meanwhile has found it lost as well.
LEMMA SaveRestartConsistent ==
    ASSUME NoRevival, Types, Consistent, NEW q \in Requests, SaveRestart(q)
    PROVE  Types' /\ Consistent'
<1>. DEFINE o == req[q]
<1>1. /\ o.pc = "save_restart" /\ cache' = cache /\ lock' = lock /\ log' = log
      /\ cleaner' = cleaner /\ deleted' = deleted /\ commits' = commits /\ acked' = acked
  BY DEF SaveRestart, histories
<1>2. o \in Loaded
  BY <1>1, Kinds DEF Types
<1>3. /\ Place(o, lock = q) /\ Rules(o) /\ Knows(o, lock = q, row, cache)
  BY <1>2 DEF Consistent
<1>4. /\ o.doc \in Sessions /\ o.doc.turn_count \in Nat /\ row.doc \in Sessions
      /\ row.doc.turn_count \in Nat /\ o.revision \in Nat /\ row.revision \in Nat
      /\ o.messages \in Seq(MessageIds)
  BY <1>2 DEF Loaded, Types, Rows, Sessions
<1>5. /\ Ephemeral(o.doc) /\ Ephemeral(row.doc) /\ o.doc.turn_count > 0
      /\ ~o.doc.is_active /\ o.doc.transcript_unavailable_reason = "server_restart"
  BY <1>1, <1>3 DEF Rules, Knows, Bounds, Ephemeral
<1>6. row.present /\ ~deleted
  BY <1>5, Undisabled DEF Consistent, Storage
<1>7. Saves(o) <=> row.revision = o.revision
  BY <1>6 DEF Saves
<1>8. CASE ~Saves(o)
  <2>. DEFINE r == [o EXCEPT !.pc = "reread"]
  <2>1. Goto(q, "reread") /\ row' = row
    BY <1>8 DEF SaveRestart
  <2>2. r.pc = "reread" /\ r.op = o.op /\ r.doc = o.doc /\ r.messages = o.messages
    BY <1>2, LoadedGoto DEF Before
  <2>3. Rules(r)
    <3>. HIDE DEF r, o
    <3>. QED
      BY <2>2 DEF Rules, Gone, After
  <2>4. log' \in [present : BOOLEAN, available : BOOLEAN, turns : Nat, finalized : BOOLEAN]
    BY <1>1 DEF Types
  <2>. QED
    BY <1>1, <1>2, <1>7, <1>8, <2>1, <2>3, <2>4, GotoConsistent DEF Acting, After, Before
<1>9. CASE Saves(o)
  <2>. DEFINE r == [o EXCEPT !.pc = "decide", !.revision = row'.revision]
  <2>1. row' = Stored(o, o.doc, o.messages) /\ req' = [req EXCEPT ![q] = r]
    BY <1>9 DEF SaveRestart, Types
  <2>2. /\ row' \in Rows /\ row'.present /\ row'.doc = o.doc
        /\ row'.revision = row.revision + 1 /\ row'.messages = <<>>
    BY <1>4, <1>5, <1>6, <2>1, StoredRow
  <2>3. /\ r \in Loaded /\ r.pc = "decide" /\ r.op = o.op /\ r.doc = o.doc
        /\ r.messages = o.messages /\ r.revision = row'.revision
    BY <1>2, <2>2 DEF Loaded, Acting, Rows
  <2>. HIDE DEF r
  <2>4. /\ cache = NoCache /\ o.messages = <<>>
        /\ Interrupted(row.doc, FALSE) /\ o.doc = Hydrated(row.doc, FALSE)
    BY <1>1, <1>3, <1>7, <1>9 DEF Knows, Restarting
  <2>5. /\ row.doc.is_active /\ row.doc.turn_count > 0
        /\ o.doc.turn_count = row.doc.turn_count /\ o.doc.is_finalized = row.doc.is_finalized
        /\ o.doc.logging_policy = row.doc.logging_policy
    <3>1. row.doc.is_active /\ row.doc.turn_count > 0
      BY <2>4 DEF Interrupted
    <3>. QED
      BY <1>4, <2>4, <3>1, HydratedClosed
  <2>6. Lost(row', cache')
    BY <1>1, <1>5, <2>2, <2>4 DEF Lost
  <2>7. Hydrated(o.doc, cache' # NoCache) = o.doc
    BY <1>1, <1>4, <1>5, <2>4, HydratedLost
  <2>8. Types'
    BY <1>1, <2>1, <2>2, <2>3 DEF Types
  <2>9. /\ req'[q] = r /\ lock' = lock
        /\ \A p \in Requests \ {q} : req'[p] = req[p] /\ (lock' = p <=> lock = p)
    BY <1>1, <2>1 DEF Types
  <2>10. Ephemeral(row'.doc)
    BY <1>5, <2>2
  <2>11. ASSUME NEW p \in Requests \ {q}, req[p] \in Loaded
         PROVE  Knows(req[p], lock = p, row', cache')
    <3>1. Knows(req[p], lock = p, row, cache) /\ req[p].revision \in Nat
      BY <2>11 DEF Consistent, Loaded
    <3>2. req[p].revision < row'.revision
      BY <1>4, <1>5, <2>2, <3>1 DEF Knows, Bounds
    <3>3. Bounds(req[p], lock = p, row')
      BY <1>4, <1>5, <2>2, <2>5, <3>1, <3>2 DEF Knows, Bounds
    <3>4. /\ req[p].revision # row'.revision /\ row.doc.turn_count # 0
          /\ Ephemeral(row.doc) /\ Ephemeral(row'.doc)
      BY <1>4, <1>5, <2>2, <2>5, <3>1, <3>2, <2>10
    <3>5. Hydrating(req[p], lock = p, row', cache')
      BY <1>1, <2>4, <2>6, <3>1, <3>4 DEF Knows, Hydrating
    <3>6. Restarting(req[p], lock = p, row', cache')
      BY <1>1, <2>6, <3>1, <3>4 DEF Knows, Restarting
    <3>7. ASSUME lock = p, req[p].pc \in Acting
          PROVE  ~req[p].doc.is_active
      <4>1. SUFFICES ASSUME req[p].revision = row.revision
                     PROVE  ~req[p].doc.is_active
        BY <3>1, <3>7 DEF Knows, Deciding
      <4>2. req[p].doc = Hydrated(row.doc, cache # NoCache)
        BY <3>1, <3>7, <4>1 DEF Knows, Deciding
      <4>3. req[p].doc = Hydrated(row.doc, FALSE)
        BY <1>4, <2>4, <4>2, HydratedClosed
      <4>. QED
        BY <1>5, <2>4, <4>3
    <3>8. Deciding(req[p], lock = p, row', cache')
      BY <3>2, <3>7, <3>1, <1>4, <2>2 DEF Deciding
    <3>. QED
      BY <1>1, <3>1, <3>3, <3>5, <3>8, <3>6 DEF Knows
  <2>12. Place(r, lock' = q) /\ r.pc \notin Gone
    BY <1>1, <1>3, <2>3 DEF Place, Before, Gone
  <2>13. Rules(r)
    BY <2>3 DEF Rules, After, Gone
  <2>14. Deciding(r, lock' = q, row', cache')
    <3>1. r.messages = Transcript(row', cache')
      BY <1>1, <2>3, <2>4, <2>10 DEF Transcript
    <3>. QED
      BY <1>5, <2>2, <2>3, <2>5, <2>7, <3>1 DEF Deciding
  <2>15. Knows(r, lock' = q, row', cache')
    BY <1>4, <2>2, <2>3, <2>14 DEF Knows, Bounds, Hydrating, Restarting
  <2>16. Listed(cleaner', row')
    BY <1>1, <2>5 DEF Consistent, Listed
  <2>17. Storage'
    BY <1>1, <1>5, <1>6, <2>2, <2>5, <2>10 DEF Consistent, Storage, RowExpired
  <2>18. deleted => deleted'
    BY <1>1
  <2>. QED
    BY <2>8, <2>9, <2>11, <2>12, <2>13, <2>15, <2>16, <2>17, <2>18, OneMoves
<1>. QED
  BY <1>8, <1>9

\* What is saved is what the operation makes of the stored document.
LEMMA SavesStored ==
    ASSUME Types, Consistent, NEW q \in Requests, req[q].pc = "save", Saves(req[q])
    PROVE  /\ req[q] \in Loaded /\ lock = q /\ row.present
           /\ req[q].op.name \notin {"read", "delete"}
           /\ req[q].op.name = "submit" => req[q].op.message \in MessageIds
           /\ req[q].revision = row.revision
           /\ req[q].doc = Hydrated(row.doc, cache # NoCache)
           /\ req[q].messages = Transcript(row, cache)
           /\ Ephemeral(row.doc) /\ row.doc.turn_count = 0 => cache # NoCache
           /\ ~AlreadyDone(req[q]) /\ Allowed(req[q].op, req[q].doc)
<1>1. req[q] \in Loaded
  BY Kinds DEF Types
<1>2. /\ Place(req[q], lock = q) /\ Rules(req[q]) /\ Knows(req[q], lock = q, row, cache)
  BY <1>1 DEF Consistent
<1>3. ~AlreadyDone(req[q]) /\ Allowed(req[q].op, req[q].doc) /\ req[q].op.name # "delete"
  BY <1>2 DEF Rules
<1>4. req[q].op.name # "read"
  BY <1>2 DEF Place, Before
<1>5. lock = q
  BY <1>2, <1>4 DEF Place
<1>6. row.present /\ req[q].revision = row.revision
  BY <1>2, <1>5 DEF Knows, Bounds, Working, Acting, Saves
<1>7. req[q].op.name = "submit" => req[q].op.message \in MessageIds
  BY <1>1, OperationKinds DEF Loaded
<1>. QED
  BY <1>1, <1>2, <1>3, <1>4, <1>5, <1>6, <1>7 DEF Knows, Deciding, Acting

\* A submission is let through only while the session takes turns.
LEMMA SubmitsToActive ==
    ASSUME NEW op, NEW doc, Allowed(op, doc), op.name = "submit"
    PROVE  doc.is_active
BY DEF Allowed, CanSubmit

LEMMA SaveSessionConsistent ==
    ASSUME NoRevival, Types, Consistent, NEW q \in Requests, SaveSession(q)
    PROVE  Types' /\ Consistent'
<1>. DEFINE o == req[q]
            turn == o.op.name = "submit"
            messages == IF turn THEN Append(o.messages, o.op.message) ELSE o.messages
            doc == Effect(o.op, o.doc)
            held == cache # NoCache
            to == IF turn /\ Ephemeral(doc) THEN "cache" ELSE "log"
            r == [o EXCEPT !.doc = doc, !.messages = messages,
                           !.revision = row'.revision, !.pc = to]
<1>1. /\ o.pc = "save" /\ Saves(o) /\ row' = Stored(o, doc, messages)
      /\ req' = [req EXCEPT ![q] = r]
      /\ commits' = IF turn THEN [commits EXCEPT ![o.op.message] = @ + 1] ELSE commits
      /\ cache' = cache /\ lock' = lock /\ log' = log
      /\ cleaner' = cleaner /\ deleted' = deleted /\ acked' = acked
  BY DEF SaveSession, Types
<1>2. /\ o \in Loaded /\ lock = q /\ row.present
      /\ o.op.name \notin {"read", "delete"}
      /\ turn => o.op.message \in MessageIds
      /\ o.revision = row.revision /\ o.doc = Hydrated(row.doc, held)
      /\ Ephemeral(row.doc) /\ row.doc.turn_count = 0 => cache # NoCache
      /\ Allowed(o.op, o.doc)
  BY <1>1, SavesStored
<1>3. /\ o.doc \in Sessions /\ o.doc.turn_count \in Nat /\ row.doc \in Sessions
      /\ row.doc.turn_count \in Nat /\ o.revision \in Nat /\ row.revision \in Nat
      /\ o.messages \in Seq(MessageIds) /\ o.op \in Operations
  BY <1>2 DEF Loaded, Types, Rows, Sessions
<1>4. /\ doc \in Sessions
      /\ doc.turn_count = IF turn THEN o.doc.turn_count + 1 ELSE o.doc.turn_count
      /\ doc.logging_policy = o.doc.logging_policy
      /\ doc.is_active => o.doc.is_active
      /\ doc.transcript_unavailable_reason = o.doc.transcript_unavailable_reason
  BY <1>2, <1>3, EffectDocument
<1>5. held \in BOOLEAN
  OBVIOUS
<1>. HIDE DEF held
<1>6. /\ o.doc.turn_count = row.doc.turn_count
      /\ o.doc.logging_policy = row.doc.logging_policy
      /\ o.doc.is_active => row.doc.is_active
      /\ o.doc.transcript_unavailable_reason = "content_expired" =>
            row.doc.transcript_unavailable_reason = "content_expired"
      /\ Interrupted(row.doc, held) => ~o.doc.is_active
      /\ ~Ephemeral(row.doc) => o.doc = row.doc
  BY <1>2, <1>3, <1>5, HydratedDocument, HydratedPlain
<1>7. messages \in Seq(MessageIds)
  BY <1>2, <1>3
<1>8. turn => o.doc.is_active
  BY <1>2, SubmitsToActive
<1>9. to \in {"cache", "log"} /\ (to = "cache" => turn /\ Ephemeral(doc))
  OBVIOUS
<1>. HIDE DEF doc, messages, to
<1>10. /\ row' \in Rows /\ row'.present /\ row'.doc = doc
       /\ row'.revision = row.revision + 1
       /\ row'.messages = IF Ephemeral(doc) THEN <<>> ELSE messages
  BY <1>1, <1>2, <1>4, <1>7, StoredRow
<1>11. /\ r \in Loaded /\ r.pc = to /\ r.op = o.op /\ r.doc = doc
       /\ r.messages = messages /\ r.revision = row'.revision
  BY <1>2, <1>4, <1>7, <1>9, <1>10 DEF Loaded, After, Rows
<1>. HIDE DEF r
<1>12. Types'
  <2>1. commits' \in [MessageIds -> Nat]
    BY <1>1, <1>2 DEF Types
  <2>. QED
    BY <1>1, <1>10, <1>11, <2>1 DEF Types
<1>13. /\ req'[q] = r /\ lock' = lock
       /\ \A p \in Requests \ {q} : req'[p] = req[p] /\ (lock' = p <=> lock = p)
  BY <1>1 DEF Types
<1>14. Ephemeral(row'.doc) <=> Ephemeral(row.doc)
  BY <1>4, <1>6, <1>10 DEF Ephemeral
<1>15. /\ row'.doc.logging_policy = row.doc.logging_policy
       /\ row.doc.turn_count <= row'.doc.turn_count
       /\ row.doc.turn_count # 0 => row'.doc.turn_count # 0
  BY <1>3, <1>4, <1>6, <1>10
<1>16. ASSUME NEW p \in Requests \ {q}, req[p] \in Loaded
       PROVE  Knows(req[p], lock = p, row', cache')
  <2>1. /\ Knows(req[p], FALSE, row, cache) /\ lock # p
        /\ req[p].revision \in Nat /\ req[p].doc.turn_count \in Nat
    BY <1>2, <1>16 DEF Consistent, Loaded, Sessions
  <2>2. Ephemeral(row'.doc) =>
            req[p].revision < row'.revision /\ req[p].doc.turn_count <= row'.doc.turn_count
    BY SMTT(30), <1>3, <1>10, <1>14, <1>15, <2>1 DEF Knows, Bounds, Rows, Sessions
  <2>3. Bounds(req[p], FALSE, row')
    BY <1>3, <1>10, <1>15, <2>1, <2>2 DEF Knows, Bounds
  <2>4. Ephemeral(row'.doc) => req[p].revision # row'.revision
    BY <1>3, <1>10, <2>1, <2>2
  <2>5. Hydrating(req[p], FALSE, row', cache')
    BY <1>1, <1>2, <1>14, <2>1, <2>4 DEF Knows, Hydrating
  <2>6. Restarting(req[p], FALSE, row', cache')
    <3>1. req[p].pc = "save_restart" => Ephemeral(row'.doc)
      <4>1. Rules(req[p])
        BY <1>16 DEF Consistent
      <4>. QED
        BY <1>14, <2>1, <4>1 DEF Knows, Bounds, Rules, Ephemeral
    <3>. QED
      BY <1>1, <2>1, <2>4, <3>1 DEF Knows, Restarting
  <2>7. Knows(req[p], FALSE, row', cache')
    BY <1>1, <2>1, <2>3, <2>5, <2>6 DEF Knows, Deciding
  <2>. QED
    BY <2>1, <2>7
<1>17. Place(r, lock' = q) /\ r.pc \notin Gone
  BY <1>1, <1>2, <1>9, <1>11 DEF Place, Gone
<1>18. Rules(r)
  BY <1>2, <1>9, <1>11 DEF Rules, After, Gone
<1>19. r.pc = "cache" => cache' # NoCache
  <2>1. SUFFICES ASSUME to = "cache", cache = NoCache
                 PROVE  FALSE
    BY <1>1, <1>11
  <2>2. Ephemeral(row.doc) /\ o.doc.is_active
    BY <1>8, <1>9, <1>10, <1>14, <2>1
  <2>3. row.doc.turn_count > 0 /\ row.doc.is_active
    BY <1>2, <1>3, <1>6, <2>1, <2>2
  <2>4. Interrupted(row.doc, held)
    BY <2>1, <2>2, <2>3 DEF Interrupted, held
  <2>. QED
    BY <1>6, <2>2, <2>4
<1>20. Knows(r, lock' = q, row', cache')
  <2>1. row'.revision \in Nat /\ row'.doc.turn_count \in Nat
    BY <1>10 DEF Rows, Sessions
  <2>2. Bounds(r, lock' = q, row')
    BY <1>10, <1>11, <2>1 DEF Bounds
  <2>3. /\ Hydrating(r, lock' = q, row', cache') /\ Restarting(r, lock' = q, row', cache')
        /\ Deciding(r, lock' = q, row', cache')
    BY <1>9, <1>11 DEF Hydrating, Restarting, Deciding, Acting
  <2>. QED
    BY <1>19, <2>2, <2>3 DEF Knows
<1>21. Listed(cleaner', row')
  <2>1. SUFFICES ASSUME cleaner.pc = "save", Listed(cleaner, row)
                 PROVE  Listed(cleaner, row')
    BY <1>1 DEF Consistent, Listed
  <2>2. ~doc.is_active /\ ~turn
    BY <1>4, <1>6, <1>8, <2>1 DEF Listed
  <2>3. cleaner.revision \in Nat
    BY <2>1 DEF Types, Idle
  <2>. QED
    BY <1>3, <1>4, <1>6, <1>10, <2>1, <2>2, <2>3 DEF Listed
<1>22. Storage'
  <2>1. RowExpired' => RowExpired /\ ~row'.doc.is_active
    BY <1>4, <1>6, <1>10 DEF RowExpired, Consistent, Storage
  <2>2. ~Ephemeral(row.doc) => (RowExpired' <=> RowExpired)
    BY <1>4, <1>6, <1>10 DEF RowExpired
  <2>3. Storage
    BY DEF Consistent
  <2>4. deleted => ~Retained'
    BY <1>2, <1>14, <2>2, <2>3 DEF Storage, Retained
  <2>5. IF Ephemeral(row'.doc) THEN row'.messages = <<>> ELSE cache' = NoCache
    BY <1>1, <1>10, <1>14, <2>3 DEF Storage
  <2>. QED
    BY <1>1, <1>10, <1>15, <2>1, <2>3, <2>4, <2>5 DEF Storage
<1>23. deleted => deleted'
  BY <1>1
<1>. QED
  BY <1>12, <1>13, <1>16, <1>17, <1>18, <1>20, <1>21, <1>22, <1>23, OneMoves

LEMMA DeleteRowConsistent ==
    ASSUME NoRevival, Types, Consistent, NEW q \in Requests, DeleteRow(q)
    PROVE  Types' /\ Consistent'
<1>. DEFINE o == req[q]
            r == [o EXCEPT !.pc = "delete_cache"]
<1>1. /\ o.pc = "delete" /\ row' = [row EXCEPT !.present = FALSE] /\ deleted' = TRUE
      /\ req' = [req EXCEPT ![q] = r]
      /\ lock' = lock /\ cache' = cache /\ log' = log /\ cleaner' = cleaner
      /\ commits' = commits /\ acked' = acked
  BY DEF DeleteRow, Goto, Types
<1>2. o \in Loaded
  BY <1>1, Kinds DEF Types
<1>3. /\ Place(o, lock = q) /\ Rules(o) /\ Knows(o, lock = q, row, cache)
  BY <1>2 DEF Consistent
<1>4. /\ r \in Loaded /\ r.pc = "delete_cache" /\ r.op = o.op /\ r.doc = o.doc
      /\ r.messages = o.messages /\ r.revision = o.revision
  BY <1>2, LoadedGoto DEF Gone
<1>. HIDE DEF r
<1>5. o.op.name = "delete" /\ o.op \in Operations
  BY <1>1, <1>2, <1>3 DEF Rules, Gone, Loaded
<1>6. "delete" \in OperationNames /\ ~Ephemeral(row.doc)
  BY <1>5, OperationKinds, Undisabled
<1>7. lock = q
  BY <1>1, <1>3, <1>5 DEF Place, Before
<1>8. /\ row' \in Rows /\ ~row'.present /\ row'.doc = row.doc
      /\ row'.revision = row.revision /\ row'.messages = row.messages
  BY <1>1 DEF Types, Rows
<1>9. Types'
  BY <1>1, <1>4, <1>8 DEF Types
<1>10. /\ req'[q] = r /\ lock' = lock
       /\ \A p \in Requests \ {q} : req'[p] = req[p] /\ (lock' = p <=> lock = p)
  BY <1>1 DEF Types
<1>11. ASSUME NEW p \in Requests \ {q}, req[p] \in Loaded
       PROVE  Knows(req[p], lock = p, row', cache')
  <2>1. Knows(req[p], FALSE, row, cache) /\ lock # p
    BY <1>7, <1>11 DEF Consistent
  <2>2. Knows(req[p], FALSE, row', cache')
    BY <1>1, <1>6, <1>8, <2>1 DEF Knows, Bounds, Hydrating, Restarting, Deciding
  <2>. QED
    BY <2>1, <2>2
<1>12. Place(r, lock' = q)
  BY <1>1, <1>4, <1>5, <1>7 DEF Place
<1>13. Rules(r)
  BY <1>4, <1>5 DEF Rules, After, Gone
<1>14. Knows(r, lock' = q, row', cache')
  <2>1. ~Working(r)
    BY <1>4 DEF Working, Before, Acting, After
  <2>. QED
    BY <1>3, <1>4, <1>6, <1>8, <2>1
       DEF Knows, Bounds, Hydrating, Restarting, Deciding, Acting
<1>15. Listed(cleaner', row')
  BY <1>1, <1>8 DEF Consistent, Listed
<1>16. Storage'
  BY <1>1, <1>6, <1>8 DEF Consistent, Storage, Retained, RowExpired
<1>17. deleted'
  BY <1>1
<1>. QED
  BY <1>9, <1>10, <1>11, <1>12, <1>13, <1>14, <1>15, <1>16, <1>17, OneMoves

---------------------------------------------------------------------------
(***************************************************************************)
(* The retention job, a restart, and the whole.                            *)
(***************************************************************************)
LEMMA NobodyMoves ==
    ASSUME Consistent, req' = req, lock' = lock,
           \A p \in Requests : req[p] \in Loaded => Knows(req[p], lock = p, row', cache'),
           Listed(cleaner', row'), Storage', deleted => deleted'
    PROVE  Consistent'
BY DEF Consistent

LEMMA CleanerQuiet ==
    ASSUME Types, Consistent,
           \/ CleanerList \/ CleanerExpireLog \/ CleanerCrash
           \/ CleanerSave /\ ~Saves(cleaner)
    PROVE  Types' /\ Consistent'
<1>1. /\ row' = row /\ cache' = cache /\ lock' = lock /\ req' = req
      /\ deleted' = deleted /\ commits' = commits /\ acked' = acked
  BY DEF CleanerList, CleanerExpireLog, CleanerCrash, CleanerSave, histories
<1>2. log' \in [present : BOOLEAN, available : BOOLEAN, turns : Nat, finalized : BOOLEAN]
  <2>1. CASE CleanerExpireLog
    BY <2>1 DEF CleanerExpireLog, Types
  <2>2. CASE ~CleanerExpireLog
    BY <2>2 DEF CleanerList, CleanerCrash, CleanerSave, Types
  <2>. QED
    BY <2>1, <2>2
<1>3. /\ cleaner' \in {Idle} \cup [pc : {"save", "expire_log"}, doc : Sessions, revision : Nat]
      /\ Listed(cleaner', row)
  <2>1. CASE CleanerList
    <3>. DEFINE to == IF row.doc.transcript_unavailable_reason = "content_expired"
                      THEN "expire_log" ELSE "save"
                k == [pc |-> to, doc |-> row.doc, revision |-> row.revision]
    <3>1. cleaner' = k /\ ~row.doc.is_active
      BY <2>1 DEF CleanerList, CanExpire
    <3>2. to \in {"save", "expire_log"} /\ row.doc \in Sessions /\ row.revision \in Nat
      BY DEF Types, Rows
    <3>. HIDE DEF to
    <3>3. k \in [pc : {"save", "expire_log"}, doc : Sessions, revision : Nat]
      BY <3>2
    <3>4. Listed(k, row)
      BY <3>1, <3>2 DEF Listed, Sessions
    <3>. QED
      BY <3>1, <3>3, <3>4
  <2>2. CASE ~CleanerList
    <3>1. cleaner' = Idle
      BY <2>2 DEF CleanerExpireLog, CleanerCrash, CleanerSave
    <3>. QED
      BY <3>1 DEF Idle, Listed
  <2>. QED
    BY <2>1, <2>2
<1>4. Types'
  BY <1>1, <1>2, <1>3 DEF Types
<1>5. Storage'
  BY <1>1 DEF Consistent, Storage, RowExpired, Retained
<1>6. \A p \in Requests : req[p] \in Loaded => Knows(req[p], lock = p, row', cache')
  BY <1>1 DEF Consistent
<1>. QED
  BY <1>1, <1>3, <1>4, <1>5, <1>6, NobodyMoves

\* The retention job stores the document it has listed, or brings back an
\* expired one that was deleted.  No coroutine that could still save takes
\* this session for one that accepts turns.
LEMMA CleanerSaveConsistent ==
    ASSUME NoRevival, Types, Consistent, CleanerSave, Saves(cleaner)
    PROVE  Types' /\ Consistent'
<1>. DEFINE k == cleaner
            doc == ExpireContent(k.doc)
<1>1. /\ k.pc = "save" /\ row' = Stored(k, doc, <<>>)
      /\ cleaner' = [k EXCEPT !.pc = "expire_log"]
      /\ cache' = cache /\ lock' = lock /\ req' = req /\ log' = log
      /\ deleted' = deleted /\ commits' = commits /\ acked' = acked
  BY DEF CleanerSave, histories
<1>2. k \in [pc : {"save", "expire_log"}, doc : Sessions, revision : Nat]
  BY <1>1 DEF Types, Idle
<1>3. /\ k.doc \in Sessions /\ k.revision \in Nat /\ row.revision \in Nat
      /\ row.doc \in Sessions /\ row.doc.turn_count \in Nat
  BY <1>2 DEF Types, Rows, Sessions
<1>4. /\ ~k.doc.is_active /\ ~row.doc.is_active
      /\ k.doc.logging_policy = row.doc.logging_policy
      /\ k.doc.turn_count = row.doc.turn_count
      /\ k.revision = row.revision => k.doc = row.doc
  BY <1>1 DEF Consistent, Listed
<1>5. /\ doc \in Sessions
      /\ doc.turn_count = k.doc.turn_count /\ doc.logging_policy = k.doc.logging_policy
      /\ doc.is_active = k.doc.is_active /\ doc.is_finalized = k.doc.is_finalized
      /\ doc.transcript_unavailable_reason = "content_expired"
  BY <1>3, ExpiredDocument
<1>6. row.present => row.revision = k.revision /\ k.doc = row.doc
  BY <1>4 DEF Saves
<1>. HIDE DEF doc
<1>7. <<>> \in Seq(MessageIds)
  OBVIOUS
<1>8. /\ row' \in Rows /\ row'.present /\ row'.doc = doc /\ row'.messages = <<>>
      /\ row'.revision = IF row.present THEN row.revision + 1 ELSE 0
  BY <1>1, <1>5, <1>7 DEF Stored, Types, Rows
<1>9. Types'
  <2>1. cleaner' \in [pc : {"save", "expire_log"}, doc : Sessions, revision : Nat]
    BY <1>1, <1>2
  <2>. QED
    BY <1>1, <1>8, <2>1 DEF Types
<1>10. /\ row'.doc.logging_policy = row.doc.logging_policy
       /\ row'.doc.turn_count = row.doc.turn_count
       /\ ~row'.doc.is_active
       /\ row.present => row'.doc.is_finalized = row.doc.is_finalized
       /\ row'.doc.transcript_unavailable_reason = "content_expired"
       /\ Ephemeral(row'.doc) <=> Ephemeral(row.doc)
  BY <1>4, <1>5, <1>6, <1>8 DEF Ephemeral
<1>11. ~row.present => ~Ephemeral(row.doc)
  BY Undisabled DEF Consistent, Storage
<1>12. Lost(row, cache) => Lost(row', cache')
  BY <1>1, <1>10 DEF Lost
<1>13. ASSUME NEW p \in Requests, req[p] \in Loaded
       PROVE  Knows(req[p], lock = p, row', cache')
  <2>. DEFINE o == req[p]
              holds == lock = p
  <2>1. /\ Knows(o, holds, row, cache) /\ Rules(o)
        /\ o.revision \in Nat /\ o.doc.turn_count \in Nat
    BY <1>13 DEF Consistent, Loaded, Sessions
  <2>2. holds \in BOOLEAN
    OBVIOUS
  <2>. HIDE DEF o, holds
  <2>3. Ephemeral(row.doc) \/ (holds /\ Working(o)) =>
          /\ row.present /\ o.revision < row'.revision
          /\ o.doc.turn_count <= row'.doc.turn_count
    BY <1>3, <1>8, <1>10, <1>11, <2>1 DEF Knows, Bounds
  <2>4. Bounds(o, holds, row')
    BY <1>3, <1>8, <1>10, <2>1, <2>3 DEF Knows, Bounds, Rows, Sessions
  <2>5. o.revision # row'.revision \/ ~(Ephemeral(row.doc) \/ (holds /\ Working(o)))
    BY <1>8, <2>1, <2>3 DEF Rows
  <2>6. o.pc \in {"hydrate", "save_restart", "reread"} \cup Acting => Working(o)
    BY DEF Working, Before
  <2>7. Hydrating(o, holds, row', cache')
    BY <1>1, <1>4, <1>10, <1>12, <2>1, <2>5, <2>6 DEF Knows, Hydrating
  <2>8. Restarting(o, holds, row', cache')
    <3>1. o.pc = "save_restart" => Ephemeral(row.doc)
      BY <2>1 DEF Rules, Knows, Bounds, Ephemeral
    <3>2. o.pc = "save_restart" /\ o.revision = row.revision => row.doc.is_active
      BY <2>1 DEF Knows, Restarting, Interrupted
    <3>3. o.pc = "save_restart" => o.revision # row'.revision
      BY <2>5, <3>1
    <3>4. o.pc = "save_restart" => cache' = NoCache /\ o.messages = <<>>
      BY <1>1, <2>1 DEF Knows, Restarting
    <3>5. o.pc \in {"save_restart", "reread"} /\ holds => Lost(row, cache)
      BY <1>4, <2>1, <3>2 DEF Knows, Restarting
    <3>. QED
      BY <1>12, <3>3, <3>4, <3>5 DEF Restarting
  <2>9. Deciding(o, holds, row', cache')
    <3>1. SUFFICES ASSUME o.pc \in Acting, holds
                   PROVE  o.revision # row'.revision /\ ~o.doc.is_active
      BY DEF Deciding
    <3>2. o.revision = row.revision => ~o.doc.is_active
      <4>1. SUFFICES ASSUME o.revision = row.revision
                     PROVE  ~o.doc.is_active
        OBVIOUS
      <4>. DEFINE held == cache # NoCache
      <4>2. o.doc = Hydrated(row.doc, held)
        BY <2>1, <3>1, <4>1 DEF Knows, Deciding
      <4>3. held \in BOOLEAN
        OBVIOUS
      <4>. HIDE DEF held
      <4>. QED
        BY <1>3, <1>4, <4>2, <4>3, HydratedDocument
    <3>. QED
      BY <2>1, <2>5, <2>6, <3>1, <3>2 DEF Knows, Deciding
  <2>10. o.pc = "cache" => cache' # NoCache
    BY <1>1, <2>1 DEF Knows
  <2>11. Knows(o, holds, row', cache')
    BY <2>4, <2>7, <2>8, <2>9, <2>10 DEF Knows
  <2>. QED
    BY <2>11 DEF o, holds
<1>14. Listed(cleaner', row')
  BY <1>1, <1>2 DEF Listed
<1>15. Storage'
  BY <1>1, <1>8, <1>10 DEF Consistent, Storage, RowExpired, Retained
<1>. QED
  BY <1>1, <1>9, <1>13, <1>14, <1>15, NobodyMoves

LEMMA RestartConsistent ==
    ASSUME Types, Consistent, Restart
    PROVE  Types' /\ Consistent'
<1>1. /\ req' = [q \in Requests |-> Idle] /\ lock' = Nobody /\ cache' = NoCache
      /\ row' = row /\ log' = log /\ cleaner' = cleaner
      /\ deleted' = deleted /\ commits' = commits /\ acked' = acked
  BY DEF Restart, histories
<1>2. Types'
  BY <1>1 DEF Types
<1>3. ASSUME NEW q \in Requests
      PROVE  Place(req'[q], lock' = q) /\ req'[q] \notin Loaded /\ req'[q].pc \notin Gone
  <2>1. req'[q] = Idle /\ lock' # q
    BY <1>1, NamesAssumption
  <2>. QED
    BY <2>1, Kinds DEF Idle, Place, Gone
<1>4. Storage' /\ Listed(cleaner', row')
  BY <1>1 DEF Consistent, Storage, Retained, RowExpired
<1>. QED
  BY <1>2, <1>3, <1>4 DEF Consistent

LEMMA InitConsistent ==
    ASSUME Init
    PROVE  Types /\ Consistent
<1>1. PICK lesson \in Lessons :
        row = [present |-> TRUE, revision |-> 0, doc |-> NewSession(lesson), messages |-> <<>>]
  BY DEF Init
<1>2. /\ row \in Rows /\ row.present /\ row.messages = <<>>
      /\ row.doc.transcript_unavailable_reason = "none"
      /\ row.doc.logging_policy \in Policies
  BY <1>1, NewDocument DEF Rows
<1>3. cache \in Seq(MessageIds) \cup {NoCache}
  BY DEF Init
<1>4. log \in [present : BOOLEAN, available : BOOLEAN, turns : Nat, finalized : BOOLEAN]
  <2>1. (~Ephemeral(row.doc)) \in BOOLEAN
    OBVIOUS
  <2>. QED
    BY <2>1 DEF Init, NoLog
<1>5. Types
  BY <1>2, <1>3, <1>4 DEF Init, Types
<1>6. ASSUME NEW q \in Requests
      PROVE  Place(req[q], lock = q) /\ req[q] \notin Loaded /\ req[q].pc \notin Gone
  <2>1. req[q] = Idle /\ lock # q
    BY NamesAssumption DEF Init
  <2>. QED
    BY <2>1, Kinds DEF Idle, Place, Gone
<1>7. Storage
  BY <1>2 DEF Init, Storage, RowExpired
<1>8. Listed(cleaner, row)
  BY DEF Init, Listed, Idle
<1>. QED
  BY <1>5, <1>6, <1>7, <1>8 DEF Consistent

LEMMA NextConsistent ==
    ASSUME NoRevival, IInv, [Next]_vars
    PROVE  IInv'
<1>. USE DEF IInv
<1>1. ASSUME NEW q \in Requests, Start(q) \/ RequestStep(q) \/ Cancel(q)
      PROVE  IInv'
  <2>1. CASE Start(q) \/ Acquire(q) \/ Read(q) \/ Reread(q) \/ Decide(q) \/ InferenceAnswers(q)
    BY <2>1, StartConsistent, AcquireConsistent, ReadConsistent, RereadConsistent,
       DecideConsistent, AnswerConsistent
  <2>2. CASE \/ ReadMissing(q) \/ InferenceFails(q) \/ SaveConflict(q)
             \/ LogFails(q) \/ Respond(q) \/ Cancel(q)
    BY <2>2, FinishesConsistent
  <2>3. CASE CheckLog(q) \/ SaveLog(q) \/ DeleteLog(q)
    BY <2>3, LogConsistent
  <2>4. CASE Hydrate(q) \/ CacheTranscript(q) \/ DeleteCache(q)
    BY <2>4, HydrateConsistent, CacheConsistent, DeleteCacheConsistent
  <2>5. CASE SaveRestart(q) \/ SaveSession(q) \/ DeleteRow(q)
    BY <2>5, SaveRestartConsistent, SaveSessionConsistent, DeleteRowConsistent
  <2>. QED
    BY <1>1, <2>1, <2>2, <2>3, <2>4, <2>5 DEF RequestStep
<1>2. CASE Restart
  BY <1>2, RestartConsistent
<1>3. CASE CleanerStep \/ CleanerCrash
  BY <1>3, CleanerQuiet, CleanerSaveConsistent DEF CleanerStep
<1>4. CASE UNCHANGED vars
  <2>1. UNCHANGED <<row, cache, log, lock, req, cleaner, deleted, commits, acked>>
    BY <1>4 DEF vars
  <2>2. Types'
    BY <2>1 DEF Types
  <2>3. Storage'
    BY <2>1 DEF Consistent, Storage, Retained, RowExpired
  <2>4. \A p \in Requests : req[p] \in Loaded => Knows(req[p], lock = p, row', cache')
    BY <2>1 DEF Consistent
  <2>5. Listed(cleaner', row')
    BY <2>1 DEF Consistent
  <2>. QED
    BY <2>1, <2>2, <2>3, <2>4, <2>5, NobodyMoves
<1>. QED
  BY <1>1, <1>2, <1>3, <1>4 DEF Next

\* What the row, the cache, the log and every coroutine's copy have to do
\* with each other, at any moment.
THEOREM ServiceConsistent ==
    ASSUME NoRevival
    PROVE  Spec => []IInv
<1>1. Init => IInv
  BY InitConsistent DEF IInv
<1>2. IInv /\ [Next]_vars => IInv'
  BY NextConsistent
<1>. QED
  BY <1>1, <1>2, PTL DEF Spec

---------------------------------------------------------------------------
(***************************************************************************)
(* Transcripts and turns.                                                  *)
(***************************************************************************)
LEMMA ContainsAppend ==
    ASSUME NEW S, NEW s \in Seq(S), NEW x \in S, NEW m
    PROVE  /\ Contains(Append(s, x), m) <=> Contains(s, m) \/ x = m
           /\ Len(Append(s, x)) = Len(s) + 1
<1>. DEFINE t == Append(s, x)
<1>1. /\ Len(t) = Len(s) + 1 /\ Len(s) \in Nat
      /\ \A i \in 1 .. Len(s) : t[i] = s[i]
      /\ t[Len(s) + 1] = x
  OBVIOUS
<1>. HIDE DEF t
<1>2. ASSUME Contains(t, m)
      PROVE  Contains(s, m) \/ x = m
  <2>1. PICK i \in 1 .. Len(t) : t[i] = m
    BY <1>2 DEF Contains
  <2>2. CASE i = Len(s) + 1
    BY <1>1, <2>1, <2>2
  <2>3. CASE i # Len(s) + 1
    BY <1>1, <2>1, <2>3 DEF Contains
  <2>. QED
    BY <2>2, <2>3
<1>3. ASSUME Contains(s, m)
      PROVE  Contains(t, m)
  <2>1. PICK i \in 1 .. Len(s) : s[i] = m
    BY <1>3 DEF Contains
  <2>2. i \in 1 .. Len(t) /\ t[i] = m
    BY <1>1, <2>1
  <2>. QED
    BY <2>2 DEF Contains
<1>4. ASSUME x = m
      PROVE  Contains(t, m)
  <2>1. Len(s) + 1 \in 1 .. Len(t) /\ t[Len(s) + 1] = m
    BY <1>1, <1>4
  <2>. QED
    BY <2>1 DEF Contains
<1>. QED
  BY <1>1, <1>2, <1>3, <1>4 DEF t

LEMMA ContainsEmpty == \A m : ~Contains(<<>>, m) /\ Len(<<>>) = 0
BY DEF Contains

\* Only the holder of the lock is between a commit and the cache.
LEMMA CacheIsHeld ==
    ASSUME Types, Consistent, NEW q \in Requests, req[q].pc = "cache"
    PROVE  lock = q /\ cache # NoCache /\ req[q] \in Loaded
<1>1. req[q] \in Loaded
  BY Kinds DEF Types
<1>2. Place(req[q], lock = q) /\ Rules(req[q]) /\ Knows(req[q], lock = q, row, cache)
  BY <1>1 DEF Consistent
<1>. QED
  BY <1>1, <1>2 DEF Place, Rules, Knows, Before

\* A submission works on every turn: its transcript is the stored one, or
\* the one in memory, and nobody is about to replace that.
LEMMA SubmissionTranscript ==
    ASSUME Types, Consistent, Transcripts, NEW q \in Requests,
           req[q].pc \in {"infer", "save"}, req[q].op.name = "submit"
    PROVE  /\ req[q] \in Loaded /\ row.present /\ ~RowExpired
           /\ req[q].revision = row.revision
           /\ req[q].messages = Transcript(row, cache)
           /\ req[q].doc.turn_count = row.doc.turn_count
           /\ req[q].op.message \in MessageIds
           /\ ~Contains(req[q].messages, req[q].op.message)
           /\ Ephemeral(row.doc) => cache # NoCache
           /\ NoLoss \/ ~Ephemeral(row.doc) => Holds(req[q].messages, row.doc)
<1>. DEFINE o == req[q]
            held == cache # NoCache
<1>1. o \in Loaded
  BY Kinds DEF Types
<1>2. /\ Place(o, lock = q) /\ Rules(o) /\ Knows(o, lock = q, row, cache)
  BY <1>1 DEF Consistent
<1>3. lock = q
  BY <1>2 DEF Place, Before
<1>4. o.doc.is_active /\ ~Contains(o.messages, o.op.message)
  BY <1>2 DEF Rules, Allowed, CanSubmit, AlreadyDone, Committed
<1>5. /\ o.revision = row.revision /\ o.messages = Transcript(row, cache)
      /\ o.doc = Hydrated(row.doc, held)
      /\ Ephemeral(row.doc) /\ row.doc.turn_count = 0 => cache # NoCache
  BY <1>2, <1>3, <1>4 DEF Knows, Deciding, Acting
<1>6. row.doc \in Sessions /\ row.doc.turn_count \in Nat /\ held \in BOOLEAN
  BY DEF Types, Rows, Sessions
<1>7. /\ o.doc.turn_count = row.doc.turn_count
      /\ o.doc.is_active => row.doc.is_active
      /\ Interrupted(row.doc, held) => ~o.doc.is_active
  <2>. HIDE DEF held
  <2>. QED
    BY <1>5, <1>6, HydratedDocument
<1>8. row.doc.is_active /\ row.present /\ ~RowExpired
  BY <1>2, <1>3, <1>4, <1>7 DEF Knows, Bounds, Working, Acting, Consistent, Storage
<1>9. Ephemeral(row.doc) => cache # NoCache
  BY <1>4, <1>5, <1>6, <1>7, <1>8 DEF Interrupted
<1>10. \A p \in Requests : req[p].pc # "cache"
  BY <1>3, CacheIsHeld
<1>11. NoLoss \/ ~Ephemeral(row.doc) => Holds(o.messages, row.doc)
  <2>1. CASE Ephemeral(row.doc)
    BY <1>5, <1>9, <1>10, <2>1 DEF Transcripts, Remembered, Transcript
  <2>2. CASE ~Ephemeral(row.doc)
    BY <1>5, <1>8, <2>2 DEF Transcripts, Retained, Transcript
  <2>. QED
    BY <2>1, <2>2
<1>12. o.op.message \in MessageIds
  BY <1>1, OperationKinds DEF Loaded
<1>. QED
  BY <1>1, <1>4, <1>5, <1>7, <1>8, <1>9, <1>11, <1>12

\* A step that stores nothing and consumes no turn: what is loaded is what
\* was stored.
LEMMA QuietTranscripts ==
    ASSUME Types, Consistent, TInv, NEW q \in Requests,
           row' = row, cache' = cache, commits' = commits,
           \A p \in Requests \ {q} : req'[p] = req[p],
           req'[q] \in Loaded =>
                \/ req[q] \in Loaded /\ req'[q].messages = req[q].messages
                \/ req'[q].messages = row.messages,
           req'[q].pc # "cache",
           NoLoss /\ Ephemeral(row.doc) => req[q].pc # "cache",
           req'[q].pc \in After \cup {"done"} /\ req'[q].op.name = "submit" =>
                commits[req'[q].op.message] > 0,
           \A m \in acked' : m \in acked \/ commits[m] > 0
    PROVE  TInv'
<1>1. Heard'
  <2>1. SUFFICES ASSUME NEW m \in MessageIds, commits[m] = 0, NEW p \in Requests, req'[p] \in Loaded
                 PROVE  ~Contains(req'[p].messages, m)
    BY DEF Heard, TInv
  <2>. QED
    BY <2>1 DEF Heard, TInv
<1>2. Transcripts'
  <2>1. Retained' <=> Retained
    BY DEF Retained, RowExpired
  <2>2. NoLoss /\ Ephemeral(row.doc) => Remembered'
    <3>1. SUFFICES ASSUME NoLoss, Ephemeral(row.doc)
                   PROVE  Remembered'
      OBVIOUS
    <3>2. Remembered /\ \A p \in Requests : req'[p].pc = "cache" <=> req[p].pc = "cache"
      BY <3>1 DEF TInv, Transcripts
    <3>3. \A p \in Requests : req'[p].pc = "cache" => req'[p] = req[p]
      OBVIOUS
    <3>. QED
      BY <3>2, <3>3 DEF Remembered, Holds
  <2>. QED
    BY <2>1, <2>2 DEF TInv, Transcripts, Holds
<1>3. Submitted'
  <2>1. ASSUME NEW p \in Requests, req'[p].pc \in After \cup {"done"}, req'[p].op.name = "submit"
        PROVE  commits[req'[p].op.message] > 0
    BY <2>1 DEF TInv, Submitted
  <2>2. \A m \in acked' : commits[m] > 0
    BY DEF TInv, Submitted
  <2>. QED
    BY <2>1, <2>2 DEF Submitted
<1>4. NoLoss \/ ~Ephemeral(row.doc) => AtMostOncePerMessage'
  BY DEF TInv, AtMostOncePerMessage
<1>. QED
  BY <1>1, <1>2, <1>3, <1>4 DEF TInv

\* Most steps only move a coroutine.
LEMMA MoveTranscripts ==
    ASSUME Types, Consistent, Types', TInv, NEW q \in Requests,
           \/ Start(q) \/ Acquire(q) \/ Read(q) \/ Reread(q) \/ Decide(q)
           \/ InferenceAnswers(q) \/ CheckLog(q) \/ SaveLog(q) \/ DeleteLog(q)
           \/ ReadMissing(q) \/ InferenceFails(q) \/ SaveConflict(q)
           \/ LogFails(q) \/ Respond(q) \/ Cancel(q)
    PROVE  TInv'
<1>. DEFINE o == req[q]
<1>1. /\ row' = row /\ cache' = cache /\ commits' = commits
      /\ ~Respond(q) => acked' = acked
  BY DEF Start, Acquire, Read, Reread, Decide, InferenceAnswers, CheckLog, SaveLog, DeleteLog,
         ReadMissing, InferenceFails, SaveConflict, LogFails, Respond, Cancel, histories
<1>2. o \in {Idle} \cup Asking \cup Loaded /\ req \in [Requests -> {Idle} \cup Asking \cup Loaded]
  BY DEF Types
<1>3. o.pc \notin {"idle", "wait", "read"} => o \in Loaded
  BY <1>2, Kinds
<1>4. CASE ReadMissing(q) \/ InferenceFails(q) \/ SaveConflict(q)
           \/ LogFails(q) \/ Respond(q) \/ Cancel(q)
  <2>1. /\ req'[q] = Idle /\ \A p \in Requests \ {q} : req'[p] = req[p]
    BY <1>2, <1>4 DEF ReadMissing, InferenceFails, SaveConflict, LogFails, Respond, Cancel, Finish
  <2>2. Idle \notin Loaded /\ Idle.pc = "idle"
    BY Kinds DEF Idle
  <2>3. NoLoss /\ Ephemeral(row.doc) => o.pc # "cache"
    <3>1. CASE Cancel(q)
      BY <3>1 DEF Cancel, NoLoss, Consistent, Storage, Ephemeral
    <3>2. CASE ~Cancel(q)
      BY <1>4, <3>2 DEF ReadMissing, InferenceFails, SaveConflict, LogFails, Respond
    <3>. QED
      BY <3>1, <3>2
  <2>4. \A m \in acked' : m \in acked \/ commits[m] > 0
    BY <1>1 DEF Respond, TInv, Submitted
  <2>. QED
    BY <1>1, <2>1, <2>2, <2>3, <2>4, QuietTranscripts DEF After
<1>5. CASE Start(q) \/ Acquire(q) \/ Read(q)
  <2>1. /\ \A p \in Requests \ {q} : req'[p] = req[p]
        /\ req'[q].pc \in {"wait", "read", "hydrate"}
        /\ Read(q) => req'[q].messages = row.messages
        /\ ~Read(q) => req'[q].pc # "hydrate"
    BY <1>2, <1>5 DEF Start, Loading, Acquire, Goto, Read, Asking, Idle, Loaded
  <2>2. req'[q] \in Loaded => req'[q].pc = "hydrate"
    BY <2>1 DEF Loaded, Before, Acting, After, Gone
  <2>3. o.pc # "cache"
    BY <1>5 DEF Start, Acquire, Read
  <2>. QED
    BY <1>1, <1>5, <2>1, <2>2, <2>3, QuietTranscripts DEF After, Respond, Start, Acquire, Read
<1>6. CASE Reread(q)
  <2>1. o \in Loaded /\ o.pc # "cache"
    BY <1>3, <1>6 DEF Reread
  <2>2. /\ \A p \in Requests \ {q} : req'[p] = req[p]
        /\ req'[q].pc = "decide" /\ req'[q].messages = row.messages
    BY <1>2, <1>6, <2>1 DEF Reread, Loaded
  <2>. QED
    BY <1>1, <1>6, <2>1, <2>2, QuietTranscripts DEF After, Respond, Reread
<1>7. CASE Decide(q) \/ InferenceAnswers(q) \/ CheckLog(q) \/ SaveLog(q) \/ DeleteLog(q)
  <2>1. o \in Loaded /\ o.pc \in {"decide", "infer", "log", "save_log", "delete_log"}
    BY <1>3, <1>7 DEF Decide, InferenceAnswers, CheckLog, SaveLog, DeleteLog
  <2>2. \/ Finish(q)
        \/ \E pc \in {"infer", "delete", "save", "log", "done", "save_log"} : Goto(q, pc)
    BY <1>7 DEF Decide, InferenceAnswers, CheckLog, SaveLog, DeleteLog
  <2>3. acked' = acked
    BY <1>1, <1>7 DEF Decide, InferenceAnswers, CheckLog, SaveLog, DeleteLog, Respond
  <2>4. CASE Finish(q)
    <3>1. /\ req'[q] = Idle /\ \A p \in Requests \ {q} : req'[p] = req[p]
      BY <1>2, <2>4 DEF Finish
    <3>2. Idle \notin Loaded /\ Idle.pc = "idle"
      BY Kinds DEF Idle
    <3>. QED
      BY <1>1, <2>1, <2>3, <3>1, <3>2, QuietTranscripts DEF After
  <2>5. ASSUME NEW pc \in {"infer", "delete", "save", "log", "done", "save_log"}, Goto(q, pc)
        PROVE  TInv'
    <3>. DEFINE r == [o EXCEPT !.pc = pc]
    <3>1. /\ req'[q] = r /\ \A p \in Requests \ {q} : req'[p] = req[p]
      BY <1>2, <2>5 DEF Goto
    <3>2. r.pc = pc /\ r.op = o.op /\ r.messages = o.messages
      BY <2>1 DEF Loaded
    <3>. HIDE DEF r
    <3>3. pc \in After \cup {"done"} /\ o.op.name = "submit" => commits[o.op.message] > 0
      <4>1. SUFFICES ASSUME pc \in After \cup {"done"}, o.op.name = "submit"
                     PROVE  commits[o.op.message] > 0
        OBVIOUS
      <4>2. Rules(o)
        BY <2>1 DEF Consistent
      <4>3. CASE o.pc \in {"log", "save_log"}
        BY <4>1, <4>3 DEF TInv, Submitted, After
      <4>4. CASE o.pc = "delete_log"
        BY <4>1, <4>2, <4>4 DEF Rules, Gone
      <4>5. CASE o.pc = "infer"
        <5>1. InferenceAnswers(q)
          BY <1>7, <4>5 DEF Decide, CheckLog, SaveLog, DeleteLog
        <5>2. req'[q].pc = "save"
          BY <1>2, <2>1, <5>1 DEF InferenceAnswers, Goto, Loaded
        <5>. QED
          BY <3>1, <3>2, <4>1, <5>2 DEF After
      <4>6. CASE o.pc = "decide"
        <5>1. Decide(q)
          BY <1>7, <4>6 DEF InferenceAnswers, CheckLog, SaveLog, DeleteLog
        <5>2. AlreadyDone(o)
          <6>1. SUFFICES ASSUME ~AlreadyDone(o)
                         PROVE  FALSE
            OBVIOUS
          <6>2. req'[q].pc \in {"idle", "infer"}
            BY <1>2, <2>1, <4>1, <5>1, <6>1 DEF Decide, Finish, Goto, Idle, Loaded
          <6>. QED
            BY <3>1, <3>2, <4>1, <6>2 DEF After
        <5>3. Contains(o.messages, o.op.message)
          BY <4>1, <5>2 DEF AlreadyDone, Committed
        <5>4. o.op.message \in MessageIds
          BY <2>1, <4>1, OperationKinds DEF Loaded
        <5>5. commits[o.op.message] # 0 /\ commits[o.op.message] \in Nat
          BY <2>1, <5>3, <5>4 DEF TInv, Heard, Types
        <5>. QED
          BY <5>5
      <4>. QED
        BY <2>1, <4>3, <4>4, <4>5, <4>6
    <3>4. r.pc # "cache" /\ o.pc # "cache"
      BY <2>1, <3>2
    <3>. QED
      BY <1>1, <2>1, <2>3, <3>1, <3>2, <3>3, <3>4, QuietTranscripts
  <2>. QED
    BY <2>2, <2>4, <2>5
<1>. QED
  BY <1>4, <1>5, <1>6, <1>7

\* Hydrating fills the cache only when there is nothing to remember.
LEMMA HydrateTranscripts ==
    ASSUME Types, Consistent, Types', TInv, NEW q \in Requests, Hydrate(q)
    PROVE  TInv'
<1>. DEFINE o == req[q]
<1>1. /\ o.pc = "hydrate" /\ row' = row /\ commits' = commits /\ acked' = acked
      /\ cache' = cache \/ (cache' = <<>> /\ cache = NoCache /\ CachedAfterHydrate(o.doc, FALSE))
  BY DEF Hydrate, histories
<1>2. o \in Loaded /\ req \in [Requests -> {Idle} \cup Asking \cup Loaded]
  BY <1>1, Kinds DEF Types
<1>3. /\ req'[q].pc \in {"save_restart", "decide"} /\ req'[q].op = o.op
      /\ \A p \in Requests \ {q} : req'[p] = req[p]
      /\ req'[q].messages = IF ~Ephemeral(o.doc) THEN o.messages
                            ELSE IF cache # NoCache THEN cache ELSE <<>>
  BY <1>2 DEF Hydrate, Loaded
<1>4. Knows(o, lock = q, row, cache)
  BY <1>2 DEF Consistent
<1>5. cache' = cache \/ (cache' = <<>> /\ cache = NoCache /\ row.doc.turn_count = 0 /\ Ephemeral(row.doc))
  BY <1>1, <1>4 DEF Knows, Hydrating, Bounds, CachedAfterHydrate, Ephemeral
<1>6. Heard'
  <2>1. ASSUME NEW m \in MessageIds, commits[m] = 0
        PROVE  /\ ~Contains(row.messages, m)
               /\ cache' # NoCache => ~Contains(cache', m)
               /\ ~Contains(req'[q].messages, m)
               /\ \A p \in Requests \ {q} : req'[p] \in Loaded => ~Contains(req'[p].messages, m)
    BY <1>2, <1>3, <1>5, <2>1, ContainsEmpty DEF TInv, Heard
  <2>. QED
    BY <1>1, <2>1 DEF Heard
<1>7. Transcripts'
  <2>1. Retained' <=> Retained
    BY <1>1 DEF Retained, RowExpired
  <2>2. \A p \in Requests : req'[p].pc = "cache" <=> req[p].pc = "cache"
    BY <1>1, <1>3
  <2>3. \A p \in Requests : req'[p].pc = "cache" => req'[p] = req[p]
    BY <1>1, <1>3
  <2>4. ASSUME NoLoss, Ephemeral(row.doc)
        PROVE  Remembered'
    <3>1. Remembered
      BY <2>4 DEF TInv, Transcripts
    <3>2. CASE cache' = cache
      BY <1>1, <2>2, <2>3, <3>1, <3>2 DEF Remembered, Holds
    <3>3. CASE cache' # cache
      <4>1. /\ cache' = <<>> /\ row.doc.turn_count = 0 /\ \A m \in MessageIds : commits[m] = 0
            /\ \A p \in Requests : req[p].pc # "cache"
        BY <1>5, <3>1, <3>3, CacheIsHeld DEF Remembered
      <4>2. Holds(<<>>, row.doc)'
        BY <1>1, <4>1, ContainsEmpty DEF Holds
      <4>. QED
        BY <1>1, <2>2, <4>1, <4>2 DEF Remembered
    <3>. QED
      BY <3>2, <3>3
  <2>. QED
    BY <1>1, <2>1, <2>4 DEF TInv, Transcripts, Holds
<1>8. Submitted'
  BY <1>1, <1>3 DEF TInv, Submitted, After
<1>9. NoLoss \/ ~Ephemeral(row.doc) => AtMostOncePerMessage'
  BY <1>1 DEF TInv, AtMostOncePerMessage
<1>. QED
  BY <1>1, <1>6, <1>7, <1>8, <1>9 DEF TInv

\* The submission that has committed hands its transcript over.
LEMMA CacheTranscripts ==
    ASSUME Types, Consistent, Types', TInv, NEW q \in Requests, CacheTranscript(q)
    PROVE  TInv'
<1>. DEFINE o == req[q]
<1>1. /\ o.pc = "cache" /\ row' = row /\ commits' = commits /\ acked' = acked
      /\ cache' = o.messages
  BY DEF CacheTranscript, histories
<1>2. /\ o \in Loaded /\ lock = q /\ req \in [Requests -> {Idle} \cup Asking \cup Loaded]
      /\ \A p \in Requests \ {q} : req[p].pc # "cache"
  BY <1>1, CacheIsHeld DEF Types
<1>3. /\ req'[q].pc = "log" /\ req'[q].op = o.op /\ req'[q].messages = o.messages
      /\ \A p \in Requests \ {q} : req'[p] = req[p]
  BY <1>2 DEF CacheTranscript, Goto, Loaded
<1>4. Heard'
  <2>1. ASSUME NEW m \in MessageIds, commits[m] = 0
        PROVE  /\ ~Contains(row.messages, m) /\ ~Contains(o.messages, m)
               /\ \A p \in Requests \ {q} : req'[p] \in Loaded => ~Contains(req'[p].messages, m)
    BY <1>2, <1>3, <2>1 DEF TInv, Heard
  <2>. QED
    BY <1>1, <1>3, <2>1 DEF Heard
<1>5. Transcripts'
  <2>1. Retained' <=> Retained
    BY <1>1 DEF Retained, RowExpired
  <2>2. NoLoss /\ Ephemeral(row.doc) => Remembered'
    BY <1>1, <1>2, <1>3 DEF TInv, Transcripts, Remembered, Holds
  <2>. QED
    BY <1>1, <2>1, <2>2 DEF TInv, Transcripts, Holds
<1>6. Submitted'
  BY <1>1, <1>2, <1>3 DEF TInv, Submitted, After
<1>7. NoLoss \/ ~Ephemeral(row.doc) => AtMostOncePerMessage'
  BY <1>1 DEF TInv, AtMostOncePerMessage
<1>. QED
  BY <1>1, <1>4, <1>5, <1>6, <1>7 DEF TInv

\* A commit consumes one turn for one message, which is in the transcript
\* from then on.
LEMMA SaveTranscripts ==
    ASSUME Types, Consistent, Types', TInv, NEW q \in Requests, SaveSession(q)
    PROVE  TInv'
<1>. DEFINE o == req[q]
            m0 == o.op.message
            turn == o.op.name = "submit"
            messages == IF turn THEN Append(o.messages, m0) ELSE o.messages
            doc == Effect(o.op, o.doc)
            held == cache # NoCache
<1>1. /\ o.pc = "save" /\ Saves(o) /\ row' = Stored(o, doc, messages)
      /\ commits' = IF turn THEN [commits EXCEPT ![m0] = @ + 1] ELSE commits
      /\ cache' = cache /\ acked' = acked
  BY DEF SaveSession
<1>2. /\ o \in Loaded /\ lock = q /\ row.present
      /\ o.op.name \notin {"read", "delete"}
      /\ turn => m0 \in MessageIds
      /\ o.doc = Hydrated(row.doc, held)
      /\ o.messages = Transcript(row, cache)
  BY <1>1, SavesStored
<1>3. /\ o.doc \in Sessions /\ o.doc.turn_count \in Nat /\ row.doc \in Sessions
      /\ row.doc.turn_count \in Nat /\ o.messages \in Seq(MessageIds) /\ o.op \in Operations
      /\ held \in BOOLEAN /\ commits \in [MessageIds -> Nat]
      /\ req \in [Requests -> {Idle} \cup Asking \cup Loaded]
  BY <1>2 DEF Loaded, Types, Rows, Sessions
<1>4. /\ doc \in Sessions
      /\ doc.turn_count = IF turn THEN o.doc.turn_count + 1 ELSE o.doc.turn_count
      /\ doc.logging_policy = o.doc.logging_policy
      /\ doc.transcript_unavailable_reason = o.doc.transcript_unavailable_reason
  BY <1>2, <1>3, EffectDocument
<1>. HIDE DEF held
<1>5. /\ o.doc.turn_count = row.doc.turn_count
      /\ o.doc.logging_policy = row.doc.logging_policy
      /\ ~Ephemeral(row.doc) => o.doc = row.doc
  BY <1>2, <1>3, HydratedDocument, HydratedPlain
<1>6. messages \in Seq(MessageIds)
  BY <1>2, <1>3
<1>7. /\ row'.present /\ row'.doc = doc
      /\ row'.messages = IF Ephemeral(doc) THEN <<>> ELSE messages
  <2>. HIDE DEF doc, messages
  <2>. QED
    BY <1>1, <1>4, <1>6, StoredRow
<1>8. /\ \A p \in Requests \ {q} : req'[p] = req[p]
      /\ req'[q].op = o.op /\ req'[q].messages = messages
      /\ req'[q].pc = IF turn /\ Ephemeral(doc) THEN "cache" ELSE "log"
  <2>1. req' = [req EXCEPT ![q] =
                  [o EXCEPT !.doc = doc, !.messages = messages, !.revision = row'.revision,
                            !.pc = IF turn /\ Ephemeral(doc) THEN "cache" ELSE "log"]]
    BY <1>3 DEF SaveSession
  <2>. HIDE DEF doc, messages
  <2>. QED
    BY <1>2, <1>3, <2>1 DEF Loaded
<1>9. Ephemeral(doc) <=> Ephemeral(row.doc)
  BY <1>4, <1>5 DEF Ephemeral
<1>10. turn => /\ ~Contains(o.messages, m0) /\ ~RowExpired
               /\ Ephemeral(row.doc) => cache # NoCache
               /\ NoLoss \/ ~Ephemeral(row.doc) => Holds(o.messages, row.doc)
  BY <1>1, SubmissionTranscript DEF TInv
<1>11. /\ turn => /\ Len(messages) = Len(o.messages) + 1
                  /\ \A m : Contains(messages, m) <=> Contains(o.messages, m) \/ m = m0
       /\ ~turn => messages = o.messages
  BY <1>2, <1>3, ContainsAppend
<1>. HIDE DEF doc, messages
<1>12. /\ \A m \in MessageIds : commits'[m] = 0 => commits[m] = 0 /\ (turn => m # m0)
       /\ \A m \in MessageIds : commits'[m] > 0 => commits[m] > 0 \/ (turn /\ m = m0)
       /\ \A m \in MessageIds : commits[m] > 0 => commits'[m] > 0
       /\ turn => commits'[m0] > 0
       /\ ~turn => commits' = commits
  BY <1>1, <1>2, <1>3
<1>13. \A p \in Requests : req[p].pc # "cache"
  BY <1>1, <1>2, CacheIsHeld
<1>14. Heard'
  <2>1. ASSUME NEW m \in MessageIds, commits'[m] = 0
        PROVE  /\ ~Contains(messages, m) /\ ~Contains(row'.messages, m)
               /\ cache # NoCache => ~Contains(cache, m)
               /\ \A p \in Requests \ {q} : req[p] \in Loaded => ~Contains(req[p].messages, m)
    <3>1. commits[m] = 0 /\ (turn => m # m0)
      BY <1>12, <2>1
    <3>2. ~Contains(messages, m)
      BY <1>2, <1>11, <3>1 DEF TInv, Heard
    <3>. QED
      BY <1>7, <3>1, <3>2, ContainsEmpty DEF TInv, Heard
  <2>. QED
    BY <1>1, <1>8, <2>1 DEF Heard
<1>15. Transcripts'
  <2>1. ASSUME Retained'
        PROVE  Holds(row.messages, row.doc)'
    <3>1. ~Ephemeral(row.doc) /\ Retained
      BY <1>2, <1>4, <1>5, <1>7, <1>9, <2>1 DEF Retained, RowExpired
    <3>2. Holds(o.messages, row.doc)
      BY <1>2, <3>1 DEF TInv, Transcripts, Transcript
    <3>. QED
      BY <1>3, <1>4, <1>5, <1>7, <1>9, <1>11, <1>12, <3>1, <3>2 DEF Holds
  <2>2. ASSUME NoLoss, Ephemeral(row'.doc)
        PROVE  Remembered'
    <3>1. Ephemeral(row.doc) /\ Remembered
      BY <1>7, <1>9, <2>2 DEF TInv, Transcripts
    <3>2. CASE turn
      <4>1. Holds(o.messages, row.doc)
        BY <1>10, <2>2, <3>2
      <4>2. row'.doc.turn_count = row.doc.turn_count + 1
        BY <1>4, <1>5, <1>7, <3>2
      <4>3. Len(messages) = row'.doc.turn_count
        BY <1>11, <3>2, <4>1, <4>2 DEF Holds
      <4>4. \A m \in MessageIds : commits'[m] > 0 => Contains(messages, m)
        BY <1>11, <1>12, <3>2, <4>1 DEF Holds
      <4>5. req'[q].pc = "cache" /\ \A p \in Requests \ {q} : req'[p].pc # "cache"
        BY <1>7, <1>8, <1>13, <2>2, <3>2
      <4>. QED
        BY <1>3, <1>8, <4>2, <4>3, <4>4, <4>5 DEF Remembered, Holds
    <3>3. CASE ~turn
      <4>1. /\ \A p \in Requests : req'[p].pc # "cache"
            /\ row'.doc.turn_count = row.doc.turn_count /\ commits' = commits
        BY <1>4, <1>5, <1>7, <1>8, <1>12, <1>13, <3>3
      <4>. QED
        BY <1>1, <1>13, <3>1, <4>1 DEF Remembered, Holds
    <3>. QED
      BY <3>2, <3>3
  <2>. QED
    BY <2>1, <2>2 DEF Transcripts
<1>16. Submitted'
  <2>1. ASSUME NEW p \in Requests, req'[p].pc \in After \cup {"done"}, req'[p].op.name = "submit"
        PROVE  commits'[req'[p].op.message] > 0
    <3>1. CASE p = q
      BY <1>8, <1>12, <2>1, <3>1
    <3>2. CASE p # q
      <4>1. req[p].pc \in After \cup {"done"} /\ req[p].op.name = "submit"
        BY <1>8, <2>1, <3>2
      <4>2. req[p].op.message \in MessageIds
        <5>1. req[p] \in Loaded
          BY <4>1, Kinds DEF Types, After
        <5>. QED
          BY <4>1, <5>1, OperationKinds DEF Loaded
      <4>. QED
        BY <1>8, <1>12, <3>2, <4>1, <4>2 DEF TInv, Submitted
    <3>. QED
      BY <3>1, <3>2
  <2>2. \A m \in acked' : commits'[m] > 0
    BY <1>1, <1>12 DEF TInv, Submitted, Types
  <2>. QED
    BY <2>1, <2>2 DEF Submitted
<1>17. ASSUME NoLoss \/ ~Ephemeral(row'.doc)
       PROVE  AtMostOncePerMessage'
  <2>1. (NoLoss \/ ~Ephemeral(row.doc)) /\ AtMostOncePerMessage
    BY <1>7, <1>9, <1>17 DEF TInv
  <2>2. turn => commits[m0] = 0
    BY <1>2, <1>3, <1>10, <2>1 DEF Holds
  <2>. QED
    BY <1>1, <1>2, <1>3, <2>1, <2>2 DEF AtMostOncePerMessage
<1>. QED
  BY <1>14, <1>15, <1>16, <1>17 DEF TInv

\* Whatever else stores the row leaves nothing retained: a closure that has
\* lost its transcript, a deletion, an expiry.
LEMMA RowChanges ==
    ASSUME NoRevival, Types, Consistent, NEW q \in Requests, row' # row,
           SaveRestart(q) \/ DeleteRow(q) \/ DeleteCache(q)
    PROVE  /\ row'.messages \in {row.messages, <<>>}
           /\ row'.doc.turn_count = row.doc.turn_count
           /\ Ephemeral(row'.doc) <=> Ephemeral(row.doc)
           /\ ~Retained'
<1>. DEFINE o == req[q]
<1>1. CASE SaveRestart(q)
  <2>1. o \in Loaded
    BY <1>1, Kinds DEF SaveRestart, Types
  <2>2. Rules(o) /\ Knows(o, lock = q, row, cache)
    BY <2>1 DEF Consistent
  <2>3. Ephemeral(o.doc) /\ Saves(o) /\ row' = Stored(o, o.doc, o.messages)
    BY <1>1, <2>2 DEF SaveRestart, Rules
  <2>4. o.doc \in Sessions /\ o.messages \in Seq(MessageIds) /\ row.doc \in Sessions
    BY <2>1 DEF Loaded, Types, Rows
  <2>5. row'.doc = o.doc /\ row'.messages = <<>>
    BY <2>3, <2>4, StoredRow
  <2>6. Ephemeral(row.doc)
    BY <2>2, <2>3 DEF Knows, Bounds, Ephemeral
  <2>7. row.present
    BY <2>6, Undisabled DEF Consistent, Storage
  <2>8. Interrupted(row.doc, FALSE) /\ o.doc = Hydrated(row.doc, FALSE)
    BY <1>1, <2>2, <2>3, <2>7 DEF SaveRestart, Knows, Restarting, Saves
  <2>9. o.doc.turn_count = row.doc.turn_count
    BY <2>4, <2>8, HydratedClosed
  <2>. QED
    BY <2>3, <2>5, <2>6, <2>9 DEF Retained
<1>2. CASE DeleteRow(q)
  BY <1>2 DEF DeleteRow, Types, Rows, Retained
<1>3. CASE DeleteCache(q)
  BY <1>3 DEF DeleteCache
<1>. QED
  BY <1>1, <1>2, <1>3

LEMMA ExpiredRow ==
    ASSUME Types, Consistent, CleanerSave, row' # row
    PROVE  /\ row'.messages = <<>> /\ row'.doc.turn_count = row.doc.turn_count
           /\ Ephemeral(row'.doc) <=> Ephemeral(row.doc)
           /\ ~Retained'
<1>1. /\ cleaner.pc = "save" /\ row' = Stored(cleaner, ExpireContent(cleaner.doc), <<>>)
  BY DEF CleanerSave
<1>2. cleaner \in [pc : {"save", "expire_log"}, doc : Sessions, revision : Nat]
  BY <1>1 DEF Types, Idle
<1>3. /\ cleaner.doc.logging_policy = row.doc.logging_policy
      /\ cleaner.doc.turn_count = row.doc.turn_count
  BY <1>1 DEF Consistent, Listed
<1>. DEFINE doc == ExpireContent(cleaner.doc)
<1>4. /\ doc.turn_count = cleaner.doc.turn_count
      /\ doc.logging_policy = cleaner.doc.logging_policy
      /\ doc.transcript_unavailable_reason = "content_expired"
  BY <1>2, ExpiredDocument
<1>. HIDE DEF doc
<1>5. row'.doc = doc /\ row'.messages = <<>>
  BY <1>1 DEF Stored, doc
<1>. QED
  BY <1>3, <1>4, <1>5 DEF Retained, RowExpired, Ephemeral

LEMMA RowTranscripts ==
    ASSUME NoRevival, Types, Consistent, Types', TInv, NEW q \in Requests,
           SaveRestart(q) \/ DeleteRow(q) \/ DeleteCache(q)
    PROVE  TInv'
<1>. DEFINE o == req[q]
<1>1. /\ o.pc \in {"save_restart", "delete", "delete_cache"}
      /\ commits' = commits /\ acked' = acked
      /\ ~DeleteCache(q) => cache' = cache
  BY DEF SaveRestart, DeleteRow, DeleteCache, histories
<1>2. o \in Loaded /\ req \in [Requests -> {Idle} \cup Asking \cup Loaded]
  BY <1>1, Kinds DEF Types
<1>3. Rules(o) /\ Knows(o, lock = q, row, cache)
  BY <1>2 DEF Consistent
<1>4. /\ req'[q].pc \in {"reread", "decide", "delete_cache", "delete_log"}
      /\ req'[q].messages = o.messages
      /\ \A p \in Requests \ {q} : req'[p] = req[p]
  BY <1>1, <1>2 DEF SaveRestart, DeleteRow, DeleteCache, Goto, Loaded
<1>5. cache' = cache
  <2>1. CASE DeleteCache(q)
    <3>1. o.op.name = "delete" /\ o.op \in Operations
      BY <1>2, <1>3, <2>1 DEF DeleteCache, Rules, Gone, Loaded
    <3>2. ~Ephemeral(row.doc)
      BY <3>1, OperationKinds, Undisabled
    <3>. QED
      BY <2>1, <3>2 DEF DeleteCache, Consistent, Storage
  <2>. QED
    BY <1>1, <2>1
<1>6. CASE row' = row
  BY <1>1, <1>2, <1>4, <1>5, <1>6, QuietTranscripts DEF After
<1>7. CASE row' # row
  <2>1. /\ row'.messages \in {row.messages, <<>>}
        /\ row'.doc.turn_count = row.doc.turn_count
        /\ Ephemeral(row'.doc) <=> Ephemeral(row.doc)
        /\ ~Retained'
    BY <1>7, RowChanges
  <2>2. Heard'
    <3>1. ASSUME NEW m \in MessageIds, commits[m] = 0
          PROVE  /\ ~Contains(row'.messages, m) /\ ~Contains(o.messages, m)
                 /\ cache # NoCache => ~Contains(cache, m)
                 /\ \A p \in Requests \ {q} : req'[p] \in Loaded => ~Contains(req'[p].messages, m)
      BY <1>2, <1>4, <2>1, <3>1, ContainsEmpty DEF TInv, Heard
    <3>. QED
      BY <1>1, <1>4, <1>5, <3>1 DEF Heard
  <2>3. Transcripts'
    <3>1. \A p \in Requests : req'[p].pc = "cache" <=> req[p].pc = "cache"
      BY <1>1, <1>4
    <3>2. \A p \in Requests : req'[p].pc = "cache" => req'[p] = req[p]
      BY <1>1, <1>4
    <3>3. NoLoss /\ Ephemeral(row'.doc) => Remembered'
      BY <1>1, <1>5, <2>1, <3>1, <3>2 DEF TInv, Transcripts, Remembered, Holds
    <3>. QED
      BY <2>1, <3>3 DEF Transcripts
  <2>4. Submitted'
    BY <1>1, <1>4 DEF TInv, Submitted, After
  <2>5. NoLoss \/ ~Ephemeral(row'.doc) => AtMostOncePerMessage'
    BY <1>1, <2>1 DEF TInv, AtMostOncePerMessage
  <2>. QED
    BY <2>2, <2>3, <2>4, <2>5 DEF TInv
<1>. QED
  BY <1>6, <1>7

LEMMA SurroundingTranscripts ==
    ASSUME NoRevival, Types, Consistent, Types', TInv,
           CleanerStep \/ CleanerCrash \/ Restart \/ UNCHANGED vars
    PROVE  TInv'
<1>1. commits' = commits /\ acked' = acked
  BY DEF CleanerStep, CleanerList, CleanerSave, CleanerExpireLog, CleanerCrash, Restart,
         vars, histories
<1>2. CASE Restart
  <2>1. row' = row /\ cache' = NoCache
    BY <1>2 DEF Restart
  <2>2. ASSUME NEW p \in Requests
        PROVE  req'[p].pc = "idle" /\ req'[p] \notin Loaded
    <3>1. req'[p] = Idle /\ Idle.pc = "idle"
      BY <1>2 DEF Restart, Idle
    <3>. QED
      BY <3>1, Kinds
  <2>3. Heard'
    BY <1>1, <2>1, <2>2 DEF TInv, Heard
  <2>4. Retained' <=> Retained
    BY <2>1 DEF Retained, RowExpired
  <2>5. Transcripts'
    BY <1>1, <2>1, <2>2, <2>4 DEF TInv, Transcripts, Remembered, Holds
  <2>6. Submitted'
    BY <1>1, <2>2 DEF TInv, Submitted, After
  <2>. QED
    BY <1>1, <2>1, <2>3, <2>5, <2>6 DEF TInv, AtMostOncePerMessage
<1>3. CASE ~Restart
  <2>1. cache' = cache /\ req' = req
    BY <1>3 DEF CleanerStep, CleanerList, CleanerSave, CleanerExpireLog, CleanerCrash, vars
  <2>2. \/ row' = row
        \/ /\ row'.messages = <<>> /\ row'.doc.turn_count = row.doc.turn_count
           /\ Ephemeral(row'.doc) <=> Ephemeral(row.doc)
           /\ ~Retained'
    <3>1. CASE CleanerSave /\ row' # row
      BY <3>1, ExpiredRow
    <3>2. CASE ~CleanerSave
      BY <1>3, <3>2 DEF CleanerStep, CleanerList, CleanerExpireLog, CleanerCrash, vars
    <3>. QED
      BY <3>1, <3>2
  <2>3. Heard'
    BY <1>1, <2>1, <2>2, ContainsEmpty DEF TInv, Heard
  <2>4. Transcripts'
    <3>1. Retained' => Retained /\ row' = row
      BY <2>2 DEF Retained, RowExpired
    <3>2. /\ row'.doc.turn_count = row.doc.turn_count
          /\ Ephemeral(row'.doc) <=> Ephemeral(row.doc)
      BY <2>2
    <3>. QED
      BY <1>1, <2>1, <3>1, <3>2 DEF TInv, Transcripts, Remembered, Holds
  <2>5. Submitted'
    BY <1>1, <2>1 DEF TInv, Submitted
  <2>6. NoLoss \/ ~Ephemeral(row'.doc) => AtMostOncePerMessage'
    BY <1>1, <2>2 DEF TInv, AtMostOncePerMessage
  <2>. QED
    BY <2>3, <2>4, <2>5, <2>6 DEF TInv
<1>. QED
  BY <1>2, <1>3

LEMMA InitTranscripts ==
    ASSUME Init
    PROVE  TInv
<1>1. PICK lesson \in Lessons :
        row = [present |-> TRUE, revision |-> 0, doc |-> NewSession(lesson), messages |-> <<>>]
  BY DEF Init
<1>2. row.messages = <<>> /\ row.doc.turn_count = 0
  BY <1>1, NewDocument
<1>3. /\ cache = NoCache \/ cache = <<>>
      /\ \A m \in MessageIds : commits[m] = 0
      /\ acked = {}
  BY DEF Init
<1>4. ASSUME NEW q \in Requests
      PROVE  req[q].pc = "idle" /\ req[q] \notin Loaded
  <2>1. req[q] = Idle /\ Idle.pc = "idle"
    BY DEF Init, Idle
  <2>. QED
    BY <2>1, Kinds
<1>5. Heard
  BY <1>2, <1>3, <1>4, ContainsEmpty DEF Heard
<1>6. Transcripts
  BY <1>2, <1>3, <1>4, ContainsEmpty DEF Transcripts, Remembered, Holds
<1>7. Submitted /\ AtMostOncePerMessage
  BY <1>3, <1>4 DEF Submitted, AtMostOncePerMessage, After
<1>. QED
  BY <1>5, <1>6, <1>7 DEF TInv

LEMMA NextTranscripts ==
    ASSUME NoRevival, IInv, IInv', TInv, [Next]_vars
    PROVE  TInv'
<1>. USE DEF IInv
<1>1. ASSUME NEW q \in Requests, Start(q) \/ RequestStep(q) \/ Cancel(q)
      PROVE  TInv'
  <2>1. CASE \/ Start(q) \/ Acquire(q) \/ Read(q) \/ Reread(q) \/ Decide(q)
             \/ InferenceAnswers(q) \/ CheckLog(q) \/ SaveLog(q) \/ DeleteLog(q)
             \/ ReadMissing(q) \/ InferenceFails(q) \/ SaveConflict(q)
             \/ LogFails(q) \/ Respond(q) \/ Cancel(q)
    BY <2>1, MoveTranscripts
  <2>2. CASE Hydrate(q) \/ CacheTranscript(q) \/ SaveSession(q)
    BY <2>2, HydrateTranscripts, CacheTranscripts, SaveTranscripts
  <2>3. CASE SaveRestart(q) \/ DeleteRow(q) \/ DeleteCache(q)
    BY <2>3, RowTranscripts
  <2>. QED
    BY <1>1, <2>1, <2>2, <2>3 DEF RequestStep
<1>2. CASE CleanerStep \/ CleanerCrash \/ Restart \/ UNCHANGED vars
  BY <1>2, SurroundingTranscripts
<1>. QED
  BY <1>1, <1>2 DEF Next

\* What every copy of the transcript has to do with the turns consumed, in
\* the row, in memory and in a coroutine.
THEOREM TranscriptsConsistent ==
    ASSUME NoRevival
    PROVE  Spec => [](IInv /\ TInv)
<1>1. Init => TInv
  BY InitTranscripts
<1>2. IInv /\ IInv' /\ TInv /\ [Next]_vars => TInv'
  BY NextTranscripts
<1>3. Spec => []IInv
  BY ServiceConsistent
<1>. QED
  BY <1>1, <1>2, <1>3, PTL DEF Spec

\* However a submission is retried, cancelled or raced, it consumes at most
\* one turn (the lock and _commit_user_turn's look at the transcript).
THEOREM SubmittedOnce ==
    ASSUME NoRevival, NoLoss
    PROVE  Spec => []AtMostOncePerMessage
<1>1. IInv /\ TInv => AtMostOncePerMessage
  BY DEF TInv
<1>. QED
  BY <1>1, TranscriptsConsistent, PTL

\* For the logging policies that persist the transcript this holds even
\* when submissions are cancelled between commit and cache.
THEOREM PersistedOnce ==
    ASSUME NoRevival
    PROVE  Spec => [](~Ephemeral(row.doc) => AtMostOncePerMessage)
<1>1. IInv /\ TInv => (~Ephemeral(row.doc) => AtMostOncePerMessage)
  BY DEF TInv
<1>. QED
  BY <1>1, TranscriptsConsistent, PTL

\* The stored transcript has exactly the turns the session has consumed.
THEOREM TranscriptIsWhole ==
    ASSUME NoRevival
    PROVE  Spec => []TranscriptMatchesTurns
<1>1. IInv /\ TInv => TranscriptMatchesTurns
  BY DEF TInv, Transcripts, Holds, TranscriptMatchesTurns
<1>. QED
  BY <1>1, TranscriptsConsistent, PTL

\* What was answered is kept.
THEOREM AnswersAreKept ==
    ASSUME NoRevival
    PROVE  Spec => []AckedIsKept
<1>1. IInv /\ TInv => AckedIsKept
  BY DEF IInv, Types, TInv, Transcripts, Submitted, Holds, AckedIsKept
<1>. QED
  BY <1>1, TranscriptsConsistent, PTL

\* A submission gives the model every turn consumed so far.
THEOREM ContextIsWhole ==
    ASSUME NoRevival, NoLoss
    PROVE  Spec => []ContextComplete
<1>1. IInv /\ TInv => ContextComplete
  BY SubmissionTranscript DEF IInv, TInv, Holds, ContextComplete
<1>. QED
  BY <1>1, TranscriptsConsistent, PTL

---------------------------------------------------------------------------
(***************************************************************************)
(* The instructor log.                                                     *)
(***************************************************************************)
\* A sequence has no more members than elements.
LEMMA MembersCounted ==
    ASSUME NEW S, NEW s \in Seq(S), NEW A, \A a \in A : Contains(s, a)
    PROVE  Cardinality(A) <= Len(s)
<1>. DEFINE n == Len(s)
            T == {s[i] : i \in 1 .. n}
<1>1. n \in Nat /\ s \in [1 .. n -> S]
  OBVIOUS
<1>2. IsFiniteSet(1 .. n) /\ Cardinality(1 .. n) = n
  BY <1>1, FS_Interval
<1>3. s \in Surjection(1 .. n, T)
  BY <1>1 DEF Surjection
<1>. HIDE DEF n
<1>4. IsFiniteSet(T) /\ Cardinality(T) <= n
  BY <1>2, <1>3, FS_Surjection
<1>5. A \in SUBSET T
  BY DEF Contains, n
<1>6. IsFiniteSet(A) /\ Cardinality(A) <= Cardinality(T)
  BY <1>4, <1>5, FS_Subset
<1>7. Cardinality(A) \in Nat /\ Cardinality(T) \in Nat
  BY <1>4, <1>6, FS_CardinalityType
<1>. QED
  BY <1>1, <1>4, <1>6, <1>7 DEF n

\* No more submissions are answered than turns consumed.
LEMMA AnsweredCounted ==
    ASSUME Types, Transcripts, Retained, NEW A \in SUBSET MessageIds,
           \A m \in A : commits[m] > 0
    PROVE  Cardinality(A) <= row.doc.turn_count
<1>1. row.messages \in Seq(MessageIds)
  BY DEF Types, Rows
<1>2. \A m \in A : Contains(row.messages, m)
  BY DEF Transcripts, Holds
<1>. QED
  BY <1>1, <1>2, MembersCounted DEF Transcripts, Holds

\* Saving keeps what is retained, and never takes a turn back.
LEMMA SavedRow ==
    ASSUME Types, Consistent, NEW q \in Requests, SaveSession(q)
    PROVE  /\ row.doc.turn_count <= row'.doc.turn_count
           /\ Retained' => Retained
<1>. DEFINE o == req[q]
            messages == IF o.op.name = "submit" THEN Append(o.messages, o.op.message)
                        ELSE o.messages
            doc == Effect(o.op, o.doc)
            held == cache # NoCache
<1>1. /\ o \in Loaded /\ row.present /\ o.op.name \notin {"read", "delete"}
      /\ o.doc = Hydrated(row.doc, held) /\ row' = Stored(o, doc, messages)
  BY SavesStored DEF SaveSession
<1>2. /\ o.doc \in Sessions /\ o.doc.turn_count \in Nat /\ row.doc \in Sessions
      /\ o.op \in Operations /\ held \in BOOLEAN
  BY <1>1 DEF Loaded, Types, Rows, Sessions
<1>3. /\ doc.turn_count = IF o.op.name = "submit" THEN o.doc.turn_count + 1 ELSE o.doc.turn_count
      /\ doc.logging_policy = o.doc.logging_policy
      /\ doc.transcript_unavailable_reason = o.doc.transcript_unavailable_reason
  BY <1>1, <1>2, EffectDocument
<1>. HIDE DEF held, doc, messages
<1>4. /\ o.doc.turn_count = row.doc.turn_count
      /\ o.doc.logging_policy = row.doc.logging_policy
      /\ ~Ephemeral(row.doc) => o.doc = row.doc
  BY <1>1, <1>2, HydratedDocument, HydratedPlain
<1>5. row'.doc = doc
  BY <1>1 DEF Stored
<1>. QED
  BY <1>1, <1>2, <1>3, <1>4, <1>5 DEF Retained, RowExpired, Ephemeral

\* Only the holder of the lock has an answer to give.
LEMMA AnswerIsHeld ==
    ASSUME Types, Consistent, NEW q \in Requests, req[q].pc = "done"
    PROVE  lock = q /\ req[q] \in Loaded
<1>1. req[q] \in Loaded /\ Place(req[q], lock = q)
  BY Kinds DEF Types, Consistent
<1>. QED
  BY <1>1 DEF Place, Before

\* A step that leaves the log alone.
LEMMA LogUntouched ==
    ASSUME Types, Consistent, Types', LInv, log' = log, acked' = acked,
           row.doc.turn_count <= row'.doc.turn_count, Retained' => Retained,
           Retained' => \A p \in Requests : req'[p].pc = "done" =>
                req[p].pc = "done" /\ req'[p].op = req[p].op
                /\ row'.doc.turn_count = row.doc.turn_count
    PROVE  LInv'
<1>1. /\ row.doc.turn_count \in Nat /\ row'.doc.turn_count \in Nat /\ log.turns \in Nat
  BY DEF Types, Rows, Sessions
<1>2. AckedIsLogged'
  BY <1>1 DEF LInv, AckedIsLogged
<1>3. Retained' => log'.present
  BY DEF LInv
<1>4. ASSUME NEW p \in Requests, req'[p].pc = "done", req'[p].op.name # "delete",
             Retained', log.available
      PROVE  log.turns = row'.doc.turn_count
  BY <1>4 DEF LInv
<1>. QED
  BY <1>2, <1>3, <1>4 DEF LInv

\* The steps of a request that leave the log alone; only one of them stores
\* a turn, and then nobody has an answer to give.
LEMMA RequestKeepsLog ==
    ASSUME NoRevival, Types, Consistent, Types', LInv, NEW q \in Requests,
           Start(q) \/ RequestStep(q) \/ Cancel(q),
           ~CheckLog(q), ~SaveLog(q), ~DeleteLog(q), ~Respond(q)
    PROVE  LInv'
<1>1. log' = log /\ acked' = acked
  BY DEF RequestStep, Start, Acquire, Read, ReadMissing, Hydrate, SaveRestart, Reread, Decide,
         InferenceAnswers, InferenceFails, SaveSession, SaveConflict, CacheTranscript,
         LogFails, DeleteRow, DeleteCache, Cancel, histories
<1>2. /\ \A p \in Requests \ {q} : req'[p] = req[p]
      /\ req'[q].pc # "done"
  <2>1. req \in [Requests -> {Idle} \cup Asking \cup Loaded]
    BY DEF Types
  <2>2. CASE Start(q)
    BY <2>1, <2>2 DEF Start, Loading
  <2>3. CASE \/ ReadMissing(q) \/ InferenceFails(q) \/ SaveConflict(q)
             \/ LogFails(q) \/ Cancel(q)
    BY <2>1, <2>3
       DEF ReadMissing, InferenceFails, SaveConflict, LogFails, Cancel, Finish, Idle
  <2>4. req[q].pc \notin {"idle", "wait", "read"} => req[q] \in Loaded
    BY <2>1, Kinds
  <2>5. CASE Acquire(q) \/ Read(q)
    <3>1. req[q] \in Asking
      BY <2>1, <2>5, Kinds DEF Acquire, Read
    <3>. QED
      BY <2>1, <2>5, <3>1 DEF Acquire, Read, Goto, Asking
  <2>6. CASE Hydrate(q) \/ SaveRestart(q) \/ Reread(q)
    <3>1. req[q] \in Loaded
      BY <2>4, <2>6 DEF Hydrate, SaveRestart, Reread
    <3>2. CASE Hydrate(q)
      BY <2>1, <3>1, <3>2 DEF Hydrate, Loaded
    <3>3. CASE SaveRestart(q)
      BY <2>1, <3>1, <3>3 DEF SaveRestart, Goto, Loaded
    <3>4. CASE Reread(q)
      BY <2>1, <3>1, <3>4 DEF Reread, Loaded
    <3>. QED
      BY <2>6, <3>2, <3>3, <3>4
  <2>7. CASE Decide(q)
    <3>1. Finish(q) \/ \E pc \in {"log", "infer", "delete", "save"} : Goto(q, pc)
      BY <2>7 DEF Decide
    <3>2. req[q] \in Loaded
      BY <2>4, <2>7 DEF Decide
    <3>. QED
      BY <2>1, <3>1, <3>2 DEF Finish, Goto, Idle, Loaded
  <2>8. CASE SaveSession(q)
    <3>1. req[q] \in Loaded
      BY <2>4, <2>8 DEF SaveSession
    <3>. QED
      BY <2>1, <2>8, <3>1 DEF SaveSession, Loaded
  <2>9. CASE InferenceAnswers(q) \/ CacheTranscript(q) \/ DeleteRow(q) \/ DeleteCache(q)
    BY <2>1, <2>4, <2>9
       DEF InferenceAnswers, CacheTranscript, DeleteRow, DeleteCache, Goto, Loaded
  <2>. QED
    BY <2>2, <2>3, <2>5, <2>6, <2>7, <2>8, <2>9 DEF RequestStep
<1>3. CASE row' = row
  <2>1. Retained' <=> Retained
    BY <1>3 DEF Retained, RowExpired
  <2>2. row.doc.turn_count \in Nat
    BY DEF Types, Rows, Sessions
  <2>. QED
    BY <1>1, <1>2, <1>3, <2>1, <2>2, LogUntouched
<1>4. CASE row' # row /\ ~SaveSession(q)
  <2>1. SaveRestart(q) \/ DeleteRow(q) \/ DeleteCache(q)
    BY <1>4 DEF RequestStep, Start, Acquire, Read, ReadMissing, Hydrate, Reread, Decide,
         InferenceAnswers, InferenceFails, SaveConflict, CacheTranscript, LogFails, Cancel
  <2>2. row'.doc.turn_count = row.doc.turn_count /\ ~Retained'
    BY <1>4, <2>1, RowChanges
  <2>3. row.doc.turn_count \in Nat
    BY DEF Types, Rows, Sessions
  <2>. QED
    BY <1>1, <2>2, <2>3, LogUntouched
<1>5. CASE SaveSession(q)
  <2>1. /\ row.doc.turn_count <= row'.doc.turn_count
        /\ Retained' => Retained
    BY <1>5, SavedRow
  <2>2. lock = q /\ req[q].pc = "save"
    BY <1>5, SavesStored DEF SaveSession
  <2>3. \A p \in Requests : req'[p].pc # "done"
    BY <1>2, <2>2, AnswerIsHeld
  <2>. QED
    BY <1>1, <2>1, <2>3, LogUntouched
<1>. QED
  BY <1>3, <1>4, <1>5

\* The log takes its turns from the holder's copy of the document.
LEMMA RequestWritesLog ==
    ASSUME NoRevival, Types, Consistent, Types', TInv, LInv, NEW q \in Requests,
           CheckLog(q) \/ SaveLog(q) \/ DeleteLog(q) \/ Respond(q)
    PROVE  LInv'
<1>. DEFINE o == req[q]
<1>1. /\ row' = row /\ commits' = commits
      /\ o.pc \in {"log", "save_log", "delete_log", "done"}
      /\ ~Respond(q) => acked' = acked
  BY DEF CheckLog, SaveLog, DeleteLog, Respond, histories
<1>2. /\ o \in Loaded /\ req \in [Requests -> {Idle} \cup Asking \cup Loaded]
  BY <1>1, Kinds DEF Types
<1>3. Place(o, lock = q) /\ Rules(o) /\ Knows(o, lock = q, row, cache)
  BY <1>2 DEF Consistent
<1>4. lock = q
  BY <1>1, <1>3 DEF Place, Before
<1>5. \A p \in Requests \ {q} : req'[p] = req[p] /\ req'[p].pc # "done"
  BY <1>2, <1>4, AnswerIsHeld DEF CheckLog, SaveLog, DeleteLog, Respond, Goto, Finish
<1>6. Retained' <=> Retained
  BY <1>1 DEF Retained, RowExpired
<1>7. row.doc.turn_count \in Nat /\ log.turns \in Nat
  BY DEF Types, Rows, Sessions
<1>8. CASE Respond(q)
  <2>1. req'[q].pc # "done" /\ log' = log
    BY <1>2, <1>8 DEF Respond, Finish, Idle
  <2>2. CASE o.op.name = "submit"
    <3>1. acked' = acked \cup {o.op.message} /\ o.op.message \in MessageIds
      BY <1>2, <1>8, <2>2, OperationKinds DEF Respond, Loaded
    <3>2. acked' \in SUBSET MessageIds /\ \A m \in acked' : commits[m] > 0
      BY <1>8, <2>2, <3>1 DEF Types, TInv, Submitted, Respond
    <3>3. Retained => Cardinality(acked') <= row.doc.turn_count
      BY <3>2, AnsweredCounted DEF TInv
    <3>4. Retained /\ log.available => log.turns = row.doc.turn_count
      BY <1>8, <2>2 DEF LInv, Respond
    <3>5. AckedIsLogged'
      BY <1>1, <1>6, <1>7, <2>1, <3>3, <3>4 DEF LInv, AckedIsLogged
    <3>. QED
      BY <1>1, <1>5, <1>6, <2>1, <3>5 DEF LInv
  <2>3. CASE o.op.name # "submit"
    <3>1. acked' = acked
      BY <1>8, <2>3 DEF Respond
    <3>. QED
      BY <1>1, <1>5, <1>6, <2>1, <3>1 DEF LInv, AckedIsLogged
  <2>. QED
    BY <2>2, <2>3
<1>9. CASE DeleteLog(q)
  <2>1. ~Retained /\ log' = NoLog
    BY <1>9 DEF DeleteLog, Consistent, Storage, Gone
  <2>. QED
    BY <1>6, <2>1 DEF LInv, AckedIsLogged, NoLog
<1>10. CASE CheckLog(q)
  <2>1. Ephemeral(o.doc) <=> Ephemeral(row.doc)
    BY <1>3 DEF Knows, Bounds, Ephemeral
  <2>2. CASE Ephemeral(row.doc)
    <3>1. ~Retained /\ log' = NoLog
      BY <1>10, <2>1, <2>2 DEF CheckLog, Retained
    <3>. QED
      BY <1>6, <3>1 DEF LInv, AckedIsLogged, NoLog
  <2>3. CASE ~Ephemeral(row.doc)
    <3>1. log' = log /\ acked' = acked
      BY <1>1, <1>10, <2>1, <2>3 DEF CheckLog, Respond
    <3>2. req'[q].pc = "done" => log.present /\ ~log.available
      BY <1>2, <1>10, <2>1, <2>3 DEF CheckLog, Goto, Loaded
    <3>. QED
      BY <1>1, <1>5, <1>6, <3>1, <3>2 DEF LInv, AckedIsLogged
  <2>. QED
    BY <2>2, <2>3
<1>11. CASE SaveLog(q)
  <2>1. o.doc.turn_count = row.doc.turn_count /\ acked' = acked
    BY <1>1, <1>3, <1>4, <1>11 DEF SaveLog, Knows, Bounds, Working, After, Respond
  <2>2. acked \in SUBSET MessageIds /\ \A m \in acked : commits[m] > 0
    BY DEF Types, TInv, Submitted
  <2>3. Retained => Cardinality(acked) <= row.doc.turn_count
    BY <2>2, AnsweredCounted DEF TInv
  <2>4. CASE log.present /\ ~log.available
    <3>1. log' = log
      BY <1>11, <2>4 DEF SaveLog, Logged
    <3>. QED
      BY <1>1, <1>6, <2>1, <2>4, <3>1 DEF LInv, AckedIsLogged
  <2>5. CASE ~(log.present /\ ~log.available)
    <3>1. log'.present /\ log'.turns = row.doc.turn_count
      BY <1>11, <2>1, <2>5 DEF SaveLog, Logged
    <3>. QED
      BY <1>1, <1>5, <1>6, <1>7, <2>1, <2>3, <3>1 DEF LInv, AckedIsLogged
  <2>. QED
    BY <2>4, <2>5
<1>. QED
  BY <1>8, <1>9, <1>10, <1>11

\* The retention job takes the content from the row before the log, and a
\* restart leaves both.
LEMMA SurroundingKeepsLog ==
    ASSUME Types, Consistent, Types', Consistent', LInv,
           CleanerStep \/ CleanerCrash \/ Restart \/ UNCHANGED vars
    PROVE  LInv'
<1>1. acked' = acked /\ row.doc.turn_count \in Nat
  BY DEF CleanerStep, CleanerList, CleanerSave, CleanerExpireLog, CleanerCrash, Restart,
         vars, histories, Types, Rows, Sessions
<1>2. CASE CleanerExpireLog
  <2>1. /\ log' = [log EXCEPT !.available = ~log.present /\ log.available]
        /\ row' = row /\ req' = req
    BY <1>2 DEF CleanerExpireLog
  <2>2. /\ log'.present = log.present /\ log'.turns = log.turns
        /\ log'.present => ~log'.available
    BY <2>1 DEF Types
  <2>3. Retained' <=> Retained
    BY <2>1 DEF Retained, RowExpired
  <2>. QED
    BY <1>1, <2>1, <2>2, <2>3 DEF LInv, AckedIsLogged
<1>3. CASE CleanerSave /\ row' # row
  <2>1. log' = log /\ row'.doc.turn_count = row.doc.turn_count /\ ~Retained'
    BY <1>3, ExpiredRow DEF CleanerSave
  <2>. QED
    BY <1>1, <2>1, LogUntouched
<1>4. CASE Restart
  <2>1. log' = log /\ row' = row /\ \A p \in Requests : req'[p].pc # "done"
    BY <1>4 DEF Restart, Idle
  <2>2. Retained' <=> Retained
    BY <2>1 DEF Retained, RowExpired
  <2>. QED
    BY <1>1, <2>1, <2>2, LogUntouched
<1>5. CASE ~CleanerExpireLog /\ row' = row /\ ~Restart
  <2>1. log' = log /\ req' = req
    BY <1>5 DEF CleanerStep, CleanerList, CleanerSave, CleanerCrash, vars
  <2>2. Retained' <=> Retained
    BY <1>5 DEF Retained, RowExpired
  <2>. QED
    BY <1>1, <1>5, <2>1, <2>2, LogUntouched
<1>6. row' = row \/ CleanerSave
  BY DEF CleanerStep, CleanerList, CleanerExpireLog, CleanerCrash, Restart, vars
<1>. QED
  BY <1>2, <1>3, <1>4, <1>5, <1>6

LEMMA InitLog ==
    ASSUME Init
    PROVE  LInv
<1>1. PICK lesson \in Lessons :
        row = [present |-> TRUE, revision |-> 0, doc |-> NewSession(lesson), messages |-> <<>>]
  BY DEF Init
<1>2. row.doc.turn_count = 0 /\ row.doc \in Sessions
  BY <1>1, NewDocument
<1>3. /\ Ephemeral(row.doc) <=> ~log.present
      /\ log.turns = 0 /\ acked = {}
  BY DEF Init, NoLog, Ephemeral
<1>4. \A q \in Requests : req[q].pc = "idle"
  BY DEF Init, Idle
<1>. QED
  BY <1>2, <1>3, <1>4 DEF LInv, AckedIsLogged, Retained, RowExpired

\* Every answered submission has reached the log, which never shows a turn
\* that is not committed (persist_session_log between the commit and the
\* answer, and the retention job beside it).
THEOREM AnswersAreLogged ==
    ASSUME NoRevival
    PROVE  Spec => []AckedIsLogged
<1>1. Init => LInv
  BY InitLog
<1>2. IInv /\ IInv' /\ TInv /\ LInv /\ [Next]_vars => LInv'
  <2>. SUFFICES ASSUME IInv, IInv', TInv, LInv, [Next]_vars
                PROVE  LInv'
    OBVIOUS
  <2>. USE DEF IInv
  <2>1. CASE \E q \in Requests : Start(q) \/ RequestStep(q) \/ Cancel(q)
    BY <2>1, RequestKeepsLog, RequestWritesLog
  <2>2. CASE CleanerStep \/ CleanerCrash \/ Restart \/ UNCHANGED vars
    BY <2>2, SurroundingKeepsLog
  <2>. QED
    BY <2>1, <2>2 DEF Next
<1>3. LInv => AckedIsLogged
  BY DEF LInv
<1>4. Spec => [](IInv /\ TInv)
  BY TranscriptsConsistent
<1>. QED
  BY <1>1, <1>2, <1>3, <1>4, PTL DEF Spec

---------------------------------------------------------------------------
(***************************************************************************)
(* The deletion.                                                           *)
(***************************************************************************)
LEMMA RowStaysRemoved ==
    ASSUME Lasting, Types, Consistent, Removed, [Next]_vars
    PROVE  Removed'
<1>1. (\E q \in Requests : Start(q) \/ RequestStep(q) \/ Cancel(q)) => cleaner' = cleaner
  BY ZenonT(60) DEF RequestStep, Start, Acquire, Read, ReadMissing, Hydrate, SaveRestart, Reread, Decide,
         InferenceAnswers, InferenceFails, SaveSession, SaveConflict, CacheTranscript, CheckLog,
         SaveLog, LogFails, Respond, DeleteRow, DeleteCache, DeleteLog, Cancel
<1>2. "retention" \notin Faults => CleanerIdle'
  BY <1>1 DEF Removed, Next, Restart, CleanerStep, CleanerList, CleanerSave, CleanerExpireLog,
              CleanerCrash, CleanerIdle, vars
<1>3. CASE \E q \in Requests : DeleteRow(q)
  <2>1. ~row'.present
    BY <1>3 DEF DeleteRow, Types, Rows
  <2>. QED
    BY <1>2, <2>1 DEF Removed
<1>4. CASE deleted /\ ~\E q \in Requests : DeleteRow(q)
  <2>1. "delete" \in OperationNames /\ "retention" \notin Faults /\ NoRevival
    BY <1>4 DEF Consistent, Storage, Lasting, NoRevival
  <2>2. ~Ephemeral(row.doc) /\ CleanerIdle /\ ~row.present
    BY <1>4, <2>1, Undisabled DEF Removed
  <2>3. \A q \in Requests : ~SaveSession(q)
    BY <2>2, SavesStored DEF SaveSession
  <2>4. ASSUME NEW q \in Requests PROVE ~SaveRestart(q)
    <3>1. SUFFICES ASSUME req[q].pc = "save_restart" PROVE FALSE
      BY DEF SaveRestart
    <3>2. req[q] \in Loaded
      BY <3>1, Kinds DEF Types
    <3>. QED
      BY <2>2, <3>1, <3>2 DEF Consistent, Rules, Knows, Bounds, Ephemeral
  <2>5. ~CleanerSave
    BY <2>2 DEF CleanerSave, CleanerIdle
  <2>6. row' = row
    BY <1>4, <2>3, <2>4, <2>5
       DEF Next, RequestStep, Start, Acquire, Read, ReadMissing, Hydrate, Reread, Decide,
           InferenceAnswers, InferenceFails, SaveConflict, CacheTranscript, CheckLog, SaveLog,
           LogFails, Respond, DeleteCache, DeleteLog, Cancel, Restart, CleanerStep,
           CleanerList, CleanerExpireLog, CleanerCrash, vars
  <2>. QED
    BY <1>2, <2>2, <2>6 DEF Removed
<1>5. CASE ~deleted /\ ~\E q \in Requests : DeleteRow(q)
  <2>1. deleted' = deleted
    BY ZenonT(60), <1>5
       DEF Next, RequestStep, Start, Acquire, Read, ReadMissing, Hydrate, SaveRestart, Reread,
           Decide, InferenceAnswers, InferenceFails, SaveSession, SaveConflict,
           CacheTranscript, CheckLog, SaveLog, LogFails, Respond, DeleteCache, DeleteLog,
           Cancel, Restart, CleanerStep, CleanerList, CleanerSave, CleanerExpireLog,
           CleanerCrash, vars, histories
  <2>. QED
    BY <1>2, <1>5, <2>1 DEF Removed
<1>. QED
  BY <1>3, <1>4, <1>5

LEMMA RemovedConsistent ==
    ASSUME Lasting
    PROVE  Spec => [](IInv /\ Removed)
<1>1. Init => Removed
  BY DEF Init, Removed, CleanerIdle, Idle
<1>2. IInv /\ Removed /\ [Next]_vars => Removed'
  BY RowStaysRemoved DEF IInv
<1>3. NoRevival
  BY DEF Lasting, NoRevival
<1>4. Spec => []IInv
  BY <1>3, ServiceConsistent
<1>. QED
  BY <1>1, <1>2, <1>4, PTL DEF Spec

\* A session that was deleted stays deleted when neither the retention job
\* nor a reader that lost the transcript can save it again; the model
\* checker shows how they do (SessionServiceRetentionDelete).
THEOREM DeletionLasts ==
    ASSUME Lasting
    PROVE  Spec => []DeletedStaysDeleted
<1>1. IInv /\ Removed => DeletedStaysDeleted
  BY DEF Removed, DeletedStaysDeleted
<1>. QED
  BY <1>1, RemovedConsistent, PTL

\* The log of a deleted session is left only to the request that deletes.
LEMMA RequestDeletes ==
    ASSUME Complete, Types, Consistent, Removed, DInv, NEW q \in Requests,
           Start(q) \/ RequestStep(q) \/ Cancel(q)
    PROVE  DInv'
<1>. DEFINE o == req[q]
<1>1. "log" \notin Faults
  BY DEF Complete
<1>2. req \in [Requests -> {Idle} \cup Asking \cup Loaded]
  BY DEF Types
<1>3. o.pc \notin {"idle", "wait", "read"} =>
        o \in Loaded /\ Rules(o) /\ Knows(o, lock = q, row, cache) /\ Place(o, lock = q)
  BY <1>2, Kinds DEF Consistent
<1>4. CASE DeleteRow(q)
  <2>1. o \in Loaded
    BY <1>3, <1>4 DEF DeleteRow
  <2>2. req'[q].pc \in Gone
    BY <1>2, <1>4, <2>1 DEF DeleteRow, Goto, Loaded, Gone
  <2>. QED
    BY <2>2 DEF DInv
<1>5. CASE DeleteLog(q)
  BY <1>5 DEF DeleteLog, NoLog, DInv
<1>6. CASE ~DeleteRow(q) /\ ~DeleteLog(q)
  <2>1. deleted' = deleted /\ \A p \in Requests \ {q} : req'[p] = req[p]
    BY <1>2, <1>6
       DEF RequestStep, Start, Acquire, Read, ReadMissing, Hydrate, SaveRestart, Reread, Decide,
           InferenceAnswers, InferenceFails, SaveSession, SaveConflict, CacheTranscript,
           CheckLog, SaveLog, LogFails, Respond, DeleteCache, Cancel, Goto, Finish, histories
  <2>2. deleted => (log'.present => log.present)
    <3>1. CASE SaveLog(q)
      <4>1. lock = q /\ Working(o)
        BY <1>3, <3>1 DEF SaveLog, Place, Working, Before, After
      <4>2. row.present
        BY <1>3, <3>1, <4>1 DEF SaveLog, Knows, Bounds
      <4>. QED
        BY <4>2 DEF Removed
    <3>2. CASE ~SaveLog(q)
      <4>1. log' = log \/ log' = NoLog
        BY <1>6, <3>2
           DEF RequestStep, Start, Acquire, Read, ReadMissing, Hydrate, SaveRestart, Reread,
               Decide, InferenceAnswers, InferenceFails, SaveSession, SaveConflict,
               CacheTranscript, CheckLog, LogFails, Respond, DeleteCache, Cancel
      <4>. QED
        BY <4>1 DEF NoLog
    <3>. QED
      BY <3>1, <3>2
  <2>3. o.pc \in Gone => req'[q].pc \in Gone
    <3>1. CASE DeleteCache(q)
      <4>1. o \in Loaded
        BY <1>3, <3>1 DEF DeleteCache
      <4>. QED
        BY <1>2, <3>1, <4>1 DEF DeleteCache, Goto, Loaded, Gone
    <3>2. CASE Cancel(q)
      BY <1>3, <3>2 DEF Cancel, Rules, Gone
    <3>3. CASE ~DeleteCache(q) /\ ~Cancel(q)
      BY <1>1, <1>6, <3>3
         DEF RequestStep, Start, Acquire, Read, ReadMissing, Hydrate, SaveRestart, Reread,
             Decide, InferenceAnswers, InferenceFails, SaveSession, SaveConflict,
             CacheTranscript, CheckLog, SaveLog, LogFails, Respond, Gone
    <3>. QED
      BY <3>1, <3>2, <3>3
  <2>. QED
    BY <2>1, <2>2, <2>3 DEF DInv
<1>. QED
  BY <1>4, <1>5, <1>6

\* What is deleted by delete_session is gone for good: the row, the
\* transcript in memory and the log.  It needs what Complete says: a failed
\* log write or a restart between the steps leaves the log behind, and the
\* retention job brings the row back.
THEOREM DeletionIsComplete ==
    ASSUME Complete
    PROVE  Spec => []DeletedLeavesNothing
<1>1. Init => DInv
  BY DEF Init, DInv
<1>2. IInv /\ Removed /\ DInv /\ [Next]_vars => DInv'
  <2>. SUFFICES ASSUME IInv, Removed, DInv, [Next]_vars
                PROVE  DInv'
    OBVIOUS
  <2>1. CASE \E q \in Requests : Start(q) \/ RequestStep(q) \/ Cancel(q)
    BY <2>1, RequestDeletes DEF IInv
  <2>2. CASE UNCHANGED vars
    BY <2>2 DEF vars, DInv
  <2>3. ~Restart /\ ~CleanerStep /\ ~CleanerCrash
    BY DEF Complete, Removed, Restart, CleanerStep, CleanerList, CleanerSave,
           CleanerExpireLog, CleanerCrash, CleanerIdle
  <2>. QED
    BY <2>1, <2>2, <2>3 DEF Next
<1>3. IInv /\ Removed /\ DInv => DeletedLeavesNothing
  BY DEF Complete, IInv, Consistent, Storage, Ephemeral, Removed, DInv, DeletedLeavesNothing,
         Gone
<1>4. Lasting
  BY DEF Complete, Lasting
<1>5. Spec => [](IInv /\ Removed)
  BY <1>4, RemovedConsistent
<1>. QED
  BY <1>1, <1>2, <1>3, <1>5, PTL DEF Spec

---------------------------------------------------------------------------
(***************************************************************************)
(* The refinement: the interleaved service implements SessionLifecycle.    *)
(***************************************************************************)
\* The rules of the lifecycle are the same, and Loaded is the stored
\* document as hydration leaves it.
LEMMA SameLoading ==
    ASSUME NEW s, NEW c
    PROVE  /\ Lifecycle!Ephemeral(s) = Ephemeral(s)
           /\ Lifecycle!Interrupted(s, c) = Interrupted(s, c)
           /\ Lifecycle!Hydrated(s, c) = Hydrated(s, c)
           /\ Lifecycle!CachedAfterHydrate(s, c) = CachedAfterHydrate(s, c)
           /\ Lifecycle!ExpireContent(s) = ExpireContent(s)
           /\ Lifecycle!CanExpire(s) = CanExpire(s)
<1>1. Lifecycle!Ephemeral(s) = Ephemeral(s)
  BY DEF Ephemeral, Lifecycle!Ephemeral
<1>2. Lifecycle!Interrupted(s, c) = Interrupted(s, c)
  BY <1>1, Zenon DEF Interrupted, Lifecycle!Interrupted
<1>3. Lifecycle!Hydrated(s, c) = Hydrated(s, c)
  BY <1>1, Zenon DEF Hydrated, Lifecycle!Hydrated
<1>4. Lifecycle!CachedAfterHydrate(s, c) = CachedAfterHydrate(s, c)
  BY <1>1, Zenon DEF CachedAfterHydrate, Lifecycle!CachedAfterHydrate
<1>5. Lifecycle!ExpireContent(s) = ExpireContent(s)
  BY Zenon DEF ExpireContent, Lifecycle!ExpireContent
<1>6. Lifecycle!CanExpire(s) = CanExpire(s)
  BY DEF CanExpire, Lifecycle!CanExpire
<1>. QED
  BY <1>1, <1>2, <1>3, <1>4, <1>5, <1>6

LEMMA SameGuards ==
    ASSUME NEW s, NEW h
    PROVE  /\ CanSubmit(s) => Lifecycle!CanSubmit(s)
           /\ CanBeginCompletion(s) => Lifecycle!CanBeginCompletion(s)
           /\ CanResume(s) => Lifecycle!CanResume(s)
           /\ CanSaveReflection(s, h) => Lifecycle!CanSaveReflection(s, h)
           /\ CanPostpone(s, h) => Lifecycle!CanPostpone(s, h)
           /\ CanTurnIn(s) => Lifecycle!CanTurnIn(s)
           /\ ~s.is_finalized => Lifecycle!CanDelete(s)
<1>1. ASSUME NEW k
      PROVE  /\ Lifecycle!Triggered(k) = Triggered(k)
             /\ Lifecycle!Answered(k) = Answered(k)
  BY DEF Triggered, Lifecycle!Triggered, Answered, Lifecycle!Answered
<1>2. ASSUME NEW k PROVE Lifecycle!PendingMid(k) = PendingMid(k)
  BY <1>1, Zenon DEF PendingMid, Lifecycle!PendingMid
<1>3. /\ Lifecycle!HasPendingMidReflection(s) = HasPendingMidReflection(s)
      /\ Lifecycle!RequiredReflectionsAnswered(s) = RequiredReflectionsAnswered(s)
  <2>1. Lifecycle!HasPendingMidReflection(s) = HasPendingMidReflection(s)
    BY <1>2, Zenon DEF HasPendingMidReflection, Lifecycle!HasPendingMidReflection
  <2>2. Lifecycle!RequiredReflectionsAnswered(s) = RequiredReflectionsAnswered(s)
    BY <1>1, Zenon DEF RequiredReflectionsAnswered, Lifecycle!RequiredReflectionsAnswered
  <2>. QED
    BY <2>1, <2>2
<1>. QED
  BY <1>1, <1>3
     DEF CanSubmit, Lifecycle!CanSubmit, CanBeginCompletion, Lifecycle!CanBeginCompletion,
         CanResume, Lifecycle!CanResume, CanSaveReflection, Lifecycle!CanSaveReflection,
         CanPostpone, Lifecycle!CanPostpone, CanTurnIn, Lifecycle!CanTurnIn,
         Lifecycle!CanDelete

LEMMA SameChanges ==
    ASSUME NEW s, NEW h, NEW r
    PROVE  /\ Lifecycle!CommitUserTurn(s) = CommitUserTurn(s)
           /\ Lifecycle!CloseSession(s) = CloseSession(s)
           /\ Lifecycle!BeginCompletion(s) = BeginCompletion(s)
           /\ Lifecycle!ResumeAfterCompletion(s) = ResumeAfterCompletion(s)
           /\ Lifecycle!SaveReflection(s, h, r) = SaveReflection(s, h, r)
           /\ Lifecycle!PostponeReflection(s, h) = PostponeReflection(s, h)
           /\ Lifecycle!TurnInSession(s) = TurnInSession(s)
<1>1. ASSUME NEW k
      PROVE  /\ Lifecycle!Triggered(k) = Triggered(k)
             /\ Lifecycle!Answered(k) = Answered(k)
  BY DEF Triggered, Lifecycle!Triggered, Answered, Lifecycle!Answered
<1>2. Lifecycle!NoTrigger = NoTrigger /\ Lifecycle!CompletionSources = CompletionSources
  BY DEF NoTrigger, Lifecycle!NoTrigger, CompletionSources, Lifecycle!CompletionSources
<1>3. ASSUME NEW k, NEW d PROVE Lifecycle!DueMid(k, d) = DueMid(k, d)
  BY <1>1, <1>2, Zenon DEF DueMid, Lifecycle!DueMid
<1>4. ASSUME NEW d PROVE Lifecycle!TriggerMidReflections(d) = TriggerMidReflections(d)
  BY <1>3, Zenon DEF TriggerMidReflections, Lifecycle!TriggerMidReflections
<1>5. ASSUME NEW k PROVE Lifecycle!CompletionTriggered(k) = CompletionTriggered(k)
  <2>1. CASE Triggered(k)
    BY <1>1, <2>1 DEF CompletionTriggered, Lifecycle!CompletionTriggered
  <2>2. CASE ~Triggered(k) /\ k.phase = "post"
    BY <1>1, <2>2 DEF CompletionTriggered, Lifecycle!CompletionTriggered
  <2>3. CASE ~Triggered(k) /\ k.phase # "post" /\ k.phase = "mid" /\ k.carry_to_post
    BY <1>1, <2>3 DEF CompletionTriggered, Lifecycle!CompletionTriggered
  <2>4. CASE ~Triggered(k) /\ k.phase # "post" /\ ~(k.phase = "mid" /\ k.carry_to_post)
    BY <1>1, <2>4 DEF CompletionTriggered, Lifecycle!CompletionTriggered
  <2>. QED
    BY <2>1, <2>2, <2>3, <2>4
<1>6. ASSUME NEW d
      PROVE  Lifecycle!TriggerCompletionReflections(d) = TriggerCompletionReflections(d)
  BY <1>5, Zenon DEF TriggerCompletionReflections, Lifecycle!TriggerCompletionReflections
<1>7. ASSUME NEW d
      PROVE  Lifecycle!ClearCompletionReflections(d) = ClearCompletionReflections(d)
  BY <1>2, Zenon DEF ClearCompletionReflections, Lifecycle!ClearCompletionReflections
<1>8. ASSUME NEW d PROVE Lifecycle!ReachTurnLimit(d) = ReachTurnLimit(d)
  BY <1>6, Zenon DEF ReachTurnLimit, Lifecycle!ReachTurnLimit
<1>9. Lifecycle!CommitUserTurn(s) = CommitUserTurn(s)
  BY <1>4, <1>8, Zenon DEF CommitUserTurn, Lifecycle!CommitUserTurn
<1>10. Lifecycle!CloseSession(s) = CloseSession(s)
  BY Zenon DEF CloseSession, Lifecycle!CloseSession
<1>11. Lifecycle!BeginCompletion(s) = BeginCompletion(s)
  BY <1>6, Zenon DEF BeginCompletion, Lifecycle!BeginCompletion
<1>12. Lifecycle!ResumeAfterCompletion(s) = ResumeAfterCompletion(s)
  BY <1>7, Zenon DEF ResumeAfterCompletion, Lifecycle!ResumeAfterCompletion
<1>13. Lifecycle!SaveReflection(s, h, r) = SaveReflection(s, h, r)
  BY Zenon DEF SaveReflection, Lifecycle!SaveReflection
<1>14. Lifecycle!PostponeReflection(s, h) = PostponeReflection(s, h)
  BY Zenon DEF PostponeReflection, Lifecycle!PostponeReflection
<1>15. Lifecycle!TurnInSession(s) = TurnInSession(s)
  BY Zenon DEF TurnInSession, Lifecycle!TurnInSession
<1>. QED
  BY <1>9, <1>10, <1>11, <1>12, <1>13, <1>14, <1>15

LEMMA SameStart ==
    ASSUME NEW lesson \in Lessons
    PROVE  lesson \in Lifecycle!Lessons /\ Lifecycle!NewSession(lesson) = NewSession(lesson)
<1>1. Lifecycle!NoTrigger = NoTrigger
  BY DEF NoTrigger, Lifecycle!NoTrigger
<1>2. ASSUME NEW n PROVE Lifecycle!LessonHooks(n) = LessonHooks(n)
  BY <1>1, Zenon DEF LessonHooks, Lifecycle!LessonHooks
<1>3. Lifecycle!Lessons = Lessons
  BY <1>2, Zenon DEF Lessons, Lifecycle!Lessons
<1>4. ASSUME NEW k, NEW n PROVE Lifecycle!ResolveTriggerTurn(k, n) = ResolveTriggerTurn(k, n)
  BY <1>1, Zenon DEF ResolveTriggerTurn, Lifecycle!ResolveTriggerTurn
<1>5. Lifecycle!NewSession(lesson) = NewSession(lesson)
  BY <1>4, Zenon DEF NewSession, Lifecycle!NewSession
<1>. QED
  BY <1>3, <1>5

\* A save commits what the operation makes of the hydrated document, and
\* a document that takes turns has its transcript.
LEMMA SaveRefines ==
    ASSUME Types, Consistent, Removed, NEW q \in Requests, SaveSession(q)
    PROVE  Lifecycle!Next
<1>. DEFINE o == req[q]
            held == cache # NoCache
            s == row.doc
            d == Hydrated(s, held)
<1>1. /\ o \in Loaded /\ row.present /\ o.op.name \notin {"read", "delete"}
      /\ o.doc = d /\ ~AlreadyDone(o) /\ Allowed(o.op, d)
      /\ Ephemeral(s) /\ s.turn_count = 0 => held
  BY SavesStored DEF SaveSession
<1>2. /\ row'.doc = Effect(o.op, d) /\ cache' = cache /\ deleted' = deleted
  BY <1>1 DEF SaveSession, Stored
<1>3. ~deleted /\ held \in BOOLEAN /\ s \in Sessions /\ o.op \in Operations
  BY <1>1 DEF Removed, Types, Rows, Loaded
<1>4. /\ (~deleted /\ cache # NoCache) = held
      /\ (~deleted' /\ cache' # NoCache) = held
  BY <1>2, <1>3
<1>5. Lifecycle!Loaded = d
  BY <1>4, SameLoading DEF Lifecycle!Loaded
<1>6. ASSUME NEW t, row'.doc = t PROVE Lifecycle!Save(t)
  <2>1. held = CachedAfterHydrate(s, held)
    BY <1>1, <1>3 DEF CachedAfterHydrate
  <2>. QED
    BY <1>2, <1>3, <1>4, <1>6, <2>1, SameLoading DEF Lifecycle!Save
<1>7. CASE o.op.name = "submit"
  <2>1. CanSubmit(d) /\ d.is_active
    BY <1>1, <1>7 DEF Allowed, CanSubmit
  <2>2. held = Ephemeral(s)
    <3>1. Ephemeral(s) => held
      <4>1. ~Interrupted(s, held) \/ ~d.is_active
        BY <1>3, HydratedDocument
      <4>2. d.is_active => s.is_active
        BY <1>3, HydratedDocument
      <4>. QED
        BY <1>1, <1>3, <2>1, <4>1, <4>2 DEF Interrupted, Sessions
    <3>2. ~Ephemeral(s) => ~held
      BY DEF Consistent, Storage
    <3>. QED
      BY <1>3, <3>1, <3>2 DEF Ephemeral
  <2>3. row'.doc = CommitUserTurn(d)
    BY <1>2, <1>7 DEF Effect
  <2>4. Lifecycle!SubmitUserMessage
    BY <1>2, <1>3, <1>4, <1>5, <2>1, <2>2, <2>3, SameLoading, SameGuards, SameChanges
       DEF Lifecycle!SubmitUserMessage
  <2>. QED
    BY <2>4 DEF Lifecycle!Next
<1>. HIDE DEF d
<1>8. CASE o.op.name = "close"
  <2>1. d.is_active
    BY <1>1, <1>8 DEF AlreadyDone
  <2>2. row'.doc = CloseSession(d)
    BY <1>2, <1>8 DEF Effect
  <2>3. Lifecycle!Close
    BY <1>5, <1>6, <2>1, <2>2, SameChanges DEF Lifecycle!Close
  <2>. QED
    BY <2>3 DEF Lifecycle!Next
<1>9. CASE o.op.name = "complete"
  <2>1. CanBeginCompletion(d) /\ row'.doc = BeginCompletion(d)
    BY <1>1, <1>2, <1>9 DEF Allowed, Effect
  <2>2. Lifecycle!Complete
    BY <1>5, <1>6, <2>1, SameGuards, SameChanges DEF Lifecycle!Complete
  <2>. QED
    BY <2>2 DEF Lifecycle!Next
<1>10. CASE o.op.name = "resume"
  <2>1. CanResume(d) /\ row'.doc = ResumeAfterCompletion(d)
    BY <1>1, <1>2, <1>10 DEF Allowed, Effect
  <2>2. Lifecycle!Resume
    BY <1>5, <1>6, <2>1, SameGuards, SameChanges DEF Lifecycle!Resume
  <2>. QED
    BY <2>2 DEF Lifecycle!Next
<1>11. CASE o.op.name = "reflect"
  <2>1. /\ CanSaveReflection(d, o.op.hook)
        /\ row'.doc = SaveReflection(d, o.op.hook, o.op.response)
    BY <1>1, <1>2, <1>11 DEF Allowed, Effect
  <2>2. Lifecycle!Reflect(o.op.hook, o.op.response)
    BY <1>5, <1>6, <2>1, SameGuards, SameChanges DEF Lifecycle!Reflect
  <2>3. o.op.hook \in Hooks /\ o.op.response \in {"blank", "text"}
    BY <1>3, <1>11, OperationKinds
  <2>. QED
    BY <2>2, <2>3 DEF Lifecycle!Next
<1>12. CASE o.op.name = "postpone"
  <2>1. CanPostpone(d, o.op.hook) /\ row'.doc = PostponeReflection(d, o.op.hook)
    BY <1>1, <1>2, <1>12 DEF Allowed, Effect
  <2>2. Lifecycle!Postpone(o.op.hook)
    BY <1>5, <1>6, <2>1, SameGuards, SameChanges DEF Lifecycle!Postpone
  <2>3. o.op.hook \in Hooks
    BY <1>3, <1>12, OperationKinds
  <2>. QED
    BY <2>2, <2>3 DEF Lifecycle!Next
<1>13. CASE o.op.name = "turn_in"
  <2>1. CanTurnIn(d) /\ row'.doc = TurnInSession(d)
    BY <1>1, <1>2, <1>13 DEF Allowed, Effect
  <2>2. Lifecycle!TurnIn
    BY <1>5, <1>6, <2>1, SameGuards, SameChanges DEF Lifecycle!TurnIn
  <2>. QED
    BY <2>2 DEF Lifecycle!Next
<1>. QED
  BY <1>1, <1>3, <1>7, <1>8, <1>9, <1>10, <1>11, <1>12, <1>13, OperationKinds

\* Reading starts the cache of a session without turns, or stores the
\* closure of an interrupted one: both are GetSession.
LEMMA ReadingRefines ==
    ASSUME Lasting, Types, Consistent, Removed, NEW q \in Requests,
           Hydrate(q) \/ SaveRestart(q)
    PROVE  Lifecycle!Next \/ UNCHANGED Lifecycle!vars
<1>. DEFINE o == req[q]
<1>1. o \in Loaded
  BY Kinds DEF Types, Hydrate, SaveRestart
<1>2. Rules(o) /\ Knows(o, lock = q, row, cache) /\ deleted' = deleted
  BY <1>1 DEF Consistent, Hydrate, SaveRestart, histories
<1>3. NoRevival
  BY DEF Lasting, NoRevival
<1>4. Ephemeral(row.doc) => ~deleted /\ row.present
  BY <1>3, Undisabled DEF Consistent, Storage
<1>5. /\ o.doc \in Sessions /\ row.doc \in Sessions
      /\ Ephemeral(o.doc) <=> Ephemeral(row.doc)
  BY <1>1, <1>2 DEF Loaded, Types, Rows, Knows, Bounds, Ephemeral
<1>6. CASE Hydrate(q)
  <2>1. row' = row
    BY <1>6 DEF Hydrate
  <2>2. CASE cache = NoCache /\ CachedAfterHydrate(o.doc, FALSE)
    <3>1. cache' = <<>> /\ <<>> # NoCache
      BY <1>6, <2>2 DEF Hydrate, NoCache
    <3>2. Ephemeral(row.doc) /\ o.doc.turn_count = 0
      BY <1>5, <2>2 DEF CachedAfterHydrate
    <3>3. row.doc.turn_count = 0
      BY <1>2, <1>6, <2>2, <3>2 DEF Knows, Hydrating, Hydrate
    <3>4. ~Interrupted(row.doc, FALSE) /\ CachedAfterHydrate(row.doc, FALSE) = TRUE
      BY <3>2, <3>3 DEF Interrupted, CachedAfterHydrate
    <3>5. /\ (~deleted /\ cache # NoCache) = FALSE
          /\ (~deleted' /\ cache' # NoCache) = TRUE
      BY <1>2, <1>4, <2>2, <3>1, <3>2
    <3>6. Lifecycle!GetSession
      BY <1>2, <1>4, <2>1, <3>2, <3>4, <3>5, SameLoading
         DEF Lifecycle!GetSession, Lifecycle!Save
    <3>. QED
      BY <3>6 DEF Lifecycle!Next
  <2>3. CASE ~(cache = NoCache /\ CachedAfterHydrate(o.doc, FALSE))
    <3>1. cache' = cache
      BY <1>6, <2>3 DEF Hydrate
    <3>. QED
      BY <1>2, <2>1, <3>1 DEF Lifecycle!vars
  <2>. QED
    BY <2>2, <2>3
<1>7. CASE SaveRestart(q)
  <2>1. cache' = cache /\ cache = NoCache /\ o.pc = "save_restart"
    BY <1>2, <1>7 DEF SaveRestart, Knows, Restarting
  <2>2. CASE Saves(o)
    <3>1. row'.doc = o.doc
      BY <1>7, <2>2 DEF SaveRestart, Stored
    <3>2. Ephemeral(row.doc)
      BY <1>2, <1>5, <2>1 DEF Rules
    <3>3. Interrupted(row.doc, FALSE) /\ o.doc = Hydrated(row.doc, FALSE)
      BY <1>2, <1>4, <2>1, <2>2, <3>2 DEF Knows, Restarting, Saves
    <3>4. CachedAfterHydrate(row.doc, FALSE) = FALSE
      BY <1>5, <3>3 DEF CachedAfterHydrate, Interrupted, Sessions
    <3>5. /\ (~deleted /\ cache # NoCache) = FALSE
          /\ (~deleted' /\ cache' # NoCache) = FALSE
      BY <2>1
    <3>6. Lifecycle!GetSession
      BY <1>2, <1>4, <3>1, <3>2, <3>3, <3>4, <3>5, SameLoading
         DEF Lifecycle!GetSession, Lifecycle!Save, Lifecycle!Loaded
    <3>. QED
      BY <3>6 DEF Lifecycle!Next
  <2>3. CASE ~Saves(o)
    BY <1>2, <1>7, <2>1, <2>3 DEF SaveRestart, Lifecycle!vars
  <2>. QED
    BY <2>2, <2>3
<1>. QED
  BY <1>6, <1>7

\* Deletion takes effect when the row goes; what follows is not seen.
LEMMA DeletingRefines ==
    ASSUME Types, Consistent, Removed, NEW q \in Requests, DeleteRow(q) \/ DeleteCache(q)
    PROVE  Lifecycle!Next \/ UNCHANGED Lifecycle!vars
<1>. DEFINE o == req[q]
<1>1. o \in Loaded
  BY Kinds DEF Types, DeleteRow, DeleteCache
<1>2. Rules(o) /\ Knows(o, lock = q, row, cache) /\ Place(o, lock = q)
  BY <1>1 DEF Consistent
<1>3. CASE DeleteRow(q)
  <2>1. o.pc = "delete" /\ o.op.name = "delete" /\ lock = q /\ Working(o)
    BY <1>2, <1>3 DEF DeleteRow, Rules, Place, Working, Acting
  <2>2. row.present /\ o.doc.is_finalized = row.doc.is_finalized
    BY <1>2, <2>1 DEF Knows, Bounds
  <2>3. ~o.doc.is_finalized
    BY <1>2, <2>1 DEF Rules, Allowed, CanDelete
  <2>4. /\ row'.doc = row.doc /\ deleted' = TRUE /\ ~deleted /\ row.doc \in Sessions
    BY <1>3, <2>2 DEF DeleteRow, Types, Rows, Removed
  <2>5. (~deleted /\ cache # NoCache) \in BOOLEAN
    OBVIOUS
  <2>. DEFINE held == ~deleted /\ cache # NoCache
  <2>6. ~Hydrated(row.doc, held).is_finalized
    BY <2>2, <2>3, <2>4, <2>5, HydratedDocument
  <2>7. Lifecycle!CanDelete(Lifecycle!Loaded)
    BY <2>6, SameLoading, SameGuards DEF Lifecycle!Loaded
  <2>8. Lifecycle!Delete
    BY <2>4, <2>7 DEF Lifecycle!Delete
  <2>. QED
    BY <2>8 DEF Lifecycle!Next
<1>4. CASE DeleteCache(q)
  <2>1. deleted /\ deleted' = deleted /\ row' = row
    BY <1>4 DEF DeleteCache, Consistent, Gone, histories
  <2>. QED
    BY <2>1 DEF Lifecycle!vars
<1>. QED
  BY <1>3, <1>4

\* The retention job works on the stored document.
LEMMA ExpiryRefines ==
    ASSUME Lasting, Types, Consistent, Removed, CleanerSave
    PROVE  Lifecycle!Next \/ UNCHANGED Lifecycle!vars
<1>1. /\ cleaner.pc = "save" /\ cache' = cache /\ deleted' = deleted
      /\ Listed(cleaner, row)
  BY DEF CleanerSave, histories, Consistent
<1>2. ~deleted /\ row.present
  BY <1>1 DEF Lasting, Removed, CleanerIdle, Consistent, Storage
<1>3. CASE Saves(cleaner)
  <2>1. row'.doc = ExpireContent(row.doc) /\ ~row.doc.is_active
    BY <1>1, <1>2, <1>3 DEF CleanerSave, Listed, Saves, Stored
  <2>2. Lifecycle!Expire
    BY <1>1, <1>2, <2>1, SameLoading DEF Lifecycle!Expire, CanExpire
  <2>. QED
    BY <2>2 DEF Lifecycle!Next
<1>4. CASE ~Saves(cleaner)
  BY <1>1, <1>4 DEF CleanerSave, Lifecycle!vars
<1>. QED
  BY <1>3, <1>4

LEMMA StepRefines ==
    ASSUME Lasting, IInv, Removed, [Next]_vars
    PROVE  [Lifecycle!Next]_(Lifecycle!vars)
<1>. USE DEF IInv
<1>1. ASSUME NEW q \in Requests, Start(q) \/ RequestStep(q) \/ Cancel(q)
      PROVE  [Lifecycle!Next]_(Lifecycle!vars)
  <2>1. CASE SaveSession(q)
    BY <2>1, SaveRefines
  <2>2. CASE Hydrate(q) \/ SaveRestart(q)
    BY <2>2, ReadingRefines
  <2>3. CASE DeleteRow(q) \/ DeleteCache(q)
    BY <2>3, DeletingRefines
  <2>4. CASE CacheTranscript(q)
    <3>1. req[q] \in Loaded /\ req[q].pc = "cache"
      BY <2>4, Kinds DEF CacheTranscript, Types
    <3>2. cache # NoCache
      BY <3>1 DEF Consistent, Knows
    <3>3. cache' # NoCache /\ row' = row /\ deleted' = deleted
      BY <2>4, <3>1, NoCacheIsNone DEF CacheTranscript, Loaded, histories
    <3>. QED
      BY <3>2, <3>3 DEF Lifecycle!vars
  <2>5. CASE ~(\/ SaveSession(q) \/ Hydrate(q) \/ SaveRestart(q) \/ DeleteRow(q)
               \/ DeleteCache(q) \/ CacheTranscript(q))
    <3>1. row' = row /\ cache' = cache /\ deleted' = deleted
      BY <1>1, <2>5
         DEF RequestStep, Start, Acquire, Read, ReadMissing, Reread, Decide, InferenceAnswers,
             InferenceFails, SaveConflict, CheckLog, SaveLog, LogFails, Respond, DeleteLog,
             Cancel, histories
    <3>. QED
      BY <3>1 DEF Lifecycle!vars
  <2>. QED
    BY <2>1, <2>2, <2>3, <2>4, <2>5
<1>2. CASE Restart
  <2>1. row' = row /\ deleted' = deleted /\ (~deleted' /\ cache' # NoCache) = FALSE
    BY <1>2 DEF Restart, histories
  <2>2. Lifecycle!Restart
    BY <2>1 DEF Lifecycle!Restart
  <2>. QED
    BY <2>2 DEF Lifecycle!Next
<1>3. CASE CleanerSave
  BY <1>3, ExpiryRefines
<1>4. CASE CleanerList \/ CleanerExpireLog \/ CleanerCrash \/ UNCHANGED vars
  <2>1. row' = row /\ cache' = cache /\ deleted' = deleted
    BY <1>4 DEF CleanerList, CleanerExpireLog, CleanerCrash, vars, histories
  <2>. QED
    BY <2>1 DEF Lifecycle!vars
<1>. QED
  BY <1>1, <1>2, <1>3, <1>4 DEF Next, CleanerStep

\* Requests that lose control at every await, the retention job and restarts
\* between them amount to operations that take effect at once: at the save,
\* at the deletion of the row, or when a read stores or starts something.
THEOREM ServiceRefinesLifecycle ==
    ASSUME Lasting
    PROVE  Spec => AtomicLifecycle
<1>1. Init => Lifecycle!Init
  <2>. SUFFICES ASSUME Init PROVE Lifecycle!Init
    OBVIOUS
  <2>1. PICK lesson \in Lessons : row.doc = NewSession(lesson)
    BY DEF Init
  <2>2. \E k \in Lifecycle!Lessons : row.doc = Lifecycle!NewSession(k)
    BY <2>1, SameStart
  <2>3. (~deleted /\ cache # NoCache) = Ephemeral(row.doc) /\ deleted = FALSE
    BY DEF Init, NoCache, Ephemeral
  <2>. QED
    BY <2>2, <2>3, SameLoading DEF Lifecycle!Init
<1>2. IInv /\ Removed /\ [Next]_vars => [Lifecycle!Next]_(Lifecycle!vars)
  BY StepRefines
<1>3. Spec => [](IInv /\ Removed)
  BY RemovedConsistent
<1>. QED
  BY <1>1, <1>2, <1>3, PTL DEF Spec, AtomicLifecycle, Lifecycle!Spec

=============================================================================
