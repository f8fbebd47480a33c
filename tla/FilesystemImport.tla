-------------------------- MODULE FilesystemImport --------------------------
(***************************************************************************)
(* utils/import_filesystem_to_postgres.py: the one-way import of the files *)
(* into an empty database.  The preflight accepts or refuses the files and *)
(* the target; the records are then written one transaction after another, *)
(* in the order of their dependencies, and compared with the files.  A     *)
(* crash leaves a part of them, which only a reset of the target removes.  *)
(*                                                                         *)
(* The storage is at rest while an import runs, so the files stand for the *)
(* staged SourceData, and nobody else uses the target, which is at the     *)
(* current schema.                                                         *)
(***************************************************************************)
EXTENDS FilesystemStore, Sequences

\* Rows of sessions and logs in the target.
SessionRows == [document : Documents, updated_at : {"source", "now"}]
LogRows == [meta : Metadata, blob : Optional(Texts)]

ASSUME RowAssumption ==
    None \notin Documents \cup Metadata \cup SessionRows \cup LogRows
                \cup [Lessons -> Optional(Versions)]

VARIABLES
    db,         \* rows of the target
    import      \* the importer: [pc, left, status, session]

vars == <<storeVars, db, import>>

Phases == <<"courses", "lessons", "bindings", "sessions", "logs", "audits",
            "course_states", "lesson_states", "verify">>

EmptyTarget ==
    [course |-> [c \in Courses |-> None],
     lesson |-> [c \in Courses |-> [a \in Artifacts |-> None]],
     session |-> [s \in Sessions |-> None], log |-> [s \in Sessions |-> None],
     audits |-> {}, course_states |-> {}, lesson_states |-> {}]

Idle(status) == [pc |-> 0, left |-> {}, status |-> status, session |-> None]

Init == StoreInit /\ db = EmptyTarget /\ import = Idle("none")

---------------------------------------------------------------------------
(***************************************************************************)
(* The preflight of the source: _load_source.                              *)
(***************************************************************************)
KnownCourses == {c \in Courses : files.course[c] # None}
KnownSessions == {s \in Sessions : files.session[s] # None}
Logs == {s \in Sessions : files.meta[s] # None}

\* The pairs of a course and an artifact it is bound to.
Bindings == {b \in KnownCourses \X Artifacts : files.course[b[1]][b[2][1]] = b[2][2]}

Bound(c, a) == <<c, a>> \in Bindings

\* _bind_lessons: the course's own document, or else legacy ones.
Matches(c, a) ==
    IF files.lesson[c][a] # None THEN {<<c, a>>}
    ELSE {<<scope, a>> : scope \in {x \in LegacyScopes : files.lesson[x][a] # None}}

SourceDocuments == {d \in Scopes \X Artifacts : files.lesson[d[1]][d[2]] # None}

LessonsResolve ==
    /\ \A b \in Bindings : Cardinality(Matches(b[1], b[2])) = 1
    /\ SourceDocuments \subseteq UNION {Matches(b[1], b[2]) : b \in Bindings}

\* The text that is imported for a binding.
Resolved(c, a) == LET d == CHOOSE d \in Matches(c, a) : TRUE IN files.lesson[d[1]][d[2]]

ConfigsAgree ==
    \A s \in Sessions : files.config[s] # None =>
        s \in KnownSessions /\ files.session[s].frozen \in {None, files.config[s]}

\* The config of _load_inference_configs.
SourceConfig(s) == IF files.config[s] # None THEN files.config[s] ELSE files.session[s].frozen

\* Mutant: the course need only exist.
MutantSessionsBound == \A s \in KnownSessions : files.session[s].course \in KnownCourses

SessionsBound == \A s \in KnownSessions : Bound(files.session[s].course, files.session[s].artifact)

\* Mutant: logs are looked for by their metadata only.
MutantLogsWhole ==
    \A s \in Logs :
        /\ Bound(files.meta[s].course, files.meta[s].artifact)
        /\ s \in KnownSessions
        /\ files.blob[s] = IF files.meta[s].available THEN files.meta[s].sha ELSE None

LogsWhole ==
    \A s \in Sessions :
        IF s \notin Logs THEN files.blob[s] = None
        ELSE /\ Bound(files.meta[s].course, files.meta[s].artifact)
             /\ s \in KnownSessions
             /\ files.blob[s] = IF files.meta[s].available THEN files.meta[s].sha ELSE None

AuditsKnown == files.audits \subseteq KnownCourses \X Optional(KnownSessions)

StatesKnown ==
    /\ files.course_states \subseteq KnownCourses
    /\ files.lesson_states \subseteq Bindings

AcceptSource ==
    /\ LessonsResolve /\ ConfigsAgree /\ SessionsBound /\ LogsWhole /\ AuditsKnown /\ StatesKnown

\* _validate_target
AcceptTarget == db = EmptyTarget

---------------------------------------------------------------------------
(***************************************************************************)
(* Writing, one record at a time.                                          *)
(***************************************************************************)
Records(phase) ==
    CASE phase \in {"courses", "bindings"} -> KnownCourses
      [] phase = "lessons"       -> Bindings
      [] phase = "sessions"      -> KnownSessions
      [] phase = "logs"          -> Logs
      [] phase = "audits"        -> files.audits
      [] phase = "course_states" -> files.course_states
      [] phase = "lesson_states" -> files.lesson_states
      [] phase = "verify"        -> {}

InPhase(phase) == import.pc # 0 /\ Phases[import.pc] = phase

\* A validated source and an empty target start the import; a dry run stops
\* here.
StartImport(dry_run) ==
    /\ import.pc = 0 /\ rest = None
    /\ import' =
        IF ~(AcceptSource /\ AcceptTarget) THEN Idle("refused")
        ELSE IF dry_run THEN Idle("validated")
        ELSE [pc |-> 1, left |-> Records("courses"), status |-> "running", session |-> None]
    /\ UNCHANGED <<storeVars, db>>

Raise == import' = Idle("error") /\ UNCHANGED db

\* The record r of the phase is written if its transaction can commit.
Write(phase, r, possible, target) ==
    /\ InPhase(phase) /\ r \in import.left
    /\ IF possible
       THEN db' = target /\ import' = [import EXCEPT !.left = @ \ {r}]
       ELSE Raise
    /\ UNCHANGED storeVars

\* save_course without lessons.
ImportCourse(c) ==
    Write("courses", c, db.course[c] = None,
          [db EXCEPT !.course[c] = [l \in Lessons |-> None]])

\* save_lesson
ImportLesson(c, a) ==
    Write("lessons", <<c, a>>, db.course[c] # None,
          [db EXCEPT !.lesson[c][a] = Resolved(c, a)])

\* save_course with the lessons, whose rows must exist.
ImportBindings(c) ==
    Write("bindings", c,
          \A a \in Artifacts : Bound(c, a) => db.lesson[c][a] # None,
          [db EXCEPT !.course[c] = files.course[c]])

\* save_session of a new session requires the lesson and its binding; what
\* a disabled session said is not kept.
ImportSession(s) ==
    LET source == files.session[s]
        row    == [document |-> [source EXCEPT !.messages = @ /\ source.policy # "disabled"],
                   updated_at |-> "source"]
    IN /\ import.session = None
       /\ InPhase("sessions") /\ s \in import.left
       /\ IF /\ db.course[source.course] # None
             /\ db.lesson[source.course][source.artifact] # None
             /\ db.course[source.course][source.artifact[1]] = source.artifact[2]
          THEN /\ db' = [db EXCEPT !.session[s] = row]
               /\ import' = [import EXCEPT !.left = @ \ {s}, !.session = s]
          ELSE Raise
       /\ UNCHANGED storeVars

\* save_inference_config: an UPDATE, if there is anything to change, stamps
\* the row with the current time (onupdate).
ImportConfig(s) ==
    /\ import.session = s
    /\ db' = IF SourceConfig(s) \in {None, db.session[s].document.frozen} THEN db
             ELSE [db EXCEPT !.session[s].document.frozen = SourceConfig(s),
                             !.session[s].updated_at = "now"]
    /\ import' = [import EXCEPT !.session = None]
    /\ UNCHANGED storeVars

\* restore_encrypted_log: bytes and metadata as they are.
ImportLog(s) ==
    Write("logs", s, db.log[s] = None,
          [db EXCEPT !.log[s] = [meta |-> files.meta[s], blob |-> files.blob[s]]])

ImportAudit(audit) ==
    Write("audits", audit, audit \notin db.audits, [db EXCEPT !.audits = @ \cup {audit}])

ImportCourseState(c) ==
    Write("course_states", c, db.course[c] # None, [db EXCEPT !.course_states = @ \cup {c}])

ImportLessonState(c, a) ==
    Write("lesson_states", <<c, a>>, db.course[c] # None /\ db.lesson[c][a] # None,
          [db EXCEPT !.lesson_states = @ \cup {<<c, a>>}])

NextPhase ==
    /\ import.pc \in 1..(Len(Phases) - 1) /\ import.left = {} /\ import.session = None
    /\ import' = [import EXCEPT !.pc = @ + 1, !.left = Records(Phases[import.pc + 1])]
    /\ UNCHANGED <<storeVars, db>>

---------------------------------------------------------------------------
(***************************************************************************)
(* The comparison with the source: _verify_target.                         *)
(***************************************************************************)
\* _expected_persisted_session
Expected(s) ==
    LET source == files.session[s]
    IN [document |-> [source EXCEPT !.messages = @ /\ source.policy # "disabled",
                                    !.frozen = SourceConfig(s)],
        updated_at |-> "source"]

RecordsAgree ==
    /\ \A c \in KnownCourses : db.course[c] = files.course[c]
    /\ \A b \in Bindings : db.lesson[b[1]][b[2]] = Resolved(b[1], b[2])
    /\ \A s \in KnownSessions : db.session[s] = Expected(s)
    /\ \A s \in Logs : db.log[s] = [meta |-> files.meta[s], blob |-> files.blob[s]]
    /\ db.audits = files.audits
    /\ db.course_states = files.course_states /\ db.lesson_states = files.lesson_states

Present(rows) == {x \in DOMAIN rows : rows[x] # None}

CountsAgree ==
    /\ Cardinality(Present(db.course)) = Cardinality(KnownCourses)
    /\ Cardinality({d \in Courses \X Artifacts : db.lesson[d[1]][d[2]] # None}) = Cardinality(Bindings)
    /\ Cardinality(Present(db.session)) = Cardinality(KnownSessions)
    /\ Cardinality({s \in Present(db.session) : db.session[s].document.frozen # None})
        = Cardinality({s \in KnownSessions : SourceConfig(s) # None})
    /\ Cardinality(Present(db.log)) = Cardinality(Logs)
    /\ Cardinality(db.audits) = Cardinality(files.audits)
    /\ Cardinality(db.course_states) = Cardinality(files.course_states)
    /\ Cardinality(db.lesson_states) = Cardinality(files.lesson_states)

Verify ==
    /\ InPhase("verify")
    /\ import' = Idle(IF RecordsAgree /\ CountsAgree THEN "imported" ELSE "unverified")
    /\ UNCHANGED <<storeVars, db>>

---------------------------------------------------------------------------
\* The importer dies or the database fails.
ImportCrash ==
    /\ import.pc # 0 /\ import' = Idle("crashed")
    /\ UNCHANGED <<storeVars, db>>

\* The operator resets the target, as the README asks after a failure.
ResetTarget ==
    /\ import.pc = 0 /\ db # EmptyTarget
    /\ db' = EmptyTarget /\ import' = Idle("none")
    /\ UNCHANGED storeVars

\* The old server runs while no import does; it is not started again once
\* its files are imported.
Serve ==
    /\ import.pc = 0 /\ import.status # "imported"
    /\ StoreNext
    /\ import' = Idle("none") /\ UNCHANGED db

Next ==
    \/ Serve
    \/ \E dry_run \in BOOLEAN : StartImport(dry_run)
    \/ \E c \in Courses :
            \/ ImportCourse(c) \/ ImportBindings(c) \/ ImportCourseState(c)
            \/ \E a \in Artifacts : ImportLesson(c, a) \/ ImportLessonState(c, a)
    \/ \E s \in Sessions : ImportSession(s) \/ ImportConfig(s) \/ ImportLog(s)
    \/ \E audit \in files.audits : ImportAudit(audit)
    \/ NextPhase \/ Verify \/ ImportCrash \/ ResetTarget

Spec == Init /\ [][Next]_vars

---------------------------------------------------------------------------
(***************************************************************************)
(* Properties.                                                             *)
(***************************************************************************)
\* What the old storage serves: load_lesson of a course's binding, falling
\* back to the legacy document that a binding would have copied;
\* get_inference_config; load_encrypted_log.
ServedLesson(c, a) ==
    IF files.lesson[c][a] # None THEN files.lesson[c][a]
    ELSE CHOOSE text \in Texts : \E scope \in LegacyScopes : files.lesson[scope][a] = text

ServedConfig(s) ==
    IF files.config[s] # None THEN files.config[s]
    ELSE IF files.session[s] = None THEN None ELSE files.session[s].frozen

\* An import that reports success has moved everything, as the old storage
\* served it, and nothing else: no lesson of another course or scope, no log
\* that a crash tore, nothing left over from an import that was cut.
ImportedIsWhole ==
    import.status = "imported" =>
        /\ db.course = files.course
        /\ \A c \in Courses, a \in Artifacts :
                db.lesson[c][a] = IF Bound(c, a) THEN ServedLesson(c, a) ELSE None
        /\ \A s \in Sessions :
            /\ (db.session[s] # None) = (files.session[s] # None)
            /\ db.session[s] # None => db.session[s].document.frozen = ServedConfig(s)
            /\ (db.log[s] # None) = (files.meta[s] # None \/ files.blob[s] # None)
            /\ db.log[s] # None => /\ db.log[s].blob = files.blob[s]
                                   /\ db.log[s].blob \in {None, db.log[s].meta.sha}
        /\ db.audits = files.audits
        /\ db.course_states = files.course_states /\ db.lesson_states = files.lesson_states

\* The preflight is strong enough: an import of files it has accepted, into
\* a target it has accepted, is refused by no constraint of the database and
\* verifies, whatever crashed before.  Sessions whose config is only in a
\* file of its own are left out: writing it changes updated_at, and they do
\* not verify.
PreflightSuffices ==
    import.status \in {"error", "unverified"} =>
        \E s \in Sessions : files.config[s] # None /\ files.session[s].frozen = None
=============================================================================
