----------------------- MODULE FilesystemImportProofs -----------------------
(***************************************************************************)
(* Theorems about FilesystemImport for any files: an import that verified  *)
(* has moved everything, and one that the preflight accepted verifies.     *)
(***************************************************************************)
EXTENDS FilesystemImport, FiniteSetTheorems, TLAPS

(***************************************************************************)
(* The inductive invariant.                                                *)
(***************************************************************************)
CourseRows == [Lessons -> Optional(Versions)]

Rests ==
    {None}
        \cup [name : {"course"}, course : Courses, bindings : CourseRows]
        \cup [name : {"config"}, session : Sessions]
        \cup [name : {"meta"}, session : Sessions, meta : Optional(Metadata)]

Targets ==
    [course : [Courses -> Optional(CourseRows)],
     lesson : [Courses -> [Artifacts -> Optional(Texts)]],
     session : [Sessions -> Optional(SessionRows)],
     log : [Sessions -> Optional(LogRows)],
     audits : SUBSET (Courses \X Optional(Sessions)),
     course_states : SUBSET Courses,
     lesson_states : SUBSET (Courses \X Artifacts)]

ImporterTypes ==
    /\ import = [pc |-> import.pc, left |-> import.left, status |-> import.status,
                 session |-> import.session]
    /\ import.pc \in 0 .. 9
    /\ import.status \in {"none", "running", "validated", "refused", "error", "crashed",
                          "unverified", "imported"}
    /\ import.status = "running" <=> import.pc # 0
    /\ import.session # None =>
            import.pc = 4 /\ import.session \in KnownSessions /\ import.session \notin import.left

Types == files \in Files /\ rest \in Rests /\ db \in Targets /\ ImporterTypes

\* What phase i has still to write.
Left(i, all) == IF import.pc < i THEN all ELSE IF import.pc = i THEN import.left ELSE {}

\* Sessions that have their config in a file of its own have it in their
\* document as well.
NoLateConfigs == \A s \in Sessions : files.config[s] # None => files.session[s].frozen # None

Copy(s) == [meta |-> files.meta[s], blob |-> files.blob[s]]

\* The target holds what the phases so far have written, and nothing else.
CoursesWritten ==
    /\ Left(1, KnownCourses) \subseteq KnownCourses /\ Left(3, KnownCourses) \subseteq KnownCourses
    /\ \A c \in Courses :
        db.course[c] = IF c \notin KnownCourses \/ c \in Left(1, KnownCourses) THEN None
                       ELSE IF c \in Left(3, KnownCourses) THEN [l \in Lessons |-> None]
                       ELSE files.course[c]

LessonsWritten ==
    /\ Left(2, Bindings) \subseteq Bindings
    /\ \A c \in Courses, a \in Artifacts :
        db.lesson[c][a] = IF ~Bound(c, a) \/ <<c, a>> \in Left(2, Bindings) THEN None
                          ELSE Resolved(c, a)

SessionsWritten ==
    /\ Left(4, KnownSessions) \subseteq KnownSessions
    /\ \A s \in Sessions :
        IF s \notin KnownSessions \/ s \in Left(4, KnownSessions) THEN db.session[s] = None
        ELSE db.session[s] # None /\ (NoLateConfigs => db.session[s] = Expected(s))

LogsWritten ==
    /\ Left(5, Logs) \subseteq Logs
    /\ \A s \in Sessions :
        db.log[s] = IF s \notin Logs \/ s \in Left(5, Logs) THEN None ELSE Copy(s)

OthersWritten ==
    /\ db.audits = files.audits \ Left(6, files.audits)
    /\ Left(7, files.course_states) \subseteq files.course_states
    /\ db.course_states = files.course_states \ Left(7, files.course_states)
    /\ Left(8, files.lesson_states) \subseteq files.lesson_states
    /\ db.lesson_states = files.lesson_states \ Left(8, files.lesson_states)

Written ==
    CoursesWritten /\ LessonsWritten /\ SessionsWritten /\ LogsWritten /\ OthersWritten

Running == import.pc # 0 => AcceptSource /\ rest = None /\ Written

IInv == Types /\ Running /\ ImportedIsWhole /\ PreflightSuffices

---------------------------------------------------------------------------
(***************************************************************************)
(* The files.                                                              *)
(***************************************************************************)
LEMMA SourceKept ==
    ASSUME files' = files
    PROVE  /\ KnownCourses' = KnownCourses /\ KnownSessions' = KnownSessions
           /\ Logs' = Logs /\ Bindings' = Bindings
           /\ AcceptSource' <=> AcceptSource
           /\ NoLateConfigs' <=> NoLateConfigs
           /\ \A c, a : (Bound(c, a)' <=> Bound(c, a)) /\ Resolved(c, a)' = Resolved(c, a)
           /\ \A s : Expected(s)' = Expected(s) /\ Copy(s)' = Copy(s)
<1>1. /\ KnownCourses' = KnownCourses /\ KnownSessions' = KnownSessions
      /\ Logs' = Logs /\ Bindings' = Bindings
  BY DEF KnownCourses, KnownSessions, Logs, Bindings
<1>2. AcceptSource' <=> AcceptSource
  BY <1>1 DEF AcceptSource, LessonsResolve, Matches, SourceDocuments, ConfigsAgree, SessionsBound,
         Bound, LogsWhole, AuditsKnown, StatesKnown
<1>3. NoLateConfigs' <=> NoLateConfigs
  BY DEF NoLateConfigs
<1>4. \A c, a : (Bound(c, a)' <=> Bound(c, a)) /\ Resolved(c, a)' = Resolved(c, a)
  BY <1>1 DEF Bound, Resolved, Matches
<1>5. \A s : Expected(s)' = Expected(s) /\ Copy(s)' = Copy(s)
  BY DEF Expected, Copy, SourceConfig
<1>. QED
  BY <1>1, <1>2, <1>3, <1>4, <1>5

LEMMA StoreTypes ==
    ASSUME files \in Files, rest \in Rests, StoreNext
    PROVE  files' \in Files /\ rest' \in Rests
<1>. DEFINE Typed == files' \in Files /\ rest' \in Rests
<1>1. ASSUME NEW c \in Courses, NEW s \in Optional(Sessions), SaveAudit(c, s)
      PROVE  Typed
  <2>1. <<c, s>> \in Courses \X Optional(Sessions)
    OBVIOUS
  <2>2. files.audits \cup {<<c, s>>} \in SUBSET (Courses \X Optional(Sessions))
    BY <2>1 DEF Files
  <2>3. files' = [files EXCEPT !.audits = files.audits \cup {<<c, s>>}] /\ rest' = rest
    BY <1>1 DEF SaveAudit, Whole
  <2>4. files' \in Files
    BY <2>2, <2>3 DEF Files
  <2>. QED
    BY <2>3, <2>4
<1>2. ASSUME NEW c \in Courses, TouchCourse(c) \/ DeleteCourse(c)
      PROVE  Typed
  BY SMTT(30), <1>2 DEF TouchCourse, DeleteCourse, Whole, Files, Optional
<1>3. ASSUME NEW c \in Courses, NEW bindings \in CourseRows, SaveCourse(c, bindings)
      PROVE  Typed
  BY <1>3 DEF SaveCourse, Rests
<1>4. ASSUME NEW c \in Courses, NEW a \in Artifacts, TouchLesson(c, a)
      PROVE  Typed
  <2>1. <<c, a>> \in Courses \X Artifacts
    OBVIOUS
  <2>. QED
    BY <1>4, <2>1 DEF TouchLesson, Whole, Files
<1>5. ASSUME NEW c \in Courses, NEW a \in Artifacts, NEW text \in Texts, SaveLesson(c, a, text)
      PROVE  Typed
  <2>1. c \in Scopes /\ text \in Optional(Texts)
    BY DEF Scopes, Optional
  <2>. QED
    BY <1>5, <2>1 DEF SaveLesson, Whole, Files
<1>6. ASSUME NEW s \in Sessions, NEW c \in Courses, NEW l \in Lessons,
             NEW policy \in {"default", "disabled"}, NEW k \in Configs,
             SaveSession(s, c, l, policy, k)
      PROVE  Typed
  <2>1. files.course[c][l] \in Versions
    BY <1>6 DEF SaveSession, Files, Optional
  <2>2. [course |-> c, artifact |-> <<l, files.course[c][l]>>, policy |-> policy,
         messages |-> policy # "disabled", frozen |-> k] \in Optional(Documents)
    BY <2>1 DEF Documents, Artifacts, Optional
  <2>. QED
    BY <1>6, <2>2 DEF SaveSession, Whole, Files
<1>7. ASSUME NEW s \in Sessions, DeleteSession(s) \/ (\E k \in Configs : SaveConfig(s, k))
      PROVE  Typed
  <2>1. CASE DeleteSession(s)
    <3>1. files' = [files EXCEPT !.session[s] = None] /\ None \in Optional(Documents)
      BY <2>1 DEF DeleteSession, Optional
    <3>2. rest' \in Rests
      BY <2>1 DEF DeleteSession, Rests
    <3>. QED
      BY <3>1, <3>2 DEF Files
  <2>2. CASE \E k \in Configs : SaveConfig(s, k)
    <3>1. PICK k \in Configs : SaveConfig(s, k)
      BY <2>2
    <3>2. k \in Optional(Configs)
      BY DEF Optional
    <3>. QED
      BY <3>1, <3>2 DEF SaveConfig, Whole, Files
  <2>. QED
    BY <1>7, <2>1, <2>2
<1>8. ASSUME NEW s \in Sessions, \E text \in Texts : SaveLog(s, text)
      PROVE  Typed
  <2>1. PICK text \in Texts : SaveLog(s, text)
    BY <1>8
  <2>2. files.session[s] \in Documents
    BY <2>1 DEF SaveLog, Files, Optional
  <2>3. [course |-> files.session[s].course, artifact |-> files.session[s].artifact,
         available |-> TRUE, sha |-> text] \in Optional(Metadata)
    BY <2>2 DEF Documents, Metadata, Optional
  <2>4. files' = [files EXCEPT !.blob[s] = text] /\ text \in Optional(Texts)
    BY <2>1 DEF SaveLog, Optional
  <2>5. rest' \in Rests
    BY <2>1, <2>3 DEF SaveLog, Rests
  <2>. QED
    BY <2>4, <2>5 DEF Files
<1>9. ASSUME NEW s \in Sessions, DeleteLog(s) \/ ExpireLog(s)
      PROVE  Typed
  <2>1. files' = [files EXCEPT !.blob[s] = None] /\ None \in Optional(Texts)
    BY <1>9 DEF DeleteLog, ExpireLog, Optional
  <2>2. files' \in Files
    BY <2>1 DEF Files
  <2>3. files.meta[s] # None => [files.meta[s] EXCEPT !.available = FALSE] \in Metadata
    BY DEF Files, Optional, Metadata
  <2>4. PICK meta \in Optional(Metadata) : rest' = [name |-> "meta", session |-> s, meta |-> meta]
    BY <1>9, <2>3 DEF DeleteLog, ExpireLog, Files, Optional
  <2>5. rest' \in Rests
    BY <2>4 DEF Rests
  <2>. QED
    BY <2>2, <2>5
<1>10. CASE CopyLegacyLesson
  <2>1. rest.course \in Courses
    BY <1>10 DEF CopyLegacyLesson, Continue, Rests
  <2>2. PICK a \in MissingLessons :
            files' = [files EXCEPT !.lesson[rest.course][a] = files.lesson["_legacy"][a]]
    BY <1>10 DEF CopyLegacyLesson
  <2>3. /\ a \in Artifacts /\ "_legacy" \in Scopes /\ rest.course \in Scopes
    BY <2>1 DEF MissingLessons, Scopes, LegacyScopes
  <2>4. files.lesson["_legacy"][a] \in Optional(Texts)
    BY <2>3 DEF Files
  <2>5. files' \in Files
    BY <2>2, <2>3, <2>4 DEF Files
  <2>. QED
    BY <1>10, <2>5 DEF CopyLegacyLesson
<1>11. CASE WriteCourse
  <2>1. rest.course \in Courses /\ rest.bindings \in CourseRows
    BY <1>11 DEF WriteCourse, Continue, Rests
  <2>2. files' \in {files, [files EXCEPT !.course[rest.course] = rest.bindings]} /\ rest' = None
    BY <1>11 DEF WriteCourse
  <2>3. rest.bindings \in Optional([Lessons -> Optional(Versions)])
    BY <2>1 DEF Optional, CourseRows
  <2>4. [files EXCEPT !.course[rest.course] = rest.bindings] \in Files
    BY <2>1, <2>3 DEF Files
  <2>. QED
    BY <2>2, <2>4 DEF Rests
<1>12. CASE DeleteConfig
  <2>1. rest.session \in Sessions /\ None \in Optional(Configs)
    BY <1>12 DEF DeleteConfig, Continue, Rests, Optional
  <2>. QED
    BY <1>12, <2>1 DEF DeleteConfig, Files, Rests
<1>13. CASE WriteMetadata
  <2>1. rest.session \in Sessions /\ rest.meta \in Optional(Metadata)
    BY <1>13 DEF WriteMetadata, Continue, Rests
  <2>. QED
    BY <1>13, <2>1 DEF WriteMetadata, Files, Rests
<1>14. CASE StoreCrash
  BY <1>14 DEF StoreCrash, Rests
<1>. HIDE DEF Typed
<1>15. Typed
  <2>1. ASSUME NEW c \in Courses,
               \/ \E bindings \in [Lessons -> Optional(Versions)] : SaveCourse(c, bindings)
               \/ DeleteCourse(c) \/ TouchCourse(c)
               \/ \E s \in Optional(Sessions) : SaveAudit(c, s)
        PROVE  Typed
    BY <1>1, <1>2, <1>3, <2>1 DEF CourseRows
  <2>2. ASSUME NEW c \in Courses, NEW a \in Artifacts,
               TouchLesson(c, a) \/ \E text \in Texts : SaveLesson(c, a, text)
        PROVE  Typed
    BY <1>4, <1>5, <2>2
  <2>3. ASSUME NEW s \in Sessions,
               \/ DeleteSession(s) \/ DeleteLog(s) \/ ExpireLog(s)
               \/ \E text \in Texts : SaveLog(s, text)
               \/ \E k \in Configs : SaveConfig(s, k)
        PROVE  Typed
    BY <1>7, <1>8, <1>9, <2>3
  <2>4. ASSUME NEW c \in Courses, NEW s \in Sessions, NEW l \in Lessons,
               \E policy \in {"default", "disabled"}, k \in Configs : SaveSession(s, c, l, policy, k)
        PROVE  Typed
    BY <1>6, <2>4
  <2>5. CASE CopyLegacyLesson \/ WriteCourse \/ DeleteConfig \/ WriteMetadata \/ StoreCrash
    BY <1>10, <1>11, <1>12, <1>13, <1>14, <2>5 DEF Typed
  <2>. QED
    BY <2>1, <2>2, <2>3, <2>4, <2>5 DEF StoreNext
<1>. QED
  BY <1>15 DEF Typed

\* What is imported for a binding is what the old storage serves.
LEMMA ResolvedIsServed ==
    ASSUME files \in Files, LessonsResolve, NEW c \in Courses, NEW a \in Artifacts, Bound(c, a)
    PROVE  Resolved(c, a) \in Texts /\ Resolved(c, a) = ServedLesson(c, a)
<1>. DEFINE legacy == {x \in LegacyScopes : files.lesson[x][a] # None}
<1>1. Cardinality(Matches(c, a)) = 1
  BY DEF LessonsResolve, Bound
<1>2. \A x \in Scopes : files.lesson[x][a] \in Optional(Texts)
  BY DEF Files
<1>3. CASE files.lesson[c][a] # None
  <2>1. Matches(c, a) = {<<c, a>>}
    BY <1>3 DEF Matches
  <2>2. (CHOOSE d \in Matches(c, a) : TRUE) = <<c, a>>
    BY <2>1
  <2>3. Resolved(c, a) = files.lesson[<<c, a>>[1]][<<c, a>>[2]]
    BY <2>2, Zenon DEF Resolved
  <2>. QED
    BY <1>2, <1>3, <2>3 DEF ServedLesson, Scopes, Optional
<1>4. CASE files.lesson[c][a] = None
  <2>1. Matches(c, a) = {<<x, a>> : x \in legacy}
    BY <1>4 DEF Matches
  <2>2. IsFiniteSet({<<"lessons", a>>} \cup {<<"_legacy", a>>})
    BY FS_Singleton, FS_Union
  <2>3. Matches(c, a) \subseteq {<<"lessons", a>>} \cup {<<"_legacy", a>>}
    BY <2>1 DEF LegacyScopes
  <2>4. IsFiniteSet(Matches(c, a))
    BY <2>2, <2>3, FS_Subset
  <2>5. PICK d : Matches(c, a) = {d}
    BY <1>1, <2>4, FS_Singleton
  <2>6. PICK x \in legacy : d = <<x, a>>
    BY <2>1, <2>5
  <2>7. \A y \in legacy : y = x
    <3>1. \A y \in legacy : <<y, a>> = <<x, a>>
      BY <2>1, <2>5, <2>6
    <3>. QED
      BY <3>1
  <2>8. (CHOOSE e \in Matches(c, a) : TRUE) = <<x, a>>
    BY <2>5, <2>6
  <2>9. Resolved(c, a) = files.lesson[<<x, a>>[1]][<<x, a>>[2]]
    BY <2>8, Zenon DEF Resolved
  <2>10. files.lesson[x][a] \in Texts /\ x \in LegacyScopes
    BY <1>2 DEF Scopes, Optional
  <2>11. \A text \in Texts :
            (\E y \in LegacyScopes : files.lesson[y][a] = text) <=> text = files.lesson[x][a]
    BY <2>7, <2>10, StoreAssumption
  <2>12. (CHOOSE text \in Texts : \E y \in LegacyScopes : files.lesson[y][a] = text)
            = files.lesson[x][a]
    BY <2>10, <2>11
  <2>. QED
    BY <1>4, <2>9, <2>10, <2>12 DEF ServedLesson
<1>. QED
  BY <1>3, <1>4

---------------------------------------------------------------------------
(***************************************************************************)
(* The phases.                                                             *)
(***************************************************************************)
LEMMA PhaseNumbers ==
    ASSUME import.pc \in 0 .. 9
    PROVE  /\ InPhase("courses") <=> import.pc = 1
           /\ InPhase("lessons") <=> import.pc = 2
           /\ InPhase("bindings") <=> import.pc = 3
           /\ InPhase("sessions") <=> import.pc = 4
           /\ InPhase("logs") <=> import.pc = 5
           /\ InPhase("audits") <=> import.pc = 6
           /\ InPhase("course_states") <=> import.pc = 7
           /\ InPhase("lesson_states") <=> import.pc = 8
           /\ InPhase("verify") <=> import.pc = 9
<1>1. /\ Phases[1] = "courses" /\ Phases[2] = "lessons" /\ Phases[3] = "bindings"
      /\ Phases[4] = "sessions" /\ Phases[5] = "logs" /\ Phases[6] = "audits"
      /\ Phases[7] = "course_states" /\ Phases[8] = "lesson_states" /\ Phases[9] = "verify"
  BY DEF Phases
<1>2. import.pc \in {0, 1, 2, 3, 4, 5, 6, 7, 8, 9}
  OBVIOUS
<1>. QED
  BY <1>1, <1>2 DEF InPhase

LEMMA PhaseRecords ==
    /\ Records(Phases[1]) = KnownCourses /\ Records(Phases[2]) = Bindings
    /\ Records(Phases[3]) = KnownCourses /\ Records(Phases[4]) = KnownSessions
    /\ Records(Phases[5]) = Logs /\ Records(Phases[6]) = files.audits
    /\ Records(Phases[7]) = files.course_states /\ Records(Phases[8]) = files.lesson_states
    /\ Records(Phases[9]) = {} /\ Records("courses") = KnownCourses
    /\ Len(Phases) = 9
<1>1. /\ Phases[1] = "courses" /\ Phases[2] = "lessons" /\ Phases[3] = "bindings"
      /\ Phases[4] = "sessions" /\ Phases[5] = "logs" /\ Phases[6] = "audits"
      /\ Phases[7] = "course_states" /\ Phases[8] = "lesson_states" /\ Phases[9] = "verify"
      /\ Len(Phases) = 9
  BY DEF Phases
<1>. QED
  BY <1>1 DEF Records

\* A part of the target whose rows and whose pending records stay.
LEMMA PartsKept ==
    ASSUME files' = files
    PROVE  /\ /\ db'.course = db.course /\ CoursesWritten
              /\ Left(1, KnownCourses)' = Left(1, KnownCourses)
              /\ Left(3, KnownCourses)' = Left(3, KnownCourses)
              => CoursesWritten'
           /\ /\ db'.lesson = db.lesson /\ LessonsWritten
              /\ Left(2, Bindings)' = Left(2, Bindings)
              => LessonsWritten'
           /\ /\ db'.session = db.session /\ SessionsWritten
              /\ Left(4, KnownSessions)' = Left(4, KnownSessions)
              => SessionsWritten'
           /\ /\ db'.log = db.log /\ LogsWritten /\ Left(5, Logs)' = Left(5, Logs)
              => LogsWritten'
           /\ /\ db'.audits = db.audits /\ db'.course_states = db.course_states
              /\ db'.lesson_states = db.lesson_states /\ OthersWritten
              /\ Left(6, files.audits)' = Left(6, files.audits)
              /\ Left(7, files.course_states)' = Left(7, files.course_states)
              /\ Left(8, files.lesson_states)' = Left(8, files.lesson_states)
              => OthersWritten'
<1>1. ASSUME db'.course = db.course, CoursesWritten,
             Left(1, KnownCourses)' = Left(1, KnownCourses),
             Left(3, KnownCourses)' = Left(3, KnownCourses)
      PROVE  CoursesWritten'
  BY <1>1, SourceKept DEF CoursesWritten
<1>2. ASSUME db'.lesson = db.lesson, LessonsWritten, Left(2, Bindings)' = Left(2, Bindings)
      PROVE  LessonsWritten'
  BY <1>2, SourceKept DEF LessonsWritten
<1>3. ASSUME db'.session = db.session, SessionsWritten,
             Left(4, KnownSessions)' = Left(4, KnownSessions)
      PROVE  SessionsWritten'
  BY <1>3, SourceKept DEF SessionsWritten
<1>4. ASSUME db'.log = db.log, LogsWritten, Left(5, Logs)' = Left(5, Logs)
      PROVE  LogsWritten'
  BY <1>4, SourceKept DEF LogsWritten
<1>5. ASSUME db'.audits = db.audits, db'.course_states = db.course_states,
             db'.lesson_states = db.lesson_states, OthersWritten,
             Left(6, files.audits)' = Left(6, files.audits),
             Left(7, files.course_states)' = Left(7, files.course_states),
             Left(8, files.lesson_states)' = Left(8, files.lesson_states)
      PROVE  OthersWritten'
  BY <1>5 DEF OthersWritten
<1>. QED
  BY <1>1, <1>2, <1>3, <1>4, <1>5

\* Phase i has one record less to write; the other phases have what they had.
LEMMA OneWritten ==
    ASSUME ImporterTypes, import.pc # 0, files' = files, NEW r,
           import' = [import EXCEPT !.left = import.left \ {r}]
    PROVE  /\ ImporterTypes' /\ import'.pc = import.pc /\ import'.left = import.left \ {r}
           /\ import'.status = import.status
           /\ \A all : \A i \in 1 .. 8 : i # import.pc => Left(i, all)' = Left(i, all)
<1>1. /\ import'.pc = import.pc /\ import'.left = import.left \ {r}
      /\ import'.status = import.status /\ import'.session = import.session
      /\ import' = [pc |-> import'.pc, left |-> import'.left, status |-> import'.status,
                    session |-> import'.session]
  BY DEF ImporterTypes
<1>2. ImporterTypes'
  BY <1>1, SourceKept DEF ImporterTypes
<1>. QED
  BY <1>1, <1>2 DEF Left, ImporterTypes

---------------------------------------------------------------------------
(***************************************************************************)
(* Each phase writes its records, and no constraint refuses one.           *)
(***************************************************************************)
LEMMA RowIsSome ==
    \A r \in CourseRows \cup Documents \cup Metadata \cup SessionRows \cup LogRows \cup Texts :
        r # None
BY RowAssumption, StoreAssumption DEF CourseRows

\* A write of phase i commits, and shortens what the phase has left.
LEMMA WriteCommits ==
    ASSUME Types, NEW phase, NEW r, NEW possible \in BOOLEAN, NEW target, Write(phase, r, possible, target),
           possible
    PROVE  /\ files' = files /\ rest' = rest /\ db' = target
           /\ import.pc # 0 /\ r \in import.left
           /\ import'.pc = import.pc /\ import'.left = import.left \ {r}
           /\ import'.status = import.status /\ ImporterTypes'
           /\ \A all : \A i \in 1 .. 8 : i # import.pc => Left(i, all)' = Left(i, all)
<1>1. /\ files' = files /\ rest' = rest /\ db' = target /\ import.pc # 0 /\ r \in import.left
      /\ import' = [import EXCEPT !.left = import.left \ {r}]
  BY DEF Write, InPhase, storeVars
<1>. QED
  BY <1>1, OneWritten DEF Types

LEMMA CourseStep ==
    ASSUME Types, Running, NEW c \in Courses, ImportCourse(c)
    PROVE  Types' /\ Running' /\ import'.status = "running"
<1>. DEFINE row == [l \in Lessons |-> None]
            target == [db EXCEPT !.course[c] = row]
<1>1. import.pc = 1 /\ c \in import.left
  BY PhaseNumbers DEF ImportCourse, Write, Types, ImporterTypes
<1>2. AcceptSource /\ rest = None /\ Written
  BY <1>1 DEF Running
<1>3. /\ Left(1, KnownCourses) = import.left /\ Left(3, KnownCourses) = KnownCourses
      /\ c \in KnownCourses
  BY <1>1, <1>2 DEF Left, Written, CoursesWritten
<1>4. db.course[c] = None
  BY <1>1, <1>2, <1>3 DEF Written, CoursesWritten
<1>5. /\ files' = files /\ rest' = rest /\ db' = target
      /\ import'.pc = 1 /\ import'.left = import.left \ {c}
      /\ import'.status = import.status /\ ImporterTypes'
      /\ \A all : \A i \in 1 .. 8 : i # 1 => Left(i, all)' = Left(i, all)
  BY <1>1, <1>4, WriteCommits DEF ImportCourse
<1>6. /\ db'.course = [db.course EXCEPT ![c] = row]
      /\ db'.lesson = db.lesson /\ db'.session = db.session /\ db'.log = db.log
      /\ db'.audits = db.audits /\ db'.course_states = db.course_states
      /\ db'.lesson_states = db.lesson_states
  BY <1>5 DEF Types, Targets
<1>7. db' \in Targets
  BY <1>5 DEF Types, Targets, CourseRows, Optional
<1>8. CoursesWritten'
  BY <1>2, <1>3, <1>5, <1>6, SourceKept DEF Written, CoursesWritten, Left, Types, Targets
<1>9. Written'
  BY <1>2, <1>5, <1>6, <1>8, PartsKept, SourceKept DEF Written
<1>. QED
  BY <1>1, <1>2, <1>5, <1>7, <1>9, SourceKept DEF Types, Running, ImporterTypes

LEMMA LessonStep ==
    ASSUME Types, Running, NEW c \in Courses, NEW a \in Artifacts, ImportLesson(c, a)
    PROVE  Types' /\ Running' /\ import'.status = "running"
<1>. DEFINE target == [db EXCEPT !.lesson[c][a] = Resolved(c, a)]
<1>1. import.pc = 2 /\ <<c, a>> \in import.left
  BY PhaseNumbers DEF ImportLesson, Write, Types, ImporterTypes
<1>2. AcceptSource /\ rest = None /\ Written
  BY <1>1 DEF Running
<1>3. /\ Left(1, KnownCourses) = {} /\ Left(2, Bindings) = import.left
      /\ Left(3, KnownCourses) = KnownCourses /\ <<c, a>> \in Bindings
  BY <1>1, <1>2 DEF Left, Written, LessonsWritten
<1>4. Bound(c, a) /\ c \in KnownCourses
  BY <1>3 DEF Bindings, Bound
<1>5. db.course[c] # None
  <2>1. db.course[c] = [l \in Lessons |-> None]
    BY <1>2, <1>3, <1>4 DEF Written, CoursesWritten
  <2>2. [l \in Lessons |-> None] \in CourseRows
    BY DEF CourseRows, Optional
  <2>. QED
    BY <2>1, <2>2, RowIsSome
<1>6. Resolved(c, a) \in Optional(Texts)
  BY <1>2, <1>4, ResolvedIsServed DEF AcceptSource, Types, Optional
<1>7. /\ files' = files /\ rest' = rest /\ db' = target
      /\ import'.pc = 2 /\ import'.left = import.left \ {<<c, a>>}
      /\ import'.status = import.status /\ ImporterTypes'
      /\ \A all : \A i \in 1 .. 8 : i # 2 => Left(i, all)' = Left(i, all)
  BY <1>1, <1>5, WriteCommits DEF ImportLesson
<1>8. /\ db'.lesson = [db.lesson EXCEPT ![c][a] = Resolved(c, a)]
      /\ db'.course = db.course /\ db'.session = db.session /\ db'.log = db.log
      /\ db'.audits = db.audits /\ db'.course_states = db.course_states
      /\ db'.lesson_states = db.lesson_states
  BY <1>7 DEF Types, Targets
<1>9. db' \in Targets
  BY <1>6, <1>7 DEF Types, Targets
<1>10. LessonsWritten'
  BY <1>2, <1>3, <1>4, <1>7, <1>8, SourceKept DEF Written, LessonsWritten, Left, Types, Targets
<1>11. Written'
  BY <1>2, <1>7, <1>8, <1>10, PartsKept, SourceKept DEF Written
<1>. QED
  BY <1>1, <1>2, <1>7, <1>9, <1>11, SourceKept DEF Types, Running, ImporterTypes

LEMMA BindingsStep ==
    ASSUME Types, Running, NEW c \in Courses, ImportBindings(c)
    PROVE  Types' /\ Running' /\ import'.status = "running"
<1>. DEFINE target == [db EXCEPT !.course[c] = files.course[c]]
            possible == \A a \in Artifacts : Bound(c, a) => db.lesson[c][a] # None
<1>1. import.pc = 3 /\ c \in import.left
  BY PhaseNumbers DEF ImportBindings, Write, Types, ImporterTypes
<1>2. AcceptSource /\ rest = None /\ Written
  BY <1>1 DEF Running
<1>3. /\ Left(1, KnownCourses) = {} /\ Left(2, Bindings) = {}
      /\ Left(3, KnownCourses) = import.left /\ c \in KnownCourses
  BY <1>1, <1>2 DEF Left, Written, CoursesWritten
<1>4. possible
  <2>. SUFFICES ASSUME NEW a \in Artifacts, Bound(c, a)
                PROVE  db.lesson[c][a] # None
    OBVIOUS
  <2>1. db.lesson[c][a] = Resolved(c, a)
    BY <1>2, <1>3 DEF Written, LessonsWritten
  <2>2. Resolved(c, a) \in Texts
    BY <1>2, ResolvedIsServed DEF AcceptSource, Types
  <2>. QED
    BY <2>1, <2>2, RowIsSome
<1>5. Write("bindings", c, possible, target)
  BY DEF ImportBindings
<1>. HIDE DEF possible
<1>7. /\ files' = files /\ rest' = rest /\ db' = target
      /\ import'.pc = 3 /\ import'.left = import.left \ {c}
      /\ import'.status = import.status /\ ImporterTypes'
      /\ \A all : \A i \in 1 .. 8 : i # 3 => Left(i, all)' = Left(i, all)
  <2>. HIDE DEF target
  <2>1. /\ files' = files /\ rest' = rest /\ db' = target
        /\ import' = [import EXCEPT !.left = import.left \ {c}]
    BY <1>4, <1>5 DEF Write, storeVars
  <2>. QED
    BY <1>1, <2>1, OneWritten DEF Types
<1>8. /\ db'.course = [db.course EXCEPT ![c] = files.course[c]]
      /\ db'.lesson = db.lesson /\ db'.session = db.session /\ db'.log = db.log
      /\ db'.audits = db.audits /\ db'.course_states = db.course_states
      /\ db'.lesson_states = db.lesson_states
  BY <1>7 DEF Types, Targets
<1>9. files.course[c] \in Optional(CourseRows)
  BY DEF Types, Files, CourseRows
<1>10. db' \in Targets
  BY <1>7, <1>9 DEF Types, Targets
<1>11. CoursesWritten'
  BY <1>2, <1>3, <1>7, <1>8, SourceKept DEF Written, CoursesWritten, Left, Types, Targets
<1>12. Written'
  BY <1>2, <1>7, <1>8, <1>11, PartsKept, SourceKept DEF Written
<1>. QED
  BY <1>1, <1>2, <1>7, <1>10, <1>12, SourceKept DEF Types, Running, ImporterTypes

LEMMA LogStep ==
    ASSUME Types, Running, NEW s \in Sessions, ImportLog(s)
    PROVE  Types' /\ Running' /\ import'.status = "running"
<1>. DEFINE target == [db EXCEPT !.log[s] = Copy(s)]
<1>1. import.pc = 5 /\ s \in import.left
  BY PhaseNumbers DEF ImportLog, Write, Types, ImporterTypes
<1>2. AcceptSource /\ rest = None /\ Written
  BY <1>1 DEF Running
<1>3. Left(5, Logs) = import.left /\ s \in Logs
  BY <1>1, <1>2 DEF Left, Written, LogsWritten
<1>4. db.log[s] = None
  BY <1>1, <1>2, <1>3 DEF Written, LogsWritten
<1>5. /\ files' = files /\ rest' = rest /\ db' = target
      /\ import'.pc = 5 /\ import'.left = import.left \ {s}
      /\ import'.status = import.status /\ ImporterTypes'
      /\ \A all : \A i \in 1 .. 8 : i # 5 => Left(i, all)' = Left(i, all)
  BY <1>1, <1>4, WriteCommits DEF ImportLog, Copy
<1>6. /\ db'.log = [db.log EXCEPT ![s] = Copy(s)]
      /\ db'.course = db.course /\ db'.lesson = db.lesson /\ db'.session = db.session
      /\ db'.audits = db.audits /\ db'.course_states = db.course_states
      /\ db'.lesson_states = db.lesson_states
  BY <1>5 DEF Types, Targets
<1>7. Copy(s) \in Optional(LogRows)
  BY <1>3 DEF Copy, Logs, Types, Files, LogRows, Optional
<1>8. db' \in Targets
  BY <1>5, <1>7 DEF Types, Targets
<1>9. LogsWritten'
  BY <1>2, <1>3, <1>5, <1>6, SourceKept DEF Written, LogsWritten, Left, Types, Targets
<1>10. Written'
  BY <1>2, <1>5, <1>6, <1>9, PartsKept, SourceKept DEF Written
<1>. QED
  BY <1>1, <1>2, <1>5, <1>8, <1>10, SourceKept DEF Types, Running, ImporterTypes

LEMMA AuditStep ==
    ASSUME Types, Running, NEW audit \in files.audits, ImportAudit(audit)
    PROVE  Types' /\ Running' /\ import'.status = "running"
<1>. DEFINE target == [db EXCEPT !.audits = db.audits \cup {audit}]
<1>1. import.pc = 6 /\ audit \in import.left
  BY PhaseNumbers DEF ImportAudit, Write, Types, ImporterTypes
<1>2. AcceptSource /\ rest = None /\ Written
  BY <1>1 DEF Running
<1>3. Left(6, files.audits) = import.left /\ db.audits = files.audits \ import.left
  BY <1>1, <1>2 DEF Left, Written, OthersWritten
<1>4. /\ files' = files /\ rest' = rest /\ db' = target
      /\ import'.pc = 6 /\ import'.left = import.left \ {audit}
      /\ import'.status = import.status /\ ImporterTypes'
      /\ \A all : \A i \in 1 .. 8 : i # 6 => Left(i, all)' = Left(i, all)
  BY <1>1, <1>3, WriteCommits DEF ImportAudit
<1>5. /\ db'.audits = db.audits \cup {audit}
      /\ db'.course = db.course /\ db'.lesson = db.lesson /\ db'.session = db.session
      /\ db'.log = db.log /\ db'.course_states = db.course_states
      /\ db'.lesson_states = db.lesson_states
  BY <1>4 DEF Types, Targets
<1>6. audit \in Courses \X Optional(Sessions)
  BY DEF Types, Files
<1>7. db' \in Targets
  BY <1>4, <1>6 DEF Types, Targets
<1>8. OthersWritten'
  <2>1. /\ Left(7, files.course_states)' = Left(7, files.course_states)
        /\ Left(8, files.lesson_states)' = Left(8, files.lesson_states)
    BY <1>4
  <2>2. Left(6, files.audits)' = import.left \ {audit}
    BY <1>4 DEF Left
  <2>3. db'.audits = files.audits \ (import.left \ {audit})
    <3>1. audit \in files.audits
      OBVIOUS
    <3>. QED
      BY <1>1, <1>3, <1>5, <3>1
  <2>. QED
    BY <1>2, <1>4, <1>5, <2>1, <2>2, <2>3 DEF Written, OthersWritten
<1>9. Written'
  BY <1>2, <1>4, <1>5, <1>8, PartsKept, SourceKept DEF Written
<1>. QED
  BY <1>1, <1>2, <1>4, <1>7, <1>9, SourceKept DEF Types, Running, ImporterTypes

LEMMA SessionStep ==
    ASSUME Types, Running, NEW s \in Sessions, ImportSession(s)
    PROVE  Types' /\ Running' /\ import'.status = "running"
<1>. DEFINE source == files.session[s]
            kept == source.messages /\ source.policy # "disabled"
            row == [document |-> [source EXCEPT !.messages = kept], updated_at |-> "source"]
            possible == /\ db.course[source.course] # None
                        /\ db.lesson[source.course][source.artifact] # None
                        /\ db.course[source.course][source.artifact[1]] = source.artifact[2]
<1>1. import.pc = 4 /\ s \in import.left /\ import.session = None
  BY PhaseNumbers DEF ImportSession, Types, ImporterTypes
<1>2. AcceptSource /\ rest = None /\ Written
  BY <1>1 DEF Running
<1>3. /\ Left(1, KnownCourses) = {} /\ Left(2, Bindings) = {} /\ Left(3, KnownCourses) = {}
      /\ Left(4, KnownSessions) = import.left /\ s \in KnownSessions
  BY <1>1, <1>2 DEF Left, Written, SessionsWritten
<1>4. source \in Documents
  BY <1>3 DEF KnownSessions, Types, Files, Optional
<1>5. /\ Bound(source.course, source.artifact) /\ source.course \in KnownCourses
      /\ source.course \in Courses /\ source.artifact \in Artifacts
      /\ files.course[source.course][source.artifact[1]] = source.artifact[2]
  <2>1. <<source.course, source.artifact>> \in Bindings
    BY <1>2, <1>3 DEF AcceptSource, SessionsBound, Bound
  <2>. QED
    BY <1>4, <2>1 DEF Bindings, Bound, Documents
<1>6. possible
  <2>1. db.course[source.course] = files.course[source.course]
    BY <1>2, <1>3, <1>5 DEF Written, CoursesWritten
  <2>2. db.lesson[source.course][source.artifact] = Resolved(source.course, source.artifact)
    BY <1>2, <1>3, <1>5 DEF Written, LessonsWritten
  <2>3. Resolved(source.course, source.artifact) \in Texts
    BY <1>2, <1>5, ResolvedIsServed DEF AcceptSource, Types
  <2>. QED
    BY <1>5, <2>1, <2>2, <2>3, RowIsSome DEF KnownCourses
<1>7. row \in SessionRows
  <2>1. kept \in BOOLEAN
    OBVIOUS
  <2>. HIDE DEF kept
  <2>. QED
    BY <1>4, <2>1 DEF Documents, SessionRows
<1>8. NoLateConfigs => row = Expected(s)
  <2>. SUFFICES ASSUME NoLateConfigs
                PROVE  row = Expected(s)
    OBVIOUS
  <2>1. SourceConfig(s) = source.frozen
    BY <1>2 DEF SourceConfig, NoLateConfigs, AcceptSource, ConfigsAgree
  <2>2. Expected(s) = [document |-> [source EXCEPT !.messages = kept, !.frozen = source.frozen],
                       updated_at |-> "source"]
    BY <2>1 DEF Expected
  <2>. HIDE DEF kept
  <2>3. [source EXCEPT !.messages = kept, !.frozen = source.frozen]
            = [source EXCEPT !.messages = kept]
    BY <1>4 DEF Documents
  <2>. QED
    BY <2>2, <2>3
<1>9. /\ files' = files /\ rest' = rest
      /\ db' = [db EXCEPT !.session[s] = row]
      /\ import' = [import EXCEPT !.left = import.left \ {s}, !.session = s]
  BY <1>6 DEF ImportSession, storeVars
<1>. HIDE DEF row, possible
<1>10. /\ import'.pc = 4 /\ import'.left = import.left \ {s}
       /\ import'.status = import.status /\ import'.session = s
       /\ import' = [pc |-> import'.pc, left |-> import'.left, status |-> import'.status,
                     session |-> import'.session]
  BY <1>1, <1>9 DEF Types, ImporterTypes
<1>11. ImporterTypes'
  BY <1>1, <1>3, <1>9, <1>10, SourceKept DEF ImporterTypes, Types
<1>12. \A all : \A i \in 1 .. 8 : i # 4 => Left(i, all)' = Left(i, all)
  BY <1>1, <1>10 DEF Left
<1>13. /\ db'.session = [db.session EXCEPT ![s] = row]
       /\ db'.course = db.course /\ db'.lesson = db.lesson /\ db'.log = db.log
       /\ db'.audits = db.audits /\ db'.course_states = db.course_states
       /\ db'.lesson_states = db.lesson_states
  BY <1>9 DEF Types, Targets
<1>14. db' \in Targets
  BY <1>7, <1>9 DEF Types, Targets, Optional
<1>15. SessionsWritten'
  <2>1. row # None
    BY <1>7, RowIsSome
  <2>2. Left(4, KnownSessions)' = Left(4, KnownSessions) \ {s}
    BY <1>1, <1>3, <1>10 DEF Left
  <2>. QED
    BY <1>2, <1>3, <1>8, <1>9, <1>13, <2>1, <2>2, SourceKept
       DEF Written, SessionsWritten, Types, Targets
<1>16. Written'
  BY <1>2, <1>9, <1>12, <1>13, <1>15, PartsKept, SourceKept DEF Written
<1>. QED
  BY <1>1, <1>2, <1>9, <1>10, <1>11, <1>14, <1>16, SourceKept DEF Types, Running, ImporterTypes

LEMMA ConfigStep ==
    ASSUME Types, Running, NEW s \in Sessions, ImportConfig(s)
    PROVE  Types' /\ Running' /\ import'.status = "running"
<1>. DEFINE row == db.session[s]
            changed == [row EXCEPT !.document.frozen = SourceConfig(s), !.updated_at = "now"]
<1>1. import.session = s /\ s # None
  BY StoreAssumption DEF ImportConfig
<1>2. import.pc = 4 /\ s \in KnownSessions /\ s \notin import.left
  BY <1>1 DEF Types, ImporterTypes
<1>3. AcceptSource /\ rest = None /\ Written
  BY <1>2 DEF Running
<1>4. Left(4, KnownSessions) = import.left
  BY <1>2 DEF Left
<1>5. row # None /\ (NoLateConfigs => row = Expected(s))
  BY <1>2, <1>3, <1>4 DEF Written, SessionsWritten
<1>6. row \in SessionRows /\ SourceConfig(s) \in Optional(Configs)
  <2>1. files.session[s] \in Documents
    BY <1>2 DEF KnownSessions, Types, Files, Optional
  <2>. QED
    BY <1>5, <2>1 DEF Types, Targets, Files, SourceConfig, Optional, Documents
<1>7. /\ files' = files /\ rest' = rest /\ import' = [import EXCEPT !.session = None]
      /\ db' = IF SourceConfig(s) \in {None, row.document.frozen} THEN db
               ELSE [db EXCEPT !.session[s].document.frozen = SourceConfig(s),
                               !.session[s].updated_at = "now"]
  BY DEF ImportConfig, storeVars
<1>8. /\ import'.pc = 4 /\ import'.left = import.left
      /\ import'.status = import.status /\ import'.session = None
      /\ import' = [pc |-> import'.pc, left |-> import'.left, status |-> import'.status,
                    session |-> import'.session]
  BY <1>2, <1>7 DEF Types, ImporterTypes
<1>9. ImporterTypes'
  BY <1>2, <1>8 DEF ImporterTypes, Types
<1>10. \A all : \A i \in 1 .. 8 : Left(i, all)' = Left(i, all)
  BY <1>2, <1>8 DEF Left
<1>11. changed \in SessionRows
  BY <1>6 DEF SessionRows, Documents, Optional
<1>12. NoLateConfigs => db' = db
  <2>1. row = Expected(s) => row.document.frozen = SourceConfig(s)
    <3>. DEFINE kept == files.session[s].messages /\ files.session[s].policy # "disabled"
    <3>1. Expected(s) = [document |-> [files.session[s] EXCEPT !.messages = kept,
                                                               !.frozen = SourceConfig(s)],
                         updated_at |-> "source"]
      BY DEF Expected
    <3>2. files.session[s] \in Documents
      BY <1>2 DEF KnownSessions, Types, Files, Optional
    <3>. HIDE DEF kept, row
    <3>. DEFINE source == files.session[s]
                document == [source EXCEPT !.messages = kept, !.frozen = SourceConfig(s)]
    <3>3. Expected(s).document = document
      BY <3>1
    <3>. HIDE DEF source
    <3>4. document.frozen = SourceConfig(s)
      BY <3>2 DEF Documents, source
    <3>. HIDE DEF document
    <3>. QED
      BY <3>3, <3>4
  <2>. QED
    BY <1>5, <1>7, <2>1
<1>13. CASE db' = db
  <2>. HIDE DEF row, changed
  <2>1. files' = files /\ KnownCourses' = KnownCourses /\ KnownSessions' = KnownSessions
        /\ Bindings' = Bindings /\ Logs' = Logs
    BY <1>7, SourceKept
  <2>2. /\ Left(1, KnownCourses)' = Left(1, KnownCourses)
        /\ Left(2, Bindings)' = Left(2, Bindings)
        /\ Left(3, KnownCourses)' = Left(3, KnownCourses)
        /\ Left(4, KnownSessions)' = Left(4, KnownSessions)
        /\ Left(5, Logs)' = Left(5, Logs)
        /\ Left(6, files.audits)' = Left(6, files.audits)
        /\ Left(7, files.course_states)' = Left(7, files.course_states)
        /\ Left(8, files.lesson_states)' = Left(8, files.lesson_states)
    BY <1>10, <2>1
  <2>3. Written'
    BY <1>3, <1>13, <2>1, <2>2, PartsKept DEF Written
  <2>. QED
    BY <1>2, <1>3, <1>7, <1>8, <1>9, <1>13, <2>3, SourceKept DEF Types, Running, ImporterTypes
<1>14. CASE db' # db
  <2>1. ~NoLateConfigs /\ db' = [db EXCEPT !.session[s] = changed]
    BY <1>7, <1>12, <1>14 DEF Types, Targets
  <2>. HIDE DEF changed, row
  <2>2. /\ db'.session = [db.session EXCEPT ![s] = changed]
        /\ db'.course = db.course /\ db'.lesson = db.lesson /\ db'.log = db.log
        /\ db'.audits = db.audits /\ db'.course_states = db.course_states
        /\ db'.lesson_states = db.lesson_states
    BY <2>1 DEF Types, Targets
  <2>3. db' \in Targets
    BY <1>11, <2>1 DEF Types, Targets, Optional
  <2>4. SessionsWritten'
    <3>1. changed # None
      BY <1>11, RowIsSome
    <3>2. Left(4, KnownSessions)' = Left(4, KnownSessions)
      BY <1>7, <1>10, SourceKept
    <3>. QED
      BY SMTT(30), <1>2, <1>3, <1>4, <1>7, <2>1, <2>2, <3>1, <3>2, SourceKept
         DEF Written, SessionsWritten, Types, Targets
  <2>5. Written'
    BY <1>3, <1>7, <1>10, <2>2, <2>4, PartsKept, SourceKept DEF Written
  <2>. QED
    BY <1>2, <1>3, <1>7, <1>8, <1>9, <2>3, <2>5, SourceKept DEF Types, Running, ImporterTypes
<1>. QED
  BY <1>13, <1>14

LEMMA CourseStateStep ==
    ASSUME Types, Running, NEW c \in Courses, ImportCourseState(c)
    PROVE  Types' /\ Running' /\ import'.status = "running"
<1>. DEFINE target == [db EXCEPT !.course_states = db.course_states \cup {c}]
<1>1. import.pc = 7 /\ c \in import.left
  BY PhaseNumbers DEF ImportCourseState, Write, Types, ImporterTypes
<1>2. AcceptSource /\ rest = None /\ Written
  BY <1>1 DEF Running
<1>3. /\ Left(1, KnownCourses) = {} /\ Left(3, KnownCourses) = {}
      /\ Left(7, files.course_states) = import.left /\ c \in files.course_states
      /\ db.course_states = files.course_states \ import.left
  BY <1>1, <1>2 DEF Left, Written, OthersWritten
<1>4. db.course[c] # None
  <2>1. c \in KnownCourses
    BY <1>2, <1>3 DEF AcceptSource, StatesKnown
  <2>. QED
    BY <1>2, <1>3, <2>1 DEF Written, CoursesWritten, KnownCourses
<1>5. /\ files' = files /\ rest' = rest /\ db' = target
      /\ import'.pc = 7 /\ import'.left = import.left \ {c}
      /\ import'.status = import.status /\ ImporterTypes'
      /\ \A all : \A i \in 1 .. 8 : i # 7 => Left(i, all)' = Left(i, all)
  BY <1>1, <1>4, WriteCommits DEF ImportCourseState
<1>6. /\ db'.course_states = db.course_states \cup {c}
      /\ db'.course = db.course /\ db'.lesson = db.lesson /\ db'.session = db.session
      /\ db'.log = db.log /\ db'.audits = db.audits
      /\ db'.lesson_states = db.lesson_states
  BY <1>5 DEF Types, Targets
<1>7. db' \in Targets
  BY <1>5 DEF Types, Targets
<1>8. OthersWritten'
  <2>1. Left(7, files.course_states)' = import.left \ {c}
    BY <1>5 DEF Left
  <2>2. db'.course_states = files.course_states \ (import.left \ {c})
    BY <1>3, <1>6
  <2>3. import.left \ {c} \subseteq files.course_states
    BY <1>2, <1>3 DEF Written, OthersWritten
  <2>. QED
    BY <1>2, <1>5, <1>6, <2>1, <2>2, <2>3 DEF Written, OthersWritten
<1>9. Written'
  BY <1>2, <1>5, <1>6, <1>8, PartsKept, SourceKept DEF Written
<1>. QED
  BY <1>1, <1>2, <1>5, <1>7, <1>9, SourceKept DEF Types, Running, ImporterTypes

LEMMA LessonStateStep ==
    ASSUME Types, Running, NEW c \in Courses, NEW a \in Artifacts, ImportLessonState(c, a)
    PROVE  Types' /\ Running' /\ import'.status = "running"
<1>. DEFINE state == <<c, a>>
            target == [db EXCEPT !.lesson_states = db.lesson_states \cup {state}]
<1>1. import.pc = 8 /\ state \in import.left
  BY PhaseNumbers DEF ImportLessonState, Write, Types, ImporterTypes
<1>2. AcceptSource /\ rest = None /\ Written
  BY <1>1 DEF Running
<1>3. /\ Left(1, KnownCourses) = {} /\ Left(2, Bindings) = {} /\ Left(3, KnownCourses) = {}
      /\ Left(8, files.lesson_states) = import.left /\ state \in files.lesson_states
      /\ db.lesson_states = files.lesson_states \ import.left
  BY <1>1, <1>2 DEF Left, Written, OthersWritten
<1>4. db.course[c] # None /\ db.lesson[c][a] # None
  <2>1. state \in Bindings
    BY <1>2, <1>3 DEF AcceptSource, StatesKnown
  <2>2. c \in KnownCourses /\ Bound(c, a)
    BY <2>1 DEF Bindings, Bound
  <2>3. Resolved(c, a) # None
    BY <1>2, <2>2, ResolvedIsServed, RowIsSome DEF AcceptSource, Types
  <2>4. db.course[c] # None
    BY <1>2, <1>3, <2>2 DEF Written, CoursesWritten, KnownCourses
  <2>5. db.lesson[c][a] = Resolved(c, a)
    BY <1>2, <1>3, <2>2 DEF Written, LessonsWritten
  <2>. QED
    BY <2>3, <2>4, <2>5
<1>5. /\ files' = files /\ rest' = rest /\ db' = target
      /\ import' = [import EXCEPT !.left = import.left \ {state}]
  BY <1>4 DEF ImportLessonState, Write, storeVars
<1>6. /\ import'.pc = 8 /\ import'.left = import.left \ {state}
      /\ import'.status = import.status /\ ImporterTypes'
      /\ \A all : \A i \in 1 .. 8 : i # 8 => Left(i, all)' = Left(i, all)
  BY <1>1, <1>5, OneWritten DEF Types
<1>7. /\ db'.lesson_states = db.lesson_states \cup {state}
      /\ db'.course = db.course /\ db'.lesson = db.lesson /\ db'.session = db.session
      /\ db'.log = db.log /\ db'.audits = db.audits
      /\ db'.course_states = db.course_states
  BY <1>5 DEF Types, Targets
<1>8. db' \in Targets
  <2>1. state \in Courses \X Artifacts
    OBVIOUS
  <2>. HIDE DEF state
  <2>. QED
    BY <1>5, <2>1 DEF Types, Targets
<1>. HIDE DEF state
<1>9. OthersWritten'
  BY <1>2, <1>3, <1>5, <1>6, <1>7 DEF Written, OthersWritten, Left
<1>10. Written'
  BY <1>2, <1>5, <1>6, <1>7, <1>9, PartsKept, SourceKept DEF Written
<1>. QED
  BY <1>1, <1>2, <1>5, <1>6, <1>8, <1>10, SourceKept DEF Types, Running, ImporterTypes

LEMMA PhaseStep ==
    ASSUME Types, Running, NextPhase
    PROVE  Types' /\ Running' /\ import'.status = "running"
<1>1. /\ import.pc \in 1 .. 8 /\ import.left = {} /\ import.session = None
      /\ import' = [import EXCEPT !.pc = import.pc + 1, !.left = Records(Phases[import.pc + 1])]
      /\ files' = files /\ rest' = rest /\ db' = db
  BY PhaseRecords DEF NextPhase, storeVars
<1>2. AcceptSource /\ rest = None /\ Written
  BY <1>1 DEF Running
<1>3. /\ import'.pc = import.pc + 1 /\ import'.left = Records(Phases[import.pc + 1])
      /\ import'.status = import.status /\ import'.session = None
      /\ import' = [pc |-> import'.pc, left |-> import'.left, status |-> import'.status,
                    session |-> import'.session]
  BY <1>1 DEF Types, ImporterTypes
<1>4. ImporterTypes'
  BY <1>1, <1>3 DEF Types, ImporterTypes
<1>5. /\ KnownCourses' = KnownCourses /\ KnownSessions' = KnownSessions
      /\ Bindings' = Bindings /\ Logs' = Logs
  BY <1>1, SourceKept
<1>6. /\ Left(1, KnownCourses)' = Left(1, KnownCourses)
      /\ Left(2, Bindings)' = Left(2, Bindings)
      /\ Left(3, KnownCourses)' = Left(3, KnownCourses)
      /\ Left(4, KnownSessions)' = Left(4, KnownSessions)
      /\ Left(5, Logs)' = Left(5, Logs)
      /\ Left(6, files.audits)' = Left(6, files.audits)
      /\ Left(7, files.course_states)' = Left(7, files.course_states)
      /\ Left(8, files.lesson_states)' = Left(8, files.lesson_states)
  <2>1. import.pc \in {1, 2, 3, 4, 5, 6, 7, 8}
    BY <1>1
  <2>2. /\ import.pc = 1 => import'.left = Bindings
        /\ import.pc = 2 => import'.left = KnownCourses
        /\ import.pc = 3 => import'.left = KnownSessions
        /\ import.pc = 4 => import'.left = Logs
        /\ import.pc = 5 => import'.left = files.audits
        /\ import.pc = 6 => import'.left = files.course_states
        /\ import.pc = 7 => import'.left = files.lesson_states
    BY <1>3, PhaseRecords
  <2>. QED
    BY <1>1, <1>3, <1>5, <2>1, <2>2 DEF Left
<1>7. Written'
  BY <1>1, <1>2, <1>5, <1>6, PartsKept DEF Written
<1>. QED
  BY <1>1, <1>2, <1>3, <1>4, <1>7, SourceKept DEF Types, Running, ImporterTypes

---------------------------------------------------------------------------
(***************************************************************************)
(* The preflight and the comparison.                                       *)
(***************************************************************************)
LEMMA IdleImporter ==
    ASSUME NEW status \in {"none", "validated", "refused", "error", "crashed", "unverified",
                           "imported"},
           import' = Idle(status)
    PROVE  ImporterTypes' /\ import'.pc = 0 /\ import'.status = status
BY DEF Idle, ImporterTypes

LEMMA EmptyTargetType == EmptyTarget \in Targets
BY DEF EmptyTarget, Targets, Optional

LEMMA StartStep ==
    ASSUME Types, NEW dry_run \in BOOLEAN, StartImport(dry_run)
    PROVE  Types' /\ Running' /\ import'.status \in {"refused", "validated", "running"}
<1>1. files' = files /\ rest' = None /\ rest = None /\ db' = db
  BY DEF StartImport, storeVars
<1>2. CASE import' \in {Idle("refused"), Idle("validated")}
  BY <1>1, <1>2, IdleImporter DEF Types, Running
<1>3. CASE import' \notin {Idle("refused"), Idle("validated")}
  <2>1. /\ AcceptSource /\ db = EmptyTarget
        /\ import' = [pc |-> 1, left |-> KnownCourses, status |-> "running", session |-> None]
    BY <1>3, PhaseRecords DEF StartImport, AcceptTarget
  <2>2. ImporterTypes' /\ import'.pc = 1 /\ import'.left = KnownCourses
    BY <2>1 DEF ImporterTypes
  <2>3. /\ KnownCourses' = KnownCourses /\ KnownSessions' = KnownSessions
        /\ Bindings' = Bindings /\ Logs' = Logs /\ (AcceptSource' <=> AcceptSource)
    BY <1>1, SourceKept
  <2>4. /\ Left(1, KnownCourses)' = KnownCourses
        /\ \A all : \A i \in 2 .. 8 : Left(i, all)' = all
    BY <2>2, <2>3 DEF Left
  <2>5. /\ \A c \in Courses : /\ db.course[c] = None
                              /\ \A a \in Artifacts : db.lesson[c][a] = None
        /\ \A s \in Sessions : db.session[s] = None /\ db.log[s] = None
        /\ db.audits = {} /\ db.course_states = {} /\ db.lesson_states = {}
    BY <2>1 DEF EmptyTarget
  <2>6. CoursesWritten'
    BY <1>1, <2>3, <2>4, <2>5 DEF CoursesWritten
  <2>7. LessonsWritten'
    <3>1. \A c \in Courses, a \in Artifacts : Bound(c, a)' => <<c, a>> \in Bindings
      BY <2>3 DEF Bound
    <3>2. Left(2, Bindings)' = Bindings
      BY <2>3, <2>4
    <3>. QED
      BY <1>1, <2>3, <2>5, <3>1, <3>2 DEF LessonsWritten
  <2>8. SessionsWritten' /\ LogsWritten'
    <3>1. Left(4, KnownSessions)' = KnownSessions /\ Left(5, Logs)' = Logs
      BY <2>3, <2>4
    <3>. QED
      BY <1>1, <2>3, <2>5, <3>1 DEF SessionsWritten, LogsWritten
  <2>9. OthersWritten'
    <3>1. /\ Left(6, files.audits)' = files.audits
          /\ Left(7, files.course_states)' = files.course_states
          /\ Left(8, files.lesson_states)' = files.lesson_states
      BY <1>1, <2>4
    <3>. QED
      BY <1>1, <2>5, <3>1 DEF OthersWritten
  <2>. QED
    BY <1>1, <2>1, <2>2, <2>3, <2>6, <2>7, <2>8, <2>9 DEF Types, Running, Written
<1>. QED
  BY <1>2, <1>3

\* When the last phase is over the target is the source, but for the sessions
\* whose config came late.
LEMMA AllWritten ==
    ASSUME Types, Running, import.pc = 9
    PROVE  /\ AcceptSource
           /\ \A c \in Courses :
                /\ db.course[c] = files.course[c]
                /\ \A a \in Artifacts :
                    db.lesson[c][a] = IF Bound(c, a) THEN Resolved(c, a) ELSE None
           /\ \A s \in Sessions :
                /\ db.session[s] # None <=> s \in KnownSessions
                /\ s \in KnownSessions /\ NoLateConfigs => db.session[s] = Expected(s)
                /\ db.log[s] = IF s \in Logs THEN Copy(s) ELSE None
           /\ db.audits = files.audits
           /\ db.course_states = files.course_states /\ db.lesson_states = files.lesson_states
<1>1. AcceptSource /\ Written
  BY DEF Running
<1>2. /\ Left(1, KnownCourses) = {} /\ Left(2, Bindings) = {} /\ Left(3, KnownCourses) = {}
      /\ Left(4, KnownSessions) = {} /\ Left(5, Logs) = {} /\ Left(6, files.audits) = {}
      /\ Left(7, files.course_states) = {} /\ Left(8, files.lesson_states) = {}
  BY DEF Left
<1>3. \A c \in Courses : db.course[c] = files.course[c]
  BY <1>1, <1>2 DEF Written, CoursesWritten, KnownCourses
<1>4. \A c \in Courses, a \in Artifacts :
        db.lesson[c][a] = IF Bound(c, a) THEN Resolved(c, a) ELSE None
  BY <1>1, <1>2 DEF Written, LessonsWritten
<1>5. \A s \in Sessions :
        /\ db.session[s] # None <=> s \in KnownSessions
        /\ s \in KnownSessions /\ NoLateConfigs => db.session[s] = Expected(s)
  BY <1>1, <1>2 DEF Written, SessionsWritten
<1>6. \A s \in Sessions : db.log[s] = IF s \in Logs THEN Copy(s) ELSE None
  BY <1>1, <1>2 DEF Written, LogsWritten
<1>7. /\ db.audits = files.audits
      /\ db.course_states = files.course_states /\ db.lesson_states = files.lesson_states
  BY <1>1, <1>2 DEF Written, OthersWritten
<1>. QED
  BY <1>1, <1>3, <1>4, <1>5, <1>6, <1>7

LEMMA WrittenVerifies ==
    ASSUME Types, Running, import.pc = 9, NoLateConfigs
    PROVE  RecordsAgree /\ CountsAgree
<1>1. RecordsAgree
  <2>1. \A b \in Bindings :
            /\ b[1] \in Courses /\ b[2] \in Artifacts /\ Bound(b[1], b[2])
    BY DEF Bindings, Bound, KnownCourses
  <2>2. \A b \in Bindings : db.lesson[b[1]][b[2]] = Resolved(b[1], b[2])
    BY <2>1, AllWritten
  <2>3. \A c \in KnownCourses : db.course[c] = files.course[c]
    BY AllWritten DEF KnownCourses
  <2>4. \A s \in KnownSessions : db.session[s] = Expected(s)
    BY AllWritten DEF KnownSessions
  <2>5. \A s \in Logs : db.log[s] = [meta |-> files.meta[s], blob |-> files.blob[s]]
    BY AllWritten DEF Logs, Copy
  <2>. QED
    BY <2>2, <2>3, <2>4, <2>5, AllWritten DEF RecordsAgree
<1>2. Present(db.course) = KnownCourses
  BY AllWritten DEF Present, KnownCourses, Types, Targets
<1>3. {d \in Courses \X Artifacts : db.lesson[d[1]][d[2]] # None} = Bindings
  <2>1. \A c \in Courses, a \in Artifacts : Bound(c, a) => Resolved(c, a) # None
    BY AllWritten, ResolvedIsServed, RowIsSome DEF AcceptSource, Types
  <2>2. \A c \in Courses, a \in Artifacts : db.lesson[c][a] # None <=> <<c, a>> \in Bindings
    <3>1. \A c \in Courses, a \in Artifacts :
            db.lesson[c][a] = IF Bound(c, a) THEN Resolved(c, a) ELSE None
      BY AllWritten
    <3>. QED
      BY <2>1, <3>1 DEF Bound
  <2>. QED
    BY <2>2 DEF Bindings, KnownCourses
<1>4. Present(db.session) = KnownSessions
  BY AllWritten DEF Present, KnownSessions, Types, Targets
<1>5. Present(db.log) = Logs
  <2>1. \A s \in Logs : Copy(s) \in LogRows
    BY DEF Copy, Logs, Types, Files, LogRows, Optional
  <2>. QED
    BY <2>1, AllWritten, RowIsSome DEF Present, Logs, Types, Targets
<1>6. {s \in Present(db.session) : db.session[s].document.frozen # None}
        = {s \in KnownSessions : SourceConfig(s) # None}
  <2>1. \A s \in KnownSessions : db.session[s] = Expected(s) /\ s \in Sessions
    BY AllWritten DEF KnownSessions
  <2>2. ASSUME NEW s \in KnownSessions
        PROVE  db.session[s].document.frozen = SourceConfig(s)
    <3>1. files.session[s] \in Documents
      BY DEF KnownSessions, Types, Files, Optional
    <3>. DEFINE kept == files.session[s].messages /\ files.session[s].policy # "disabled"
                document == [files.session[s] EXCEPT !.messages = kept, !.frozen = SourceConfig(s)]
    <3>2. db.session[s] = [document |-> document, updated_at |-> "source"]
      BY <2>1 DEF Expected
    <3>. HIDE DEF kept
    <3>3. document.frozen = SourceConfig(s)
      BY <3>1 DEF Documents
    <3>. HIDE DEF document
    <3>. QED
      BY <3>2, <3>3
  <2>. QED
    BY <1>4, <2>2
<1>7. /\ db.audits = files.audits
      /\ db.course_states = files.course_states /\ db.lesson_states = files.lesson_states
  BY AllWritten
<1>8. CountsAgree
  BY <1>2, <1>3, <1>4, <1>5, <1>6, <1>7 DEF CountsAgree
<1>. QED
  BY <1>1, <1>8

\* What ImportedIsWhole says of an import that succeeded.
Moved ==
    /\ db.course = files.course
    /\ \A c \in Courses, a \in Artifacts :
            db.lesson[c][a] = IF Bound(c, a) THEN ServedLesson(c, a) ELSE None
    /\ \A s \in Sessions :
        /\ (db.session[s] # None) = (files.session[s] # None)
        /\ db.session[s] # None => db.session[s].document.frozen = ServedConfig(s)
        /\ (db.log[s] # None) = (files.meta[s] # None \/ files.blob[s] # None)
        /\ db.log[s] # None => /\ db.log[s].blob = files.blob[s]
                               /\ db.log[s].blob \in {None, db.log[s].meta.sha}
    /\ db.audits = files.audits
    /\ db.course_states = files.course_states /\ db.lesson_states = files.lesson_states

LEMMA MovedIsWhole == ImportedIsWhole <=> (import.status = "imported" => Moved)
BY DEF ImportedIsWhole, Moved

LEMMA MovedKept ==
    ASSUME files' = files, db' = db
    PROVE  Moved' <=> Moved
BY SourceKept DEF Moved, ServedLesson, ServedConfig

LEMMA VerifiedIsMoved ==
    ASSUME Types, Running, import.pc = 9, RecordsAgree
    PROVE  Moved
<1>1. db.course = files.course
  <2>1. db.course \in [Courses -> Optional(CourseRows)]
    BY DEF Types, Targets
  <2>2. files.course \in [Courses -> Optional(CourseRows)]
    BY DEF Types, Files, CourseRows
  <2>3. \A c \in Courses : db.course[c] = files.course[c]
    BY AllWritten
  <2>. QED
    BY <2>1, <2>2, <2>3
<1>2. ASSUME NEW c \in Courses, NEW a \in Artifacts
      PROVE  db.lesson[c][a] = IF Bound(c, a) THEN ServedLesson(c, a) ELSE None
  <2>1. db.lesson[c][a] = IF Bound(c, a) THEN Resolved(c, a) ELSE None
    BY AllWritten
  <2>2. Bound(c, a) => Resolved(c, a) = ServedLesson(c, a)
    BY AllWritten, ResolvedIsServed DEF AcceptSource, Types
  <2>. QED
    BY <2>1, <2>2
<1>3. ASSUME NEW s \in Sessions
      PROVE  /\ (db.session[s] # None) = (files.session[s] # None)
             /\ db.session[s] # None => db.session[s].document.frozen = ServedConfig(s)
  <2>1. db.session[s] # None <=> s \in KnownSessions
    BY AllWritten
  <2>2. ASSUME s \in KnownSessions
        PROVE  db.session[s].document.frozen = ServedConfig(s)
    <3>. DEFINE source == files.session[s]
                kept == source.messages /\ source.policy # "disabled"
                document == [source EXCEPT !.messages = kept, !.frozen = SourceConfig(s)]
    <3>1. db.session[s] = Expected(s)
      BY <2>2 DEF RecordsAgree
    <3>2. db.session[s].document = document
      BY <3>1 DEF Expected
    <3>3. source \in Documents /\ source # None
      BY <2>2 DEF KnownSessions, Types, Files, Optional
    <3>4. SourceConfig(s) = ServedConfig(s)
      BY <3>3 DEF SourceConfig, ServedConfig
    <3>. HIDE DEF source, kept
    <3>5. document.frozen = SourceConfig(s)
      BY <3>3 DEF Documents
    <3>. HIDE DEF document
    <3>. QED
      BY <3>2, <3>4, <3>5
  <2>. QED
    BY <2>1, <2>2 DEF KnownSessions
<1>4. ASSUME NEW s \in Sessions
      PROVE  /\ (db.log[s] # None) = (files.meta[s] # None \/ files.blob[s] # None)
             /\ db.log[s] # None => /\ db.log[s].blob = files.blob[s]
                                    /\ db.log[s].blob \in {None, db.log[s].meta.sha}
  <2>1. db.log[s] = IF s \in Logs THEN Copy(s) ELSE None
    BY AllWritten
  <2>2. IF s \notin Logs THEN files.blob[s] = None
        ELSE files.blob[s] = IF files.meta[s].available THEN files.meta[s].sha ELSE None
    BY AllWritten DEF AcceptSource, LogsWhole
  <2>3. s \in Logs => Copy(s) # None
    <3>1. s \in Logs => Copy(s) \in LogRows
      BY DEF Copy, Logs, Types, Files, LogRows, Optional
    <3>. QED
      BY <3>1, RowIsSome
  <2>4. s \in Logs <=> files.meta[s] # None
    BY DEF Logs
  <2>. QED
    BY <2>1, <2>2, <2>3, <2>4 DEF Copy
<1>. QED
  BY <1>1, <1>2, <1>3, <1>4, AllWritten DEF Moved

LEMMA VerifyStep ==
    ASSUME Types, Running, Verify
    PROVE  Types' /\ Running' /\ ImportedIsWhole' /\ PreflightSuffices'
<1>1. files' = files /\ rest' = rest /\ db' = db /\ import.pc = 9
  BY PhaseNumbers DEF Verify, storeVars, Types, ImporterTypes
<1>2. import' = Idle(IF RecordsAgree /\ CountsAgree THEN "imported" ELSE "unverified")
  BY DEF Verify
<1>3. /\ ImporterTypes' /\ import'.pc = 0
      /\ import'.status = IF RecordsAgree /\ CountsAgree THEN "imported" ELSE "unverified"
  BY <1>2, IdleImporter
<1>4. Types' /\ Running'
  BY <1>1, <1>3 DEF Types, Running
<1>5. ImportedIsWhole'
  <2>1. RecordsAgree => Moved
    BY <1>1, VerifiedIsMoved
  <2>2. Moved' <=> Moved
    BY <1>1, MovedKept
  <2>3. ImportedIsWhole' <=> (import'.status = "imported" => Moved')
    BY DEF ImportedIsWhole, Moved
  <2>. QED
    BY <1>3, <2>1, <2>2, <2>3
<1>6. PreflightSuffices'
  <2>1. NoLateConfigs => import'.status = "imported"
    BY <1>1, <1>3, WrittenVerifies
  <2>. QED
    BY <1>1, <1>3, <2>1 DEF PreflightSuffices, NoLateConfigs
<1>. QED
  BY <1>4, <1>5, <1>6

---------------------------------------------------------------------------
(***************************************************************************)
(* The theorems.                                                           *)
(***************************************************************************)
LEMMA InitIInv == Init => IInv
<1>. SUFFICES ASSUME Init
              PROVE  IInv
  OBVIOUS
<1>1. files \in Files /\ rest \in Rests
  BY DatasetAssumption DEF Init, StoreInit, Rests
<1>2. import.pc = 0 /\ import.status = "none" /\ ImporterTypes
  BY DEF Init, Idle, ImporterTypes
<1>3. db \in Targets
  BY EmptyTargetType DEF Init
<1>. QED
  BY <1>1, <1>2, <1>3 DEF IInv, Types, Running, ImportedIsWhole, PreflightSuffices

\* Every step but the last comparison ends in a status of no promise.
LEMMA OtherSteps ==
    ASSUME Types, Running, Next, ~Verify
    PROVE  /\ Types' /\ Running'
           /\ import'.status \notin {"imported", "error", "unverified"}
<1>1. CASE Serve
  <2>1. files' \in Files /\ rest' \in Rests
    BY <1>1, StoreTypes DEF Serve, Types
  <2>2. import' = Idle("none") /\ db' = db
    BY <1>1 DEF Serve
  <2>3. ImporterTypes' /\ import'.pc = 0 /\ import'.status = "none"
    BY <2>2, IdleImporter
  <2>. QED
    BY <2>1, <2>2, <2>3 DEF Types, Running
<1>2. CASE ImportCrash \/ ResetTarget
  <2>1. /\ files' = files /\ rest' = rest /\ db' \in Targets
        /\ import' = Idle("crashed") \/ import' = Idle("none")
    BY <1>2, EmptyTargetType DEF ImportCrash, ResetTarget, storeVars, Types
  <2>2. ImporterTypes' /\ import'.pc = 0 /\ import'.status \in {"crashed", "none"}
    BY <2>1, IdleImporter
  <2>. QED
    BY <2>1, <2>2 DEF Types, Running
<1>3. CASE \E dry_run \in BOOLEAN : StartImport(dry_run)
  BY <1>3, StartStep
<1>4. ASSUME NEW c \in Courses,
             \/ ImportCourse(c) \/ ImportBindings(c) \/ ImportCourseState(c)
             \/ \E a \in Artifacts : ImportLesson(c, a) \/ ImportLessonState(c, a)
      PROVE  Types' /\ Running' /\ import'.status = "running"
  BY <1>4, CourseStep, BindingsStep, CourseStateStep, LessonStep, LessonStateStep
<1>5. ASSUME NEW s \in Sessions, ImportSession(s) \/ ImportConfig(s) \/ ImportLog(s)
      PROVE  Types' /\ Running' /\ import'.status = "running"
  BY <1>5, SessionStep, ConfigStep, LogStep
<1>6. CASE (\E audit \in files.audits : ImportAudit(audit)) \/ NextPhase
  BY <1>6, AuditStep, PhaseStep
<1>. QED
  BY <1>1, <1>2, <1>3, <1>4, <1>5, <1>6 DEF Next

LEMMA NextIInv == IInv /\ [Next]_vars => IInv'
<1>1. ASSUME IInv, Verify
      PROVE  IInv'
  BY <1>1, VerifyStep DEF IInv
<1>2. ASSUME IInv, Next, ~Verify
      PROVE  IInv'
  <2>1. /\ Types' /\ Running'
        /\ import'.status \notin {"imported", "error", "unverified"}
    BY <1>2, OtherSteps DEF IInv
  <2>2. ImportedIsWhole' /\ PreflightSuffices'
    BY <2>1 DEF ImportedIsWhole, PreflightSuffices
  <2>. QED
    BY <2>1, <2>2 DEF IInv
<1>3. ASSUME IInv, UNCHANGED vars
      PROVE  IInv'
  <2>1. files' = files /\ rest' = rest /\ db' = db /\ import' = import
    BY <1>3 DEF vars, storeVars
  <2>2. Types'
    BY <1>3, <2>1, SourceKept DEF IInv, Types, ImporterTypes
  <2>3. Running'
    <3>1. \A all : \A i \in 1 .. 8 : Left(i, all)' = Left(i, all)
      BY <2>1 DEF Left
    <3>2. Written => Written'
      BY <2>1, <3>1, SourceKept, PartsKept DEF Written
    <3>. QED
      BY <1>3, <2>1, <3>2, SourceKept DEF IInv, Running
  <2>4. ImportedIsWhole'
    <3>1. Moved' <=> Moved
      BY <2>1, MovedKept
    <3>2. ImportedIsWhole' <=> (import'.status = "imported" => Moved')
      BY DEF ImportedIsWhole, Moved
    <3>. QED
      BY <1>3, <2>1, <3>1, <3>2, MovedIsWhole DEF IInv
  <2>5. PreflightSuffices'
    BY <1>3, <2>1 DEF IInv, PreflightSuffices
  <2>. QED
    BY <2>2, <2>3, <2>4, <2>5 DEF IInv
<1>. QED
  BY <1>1, <1>2, <1>3

\* The inductive invariant of the importer.
THEOREM ImportInvariance == Spec => []IInv
<1>. QED
  BY InitIInv, NextIInv, PTL DEF Spec

\* An import that reports success has moved every course, lesson, session,
\* log, audit and state as the old storage served it, and nothing else.
THEOREM ImportedIsWholeHolds == Spec => []ImportedIsWhole
<1>1. IInv => ImportedIsWhole
  BY DEF IInv
<1>. QED
  BY <1>1, ImportInvariance, PTL

\* No constraint refuses what the preflight accepted, and it verifies, unless
\* a session has its config in a file of its own only.
THEOREM PreflightSufficesHolds == Spec => []PreflightSuffices
<1>1. IInv => PreflightSuffices
  BY DEF IInv
<1>. QED
  BY <1>1, ImportInvariance, PTL

=============================================================================
