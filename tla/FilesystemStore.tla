-------------------------- MODULE FilesystemStore --------------------------
(***************************************************************************)
(* The deprecated filesystem storage (storage/filesystem.py) as the        *)
(* importer finds it: the files that its operations leave behind, cut      *)
(* short by a crash where an operation writes more than one file.  An      *)
(* operation runs without awaiting anything, so only a crash divides it.   *)
(*                                                                         *)
(* A file's name is the identity it stores (_safe_component is injective). *)
(* Revisions are left out: one process writes, and the revision it sends   *)
(* is the one it has read.                                                 *)
(***************************************************************************)
EXTENDS Integers, FiniteSets

CONSTANTS
    Courses,
    Lessons,
    Versions,
    Sessions,
    Texts,          \* contents of a document or an encrypted log
    Configs,        \* frozen inference configs
    Datasets,       \* files that earlier releases have left
    MaxOperations,  \* bound: operations of the storage
    None

ASSUME StoreAssumption ==
    /\ None \notin Courses \cup Versions \cup Sessions \cup Texts \cup Configs
    /\ MaxOperations \in Nat

Artifacts == Lessons \X Versions

\* Where lesson documents of the time before course scopes lie.
LegacyScopes == {"lessons", "_legacy"}
Scopes == Courses \cup LegacyScopes

Documents ==
    [course : Courses, artifact : Artifacts, policy : {"default", "disabled"},
     messages : BOOLEAN, frozen : Configs \cup {None}]

Metadata ==
    [course : Courses, artifact : Artifacts, available : BOOLEAN, sha : Texts]

Optional(S) == S \cup {None}

Files ==
    [course : [Courses -> Optional([Lessons -> Optional(Versions)])],
     lesson : [Scopes -> [Artifacts -> Optional(Texts)]],
     session : [Sessions -> Optional(Documents)],
     config : [Sessions -> Optional(Configs)],
     meta : [Sessions -> Optional(Metadata)],
     blob : [Sessions -> Optional(Texts)],
     audits : SUBSET (Courses \X Optional(Sessions)),
     course_states : SUBSET Courses,
     lesson_states : SUBSET (Courses \X Artifacts)]

ASSUME DatasetAssumption == \A d \in Datasets : d \in Files

VARIABLES
    files,
    rest,           \* what the running operation has still to do, or None
    operations      \* number of operations so far

storeVars == <<files, rest, operations>>

StoreInit == files \in Datasets /\ rest = None /\ operations = 0

Begin ==
    /\ rest = None /\ operations < MaxOperations
    /\ operations' = operations + 1

Whole == Begin /\ UNCHANGED rest

Continue(name) == rest # None /\ rest.name = name /\ UNCHANGED operations

---------------------------------------------------------------------------
(***************************************************************************)
(* Lessons and courses.                                                    *)
(***************************************************************************)
SaveLesson(c, a, text) ==
    /\ Whole
    /\ files' = [files EXCEPT !.lesson[c][a] = text]

\* save_course first gives the course its own copies of legacy lessons.
SaveCourse(c, bindings) ==
    /\ Begin
    /\ rest' = [name |-> "course", course |-> c, bindings |-> bindings]
    /\ UNCHANGED files

MissingLessons ==
    {a \in Artifacts : /\ rest.bindings[a[1]] = a[2]
                       /\ files.lesson[rest.course][a] = None}

CopyLegacyLesson ==
    /\ Continue("course")
    /\ \E a \in MissingLessons :
            /\ files.lesson["_legacy"][a] # None
            /\ files' = [files EXCEPT !.lesson[rest.course][a] = files.lesson["_legacy"][a]]
    /\ UNCHANGED rest

WriteCourse ==
    /\ Continue("course") /\ rest' = None
    /\ IF MissingLessons = {} THEN files' = [files EXCEPT !.course[rest.course] = rest.bindings]
       ELSE /\ \E a \in MissingLessons : files.lesson["_legacy"][a] = None    \* ValueError
            /\ UNCHANGED files

DeleteCourse(c) ==
    /\ Whole
    /\ files' = [files EXCEPT !.course[c] = None]

---------------------------------------------------------------------------
(***************************************************************************)
(* Sessions and their logs.                                                *)
(***************************************************************************)
\* A session of a bound lesson; a disabled one is stored without messages.
SaveSession(s, c, l, policy, k) ==
    /\ Whole
    /\ files.session[s] = None /\ files.course[c] # None /\ files.course[c][l] # None
    /\ files' = [files EXCEPT !.session[s] =
            [course |-> c, artifact |-> <<l, files.course[c][l]>>, policy |-> policy,
             messages |-> policy # "disabled", frozen |-> k]]

DeleteSession(s) ==
    /\ Begin
    /\ files' = [files EXCEPT !.session[s] = None]
    /\ rest' = [name |-> "config", session |-> s]

DeleteConfig ==
    /\ Continue("config") /\ rest' = None
    /\ files' = [files EXCEPT !.config[rest.session] = None]

\* A file of its own; sessions of this release carry their config.
SaveConfig(s, k) ==
    /\ Whole
    /\ files' = [files EXCEPT !.config[s] = k]

\* The log is overwritten in place, its metadata afterwards.
SaveLog(s, text) ==
    /\ Begin
    /\ files.session[s] # None
    /\ files.meta[s] # None => files.meta[s].available
    /\ files' = [files EXCEPT !.blob[s] = text]
    /\ rest' = [name |-> "meta", session |-> s,
                meta |-> [course |-> files.session[s].course, artifact |-> files.session[s].artifact,
                          available |-> TRUE, sha |-> text]]

DeleteLog(s) ==
    /\ Begin
    /\ files' = [files EXCEPT !.blob[s] = None]
    /\ rest' = [name |-> "meta", session |-> s, meta |-> None]

ExpireLog(s) ==
    /\ Begin
    /\ files' = [files EXCEPT !.blob[s] = None]
    /\ rest' = [name |-> "meta", session |-> s,
                meta |-> IF files.meta[s] = None THEN None
                         ELSE [files.meta[s] EXCEPT !.available = FALSE]]

WriteMetadata ==
    /\ Continue("meta") /\ rest' = None
    /\ files' = [files EXCEPT !.meta[rest.session] = rest.meta]

---------------------------------------------------------------------------
(***************************************************************************)
(* Audits and workspace states: one file each.                             *)
(***************************************************************************)
SaveAudit(c, s) ==
    /\ Whole
    /\ files' = [files EXCEPT !.audits = @ \cup {<<c, s>>}]

TouchCourse(c) ==
    /\ Whole
    /\ files' = [files EXCEPT !.course_states = @ \cup {c}]

TouchLesson(c, a) ==
    /\ Whole
    /\ files' = [files EXCEPT !.lesson_states = @ \cup {<<c, a>>}]

\* The process stops between two files.
StoreCrash ==
    /\ rest # None /\ rest' = None
    /\ UNCHANGED <<files, operations>>

StoreNext ==
    \/ \E c \in Courses :
            \/ \E bindings \in [Lessons -> Optional(Versions)] : SaveCourse(c, bindings)
            \/ DeleteCourse(c) \/ TouchCourse(c)
            \/ \E s \in Optional(Sessions) : SaveAudit(c, s)
            \/ \E a \in Artifacts :
                    TouchLesson(c, a) \/ \E text \in Texts : SaveLesson(c, a, text)
            \/ \E s \in Sessions, l \in Lessons, policy \in {"default", "disabled"}, k \in Configs :
                    SaveSession(s, c, l, policy, k)
    \/ \E s \in Sessions :
            \/ DeleteSession(s) \/ DeleteLog(s) \/ ExpireLog(s)
            \/ \E text \in Texts : SaveLog(s, text)
            \/ \E k \in Configs : SaveConfig(s, k)
    \/ CopyLegacyLesson \/ WriteCourse \/ DeleteConfig \/ WriteMetadata \/ StoreCrash
=============================================================================
