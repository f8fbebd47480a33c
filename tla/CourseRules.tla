---------------------------- MODULE CourseRules ----------------------------
(***************************************************************************)
(* The course document (models/course.py) and what each route of           *)
(* api/routes/courses.py and api/routes/admin.py does to it, as operators  *)
(* on one course.  CourseLedger takes them as atomic steps; CourseStore    *)
(* runs them over the transactions of PostgresCourseStorage.               *)
(*                                                                         *)
(* Lists of user ids are sets: the model normalises them to lists without  *)
(* repetitions.  Texts of the course are left out.                         *)
(***************************************************************************)
EXTENDS Integers, FiniteSets

CONSTANTS
    Users,
    Admins,         \* users with the admin role
    Lessons,
    Versions,
    Artifacts,      \* <<lesson, version>> stored for the course
    Timelines,      \* sets of windows that instructors submit
    Times,          \* clock readings
    Stored,         \* courses the database may hold at the start
    None

ASSUME CourseAssumption ==
    /\ Admins \subseteq Users /\ None \notin Users \cup Versions \cup Times
    /\ Artifacts \subseteq Lessons \X Versions
    /\ Times \subseteq Nat

\* CourseLessonWindow: a window without an end stays open.
CourseLessonWindows ==
    {w \in [lesson_id : Lessons, lesson_version : Versions,
            starts_at : Times, ends_at : Times \cup {None}] :
        w.ends_at # None => w.starts_at < w.ends_at}

ASSUME TimelineAssumption == \A windows \in Timelines : windows \subseteq CourseLessonWindows

Courses ==
    [revision : Nat, owner_id : Users, instructor_ids : SUBSET Users,
     enrolled_users : SUBSET Users, pending_requests : SUBSET Users,
     discoverable : BOOLEAN, archived : BOOLEAN,
     lessons : [Lessons -> Versions \cup {None}],
     lesson_timeline : SUBSET CourseLessonWindows]

\* create_course: without lessons, the owner is an instructor.
NewCourse(owner) ==
    [revision |-> 0, owner_id |-> owner, instructor_ids |-> {owner},
     enrolled_users |-> {}, pending_requests |-> {}, discoverable |-> TRUE, archived |-> FALSE,
     lessons |-> [l \in Lessons |-> None], lesson_timeline |-> {}]

---------------------------------------------------------------------------
(***************************************************************************)
(* The timeline.                                                           *)
(***************************************************************************)
EndsBefore(v, w) == v.ends_at # None /\ v.ends_at <= w.starts_at

\* _validate_lesson_timeline: it runs whenever a course is built from the
\* database, so a course that fails it can no longer be read.
ValidTimeline(c) ==
    /\ \A w \in c.lesson_timeline : c.lessons[w.lesson_id] = w.lesson_version
    /\ \A v, w \in c.lesson_timeline : v # w => EndsBefore(v, w) \/ EndsBefore(w, v)

\* The database holds what these handlers have saved.
ASSUME StoredAssumption ==
    /\ None \notin Courses
    /\ \A c \in Stored :
            c \in Courses /\ ValidTimeline(c) /\ c.owner_id \in c.instructor_ids

\* resolve_pinned_lesson_window raises when there is more than one.
ActiveWindows(c, now) ==
    {w \in c.lesson_timeline :
        w.starts_at <= now /\ (w.ends_at = None \/ now < w.ends_at)}

---------------------------------------------------------------------------
(***************************************************************************)
(* Who may do what.                                                        *)
(***************************************************************************)
IsAdmin(u) == u \in Admins

\* ensure_course_owner, ensure_owner_or_admin
IsOwner(c, u) == IsAdmin(u) \/ u = c.owner_id

\* ensure_course_instructor
IsInstructor(c, u) == IsAdmin(u) \/ u \in c.instructor_ids

\* get_course, get_course_lessons and get_owned_session.
MayView(c, u) ==
    IF c.archived THEN IsInstructor(c, u)
    ELSE c.discoverable \/ IsInstructor(c, u) \/ u \in c.enrolled_users

MayOpenLessons(c, u) ==
    /\ MayView(c, u)
    /\ IsInstructor(c, u) \/ u \in c.enrolled_users \cup {c.owner_id}

\* Mutant: a session is opened by whoever sees the course.
MutantMayUseSession(c, u) == ~c.archived /\ MayView(c, u)

MayUseSession(c, u) ==
    ~c.archived /\ u \in c.enrolled_users \cup c.instructor_ids

Grants(c, kind, u) ==
    CASE kind = "view"    -> MayView(c, u)
      [] kind = "lessons" -> MayOpenLessons(c, u)
      [] kind = "session" -> MayUseSession(c, u)

---------------------------------------------------------------------------
(***************************************************************************)
(* Changing a course: each operator is the set of courses its handler      *)
(* saves, which is empty when it refuses or has nothing to save.           *)
(***************************************************************************)
SaveIf(condition, c) == IF condition THEN {c} ELSE {}

RequestEnrollment(c, by) ==
    SaveIf(/\ ~c.archived /\ c.discoverable
           /\ by \notin c.enrolled_users \cup c.pending_requests,
           [c EXCEPT !.pending_requests = @ \cup {by}])

ApproveStudent(c, by, u) ==
    SaveIf(~c.archived /\ IsOwner(c, by) /\ u \in c.pending_requests,
           [c EXCEPT !.pending_requests = @ \ {u}, !.enrolled_users = @ \cup {u}])

RemoveStudent(c, by, u) ==
    SaveIf(~c.archived /\ IsOwner(c, by) /\ u \in c.enrolled_users,
           [c EXCEPT !.enrolled_users = @ \ {u}])

AddInstructor(c, by, u) ==
    SaveIf(~c.archived /\ IsOwner(c, by) /\ u \notin c.instructor_ids,
           [c EXCEPT !.instructor_ids = @ \cup {u}])

RemoveInstructor(c, by, u) ==
    SaveIf(~c.archived /\ IsOwner(c, by) /\ u # c.owner_id /\ u \in c.instructor_ids,
           [c EXCEPT !.instructor_ids = @ \ {u}])

\* Mutant: the windows of the version bound before stay.
MutantBindLesson(c, by, l, v) ==
    SaveIf(~c.archived /\ IsOwner(c, by) /\ <<l, v>> \in Artifacts,
           [c EXCEPT !.lessons[l] = v])

BindLesson(c, by, l, v) ==
    SaveIf(~c.archived /\ IsOwner(c, by) /\ <<l, v>> \in Artifacts,
           [c EXCEPT !.lessons[l] = v,
                     !.lesson_timeline = {w \in @ : w.lesson_id # l}])

UpdateTimeline(c, by, windows) ==
    LET updated == [c EXCEPT !.lesson_timeline = windows]
    IN SaveIf(~c.archived /\ IsInstructor(c, by) /\ ValidTimeline(updated), updated)

\* delete_course keeps the course and closes it.
Archive(c, by) ==
    SaveIf(IsAdmin(by), [c EXCEPT !.archived = TRUE, !.discoverable = FALSE])

\* Mutant: the document is sent back with the default revision.
MutantEdit(c, what, u) == [c EXCEPT !.revision = 0, !.archived = FALSE]

\* What an administrator changes in a copy of the course before sending it
\* back; a new owner becomes an instructor (_normalize_instructors).
Edit(c, what, u) ==
    CASE what = "restore" -> [c EXCEPT !.archived = FALSE]
      [] what = "admit"   -> [c EXCEPT !.enrolled_users = @ \cup {u}]
      [] what = "owner"   -> [c EXCEPT !.owner_id = u, !.instructor_ids = @ \cup {u}]

\* update_course: the payload with the lessons and windows that are stored.
ReplaceMetadata(payload, existing, by) ==
    SaveIf(IsAdmin(by), [payload EXCEPT !.lessons = existing.lessons,
                                        !.lesson_timeline = existing.lesson_timeline])

Operations ==
    [name : {"view", "lessons", "session"}, by : Users]
        \cup [name : {"enroll"}, by : Users]
        \cup [name : {"approve", "remove", "add_instructor", "remove_instructor"},
              by : Users, user : Users]
        \cup [name : {"bind"}, by : Users, lesson : Lessons, version : Versions]
        \cup [name : {"timeline"}, by : Users, windows : Timelines]
        \cup [name : {"archive"}, by : Users]
        \cup [name : {"create"}, by : Users, user : Users]
        \cup [name : {"update"}, by : Users, edit : {"restore", "admit", "owner"}, user : Users]

CONSTANT OperationSet   \* bound: the operations that are requested

ASSUME OperationAssumption == OperationSet \subseteq Operations

IsRead(op) == op.name \in {"view", "lessons", "session"}

\* The courses that the operation saves when c is what it has read: none for
\* a reading route, and none for a creation, whose id is taken.
Saves(c, op) ==
    CASE op.name = "enroll"            -> RequestEnrollment(c, op.by)
      [] op.name = "approve"           -> ApproveStudent(c, op.by, op.user)
      [] op.name = "remove"            -> RemoveStudent(c, op.by, op.user)
      [] op.name = "add_instructor"    -> AddInstructor(c, op.by, op.user)
      [] op.name = "remove_instructor" -> RemoveInstructor(c, op.by, op.user)
      [] op.name = "bind"              -> BindLesson(c, op.by, op.lesson, op.version)
      [] op.name = "timeline"          -> UpdateTimeline(c, op.by, op.windows)
      [] op.name = "archive"           -> Archive(c, op.by)
      [] op.name = "update"            -> ReplaceMetadata(Edit(c, op.edit, op.user), c, op.by)
      [] OTHER                         -> {}
=============================================================================
