--------------------------- MODULE MCCourseStore ---------------------------
\* An administrator, an owner and a student; two versions of one lesson and
\* timelines of one and two windows.
EXTENDS CourseStore, TLC

CONSTANTS admin, owner, student, l1, v1, v2

Window(v, from, to) ==
    [lesson_id |-> l1, lesson_version |-> v, starts_at |-> from, ends_at |-> to]

MCArtifacts == {<<l1, v1>>, <<l1, v2>>}
MCTimelines == {{Window(v1, 0, None)}, {Window(v1, 0, 1), Window(v1, 1, None)},
                {Window(v2, 0, None), Window(v2, 1, None)}}

\* A course with a student, an owner and a pinned lesson.
MCStored ==
    {[NewCourse(owner) EXCEPT !.revision = 1, !.enrolled_users = {student},
                              !.lessons[l1] = v1, !.lesson_timeline = {Window(v1, 0, None)}]}

MCOperations ==
    {op \in Operations :
        CASE op.name \in {"view", "lessons", "session", "enroll"} -> op.by = student
          [] op.name \in {"approve", "remove", "add_instructor", "remove_instructor"} ->
                 op.by = owner /\ op.user = student
          [] op.name = "bind"    -> op.by = owner
          [] op.name = "timeline" ->
                 op.by = owner \/ (op.by = student /\ op.windows = {Window(v1, 0, None)})
          [] op.name = "archive" -> op.by = admin
          [] op.name = "create"  -> op.by = admin /\ op.user = owner
          [] op.name = "update"  -> op.by = admin /\ op.user = student}

CourseSymmetry == Permutations(Requests)
=============================================================================
