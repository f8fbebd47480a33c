------------------------- MODULE MCFilesystemImport -------------------------
\* One lesson in two versions; the files of a whole course, and those of the
\* time before course scopes and session configs.
EXTENDS FilesystemImport

CONSTANTS c1, c2, l1, v1, v2, s1, t1, t2, k1, k2

NoFiles ==
    [course |-> [c \in Courses |-> None],
     lesson |-> [scope \in Scopes |-> [a \in Artifacts |-> None]],
     session |-> [s \in Sessions |-> None], config |-> [s \in Sessions |-> None],
     meta |-> [s \in Sessions |-> None], blob |-> [s \in Sessions |-> None],
     audits |-> {}, course_states |-> {}, lesson_states |-> {}]

WholeCourse ==
    [NoFiles EXCEPT
        !.course[c1] = [l \in Lessons |-> v1], !.lesson[c1][<<l1, v1>>] = t1,
        !.session[s1] = [course |-> c1, artifact |-> <<l1, v1>>, policy |-> "default",
                         messages |-> TRUE, frozen |-> k1],
        !.meta[s1] = [course |-> c1, artifact |-> <<l1, v1>>, available |-> TRUE, sha |-> t1],
        !.blob[s1] = t1, !.audits = {<<c1, s1>>},
        !.course_states = {c1}, !.lesson_states = {<<c1, <<l1, v1>>>>}]

Unscoped(scope, frozen) ==
    [NoFiles EXCEPT
        !.course = [c \in Courses |-> [l \in Lessons |-> v1]], !.lesson[scope][<<l1, v1>>] = t1,
        !.session[s1] = [course |-> c1, artifact |-> <<l1, v1>>, policy |-> "disabled",
                         messages |-> TRUE, frozen |-> frozen],
        !.config[s1] = k1]

MCDatasets ==
    {NoFiles, WholeCourse, Unscoped("lessons", k1), Unscoped("_legacy", k1),
     Unscoped("lessons", None)}
=============================================================================
