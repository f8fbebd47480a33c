---------------------------- MODULE CourseLedger ----------------------------
(***************************************************************************)
(* What the routes promise of one course: every change takes effect at     *)
(* once, made by someone who may make it at that moment, and none is lost  *)
(* or undone by another that has not seen it.  A creation replaces nothing *)
(* but a creation that nobody has touched.                                 *)
(***************************************************************************)
EXTENDS CourseRules

VARIABLE course     \* the stored course, or None

Init == course \in Stored \cup {None}

Create(owner) ==
    \/ course = None /\ course' = NewCourse(owner)
    \/ course # None /\ course.revision = 0 /\ course' = [NewCourse(owner) EXCEPT !.revision = 1]

\* Every change makes the next revision.
Change ==
    /\ course # None /\ course'.revision = course.revision + 1
    /\ \E op \in OperationSet : \E c \in Saves(course, op) :
            course' = [c EXCEPT !.revision = course.revision + 1]

Next == (\E u \in Users : Create(u)) \/ Change

Spec == Init /\ [][Next]_course
=============================================================================
