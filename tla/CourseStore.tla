---------------------------- MODULE CourseStore ----------------------------
(***************************************************************************)
(* Requests to the routes of one course over the transactions of           *)
(* PostgresCourseStorage.  A course is read table after table, each SELECT *)
(* seeing what is committed when it runs, so a copy may mix two courses;   *)
(* save_course takes the row's lock only to compare the revision, which    *)
(* every reader has read first.  CourseStore is shown to implement         *)
(* CourseLedger.                                                           *)
(***************************************************************************)
EXTENDS CourseRules, Sequences

CONSTANTS
    Requests,       \* coroutines that serve a request
    MaxRevision     \* bound: revision of the course

ASSUME StoreAssumption == MaxRevision \in Nat

VARIABLES
    course,     \* the committed course, or None
    req         \* request -> what its coroutine knows

vars == <<course, req>>

\* The tables of selectinload, in their order; the row is read before them.
Tables == <<"enrolled_users", "instructor_ids", "pending_requests", "lessons">>

Idle == [pc |-> "idle"]

Init == course \in Stored \cup {None} /\ req = [q \in Requests |-> Idle]

At(q, pc) == req[q].pc = pc
Goto(q, pc) == req' = [req EXCEPT ![q].pc = pc]
Finish(q) == req' = [req EXCEPT ![q] = Idle]

\* Is the user in none of the lists that open a session.
Outside(c, u) == c = None \/ u \notin c.enrolled_users \cup c.instructor_ids

---------------------------------------------------------------------------
(***************************************************************************)
(* Reading the course.                                                     *)
(***************************************************************************)
\* A request with a valid identity; require_admin guards the admin routes.
Start(q, op) ==
    /\ At(q, "idle")
    /\ op.name \in {"create", "update", "archive"} => IsAdmin(op.by)
    /\ req' = [req EXCEPT ![q] =
            [pc |-> "row", op |-> op, payload |-> None,
             overtaken |-> FALSE, outsider |-> Outside(course, op.by)]]
    /\ UNCHANGED course

\* Without a course only a creation goes on.
Missing(q) ==
    /\ At(q, "row") /\ course = None
    /\ IF req[q].op.name = "create"
       THEN req' = [req EXCEPT ![q].pc = "select", ![q].payload = NewCourse(req[q].op.user)]
       ELSE Finish(q)
    /\ UNCHANGED course

\* SELECT of the row: revision, owner, flags and timeline.
ReadRow(q) ==
    /\ At(q, "row") /\ course # None
    /\ req' = [req EXCEPT ![q] =
            [pc |-> "tables", op |-> @.op, payload |-> @.payload,
             overtaken |-> @.overtaken /\ @.payload # None,
             outsider |-> @.outsider, copy |-> course, todo |-> Tables]]
    /\ UNCHANGED course

\* What a table holds for the copy; _normalize_instructors adds the owner.
Selected(copy, table) ==
    IF table = "instructor_ids" THEN course[table] \cup {copy.owner_id} ELSE course[table]

ReadTable(q) ==
    /\ At(q, "tables")
    /\ LET table == Head(req[q].todo)
           rest  == Tail(req[q].todo)
       IN req' = [req EXCEPT ![q].copy[table] = Selected(req[q].copy, table),
                             ![q].todo = rest,
                             ![q].pc = IF rest = <<>> THEN "loaded" ELSE "tables"]
    /\ UNCHANGED course

\* The validators of the course refuse what was read.
Unreadable(q) ==
    /\ At(q, "loaded") /\ ~ValidTimeline(req[q].copy)
    /\ Goto(q, "unreadable")
    /\ UNCHANGED course

Loaded(q) == At(q, "loaded") /\ ValidTimeline(req[q].copy)

---------------------------------------------------------------------------
(***************************************************************************)
(* What the handler makes of its copy.                                     *)
(***************************************************************************)
\* A reading route answers, or 404.  The recency it then writes for the
\* sidebar (touch_course) is left out.
Grant(q) ==
    /\ Loaded(q) /\ IsRead(req[q].op)
    /\ IF Grants(req[q].copy, req[q].op.name, req[q].op.by) THEN Goto(q, "granted") ELSE Finish(q)
    /\ UNCHANGED course

\* An administrator gets the document and sends it back changed.
EditCopy(q) ==
    /\ Loaded(q) /\ req[q].op.name = "update" /\ req[q].payload = None
    /\ LET edited == Edit(req[q].copy, req[q].op.edit, req[q].op.user)
       IN req' = [req EXCEPT ![q].pc = "row", ![q].payload = edited]
    /\ UNCHANGED course

\* The courses a handler saves after it has read the course.
Decided(q) ==
    LET r == req[q]
    IN IF r.op.name = "update" THEN ReplaceMetadata(r.payload, r.copy, r.op.by)
       ELSE Saves(r.copy, r.op)

Deciding(q) ==
    /\ Loaded(q) /\ ~IsRead(req[q].op)
    /\ req[q].op.name = "update" => req[q].payload # None

Refuse(q) ==
    /\ Deciding(q) /\ Decided(q) = {}
    /\ Finish(q)
    /\ UNCHANGED course

Apply(q) ==
    /\ Deciding(q)
    /\ \E c \in Decided(q) :
            req' = [req EXCEPT ![q].pc = "select", ![q].payload = c]
    /\ UNCHANGED course

---------------------------------------------------------------------------
(***************************************************************************)
(* save_course.                                                            *)
(***************************************************************************)
\* _get_course_record decides between INSERT and UPDATE.
SelectCourse(q) ==
    /\ At(q, "select")
    /\ Goto(q, IF course = None THEN "insert" ELSE "update")
    /\ UNCHANGED course

\* Everybody else who is at work has been overtaken.
Committed(q, c) ==
    /\ course' = c
    /\ req' = [r \in Requests |->
            IF r = q \/ At(r, "idle") THEN Idle
            ELSE [req[r] EXCEPT !.overtaken = TRUE,
                                !.outsider = @ /\ Outside(c, req[r].op.by)]]

\* The unique course id lets one INSERT through.
Insert(q) ==
    /\ At(q, "insert")
    /\ IF course = None THEN Committed(q, req[q].payload)
       ELSE Goto(q, "conflict") /\ UNCHANGED course

\* Mutant: the revision is not compared.
MutantIsCurrent(q) == TRUE

\* The revision under the row's lock is the one that was read.
IsCurrent(q) == course.revision = req[q].payload.revision

\* The row and, deleted and inserted again, the rosters and bindings, in
\* one transaction.
Update(q) ==
    /\ At(q, "update")
    /\ IF ~IsCurrent(q) THEN Goto(q, "conflict") /\ UNCHANGED course
       ELSE /\ req[q].payload.revision < MaxRevision
            /\ Committed(q, [req[q].payload EXCEPT !.revision = @ + 1])

\* The response: 200, 409 or an internal error.
Answer(q) ==
    /\ req[q].pc \in {"granted", "conflict", "unreadable"}
    /\ Finish(q)
    /\ UNCHANGED course

\* The request is cancelled or the database fails; its transaction is
\* rolled back.
Fail(q) ==
    /\ ~At(q, "idle")
    /\ Finish(q)
    /\ UNCHANGED course

---------------------------------------------------------------------------
Step(q) ==
    \/ Missing(q) \/ ReadRow(q) \/ ReadTable(q) \/ Unreadable(q)
    \/ Grant(q) \/ EditCopy(q) \/ Refuse(q) \/ Apply(q)
    \/ SelectCourse(q) \/ Insert(q) \/ Update(q) \/ Answer(q)

Next ==
    \E q \in Requests :
        Step(q) \/ Fail(q) \/ \E op \in OperationSet : Start(q, op)

Spec == Init /\ [][Next]_vars

---------------------------------------------------------------------------
(***************************************************************************)
(* Properties.                                                             *)
(***************************************************************************)
\* Every change takes effect as if at once, on the course as it is then and
\* by someone who may make it then, though each request decides on a copy
\* that may mix two courses and be older than the one it replaces.
Ledger == INSTANCE CourseLedger
ImplementsLedger == Ledger!Spec

\* What is stored can always be read again: the timeline agrees with the
\* bindings and never pins two lessons at once, and the owner is one of the
\* instructors.
StoredCourseLoads ==
    course # None =>
        /\ ValidTimeline(course)
        /\ \A now \in Times : Cardinality(ActiveWindows(course, now)) <= 1
        /\ course.owner_id \in course.instructor_ids

\* Only a change that was committed in the meantime makes a request end in
\* a conflict or in a course that does not validate.
FailureHasCause ==
    \A q \in Requests : req[q].pc \in {"conflict", "unreadable"} => req[q].overtaken

\* A student who was removed before asking, and not admitted since, gets no
\* session.
RemovedStaysOut ==
    \A q \in Requests :
        req[q].pc = "granted" /\ req[q].op.name = "session" => ~req[q].outsider
=============================================================================
