------------------------- MODULE CourseStoreProofs -------------------------
(***************************************************************************)
(* Theorems about CourseStore for any number of requests, users, lessons   *)
(* and revisions.  The argument is that what a request knows of the course *)
(* carries the revision of the row it has read first: either that is still *)
(* the stored revision, and then every table it has read is the stored     *)
(* one, or its change will be refused.                                     *)
(***************************************************************************)
EXTENDS CourseStore, FiniteSetTheorems, TLAPS

Good(c) == c \in Courses /\ ValidTimeline(c) /\ c.owner_id \in c.instructor_ids

PCs == {"row", "tables", "loaded", "select", "insert", "update",
        "granted", "conflict", "unreadable"}

\* A request that has not read a row yet, and one that has.
Waiting ==
    [pc : PCs, op : OperationSet, payload : Courses \cup {None},
     overtaken : BOOLEAN, outsider : BOOLEAN]

Reading ==
    [pc : PCs, op : OperationSet, payload : Courses \cup {None},
     overtaken : BOOLEAN, outsider : BOOLEAN,
     copy : Courses, todo : Seq({"enrolled_users", "instructor_ids", "pending_requests", "lessons"})]

\* The copy is the course, or it is older and the request was overtaken.
Reads(r, c) ==
    /\ r \in Reading /\ c # None
    /\ r.copy.owner_id \in r.copy.instructor_ids
    /\ r.outsider => Outside(r.copy, r.op.by)
    /\ r.copy.revision <= c.revision
    /\ r.payload # None => r.payload.revision <= r.copy.revision
    /\ r.copy.revision = c.revision \/ ~r.overtaken => r.copy = c

\* The document an administrator sends back is the course's, changed, or it
\* is older.
Edits(r, c) ==
    r.payload # None =>
        /\ r.op.name = "update" /\ c # None
        /\ r.payload.owner_id \in r.payload.instructor_ids
        /\ r.payload.revision <= c.revision
        /\ r.payload.revision = c.revision \/ ~r.overtaken =>
                r.payload = Edit(c, r.op.edit, r.op.user)

\* What a request is about to save is good, and it is what its operation
\* makes of the course unless its revision is out of date.
Decides(r, c) ==
    /\ Good(r.payload)
    /\ r.op.name = "create" =>
            /\ r.payload = NewCourse(r.op.user)
            /\ r.overtaken \/ c = None
            /\ r.pc = "update" => c # None
    /\ r.op.name # "create" =>
            /\ c # None /\ r.pc # "insert"
            /\ r.payload.revision <= c.revision
            /\ r.payload.revision = c.revision => r.payload \in Saves(c, r.op)
            /\ r.overtaken \/ r.payload.revision = c.revision

RequestInv(r, c) ==
    /\ r \in {Idle} \cup Waiting \cup Reading
    /\ r.pc # "idle" /\ r.outsider => Outside(c, r.op.by)
    /\ r.pc = "row" => Edits(r, c)
    /\ r.pc \in {"tables", "loaded"} => Reads(r, c) /\ Edits(r, c)
    /\ r.pc = "tables" => r.todo # <<>>
    /\ r.pc \in {"select", "insert", "update"} => Decides(r, c)
    /\ r.pc = "granted" /\ r.op.name = "session" => ~r.outsider
    /\ r.pc \in {"conflict", "unreadable"} => r.overtaken

IInv ==
    /\ course # None => Good(course)
    /\ req \in [Requests -> {Idle} \cup Waiting \cup Reading]
    /\ \A q \in Requests : RequestInv(req[q], course)

---------------------------------------------------------------------------
(***************************************************************************)
(* What the handlers save.                                                 *)
(***************************************************************************)
LEMMA NewCourseGood ==
    ASSUME NEW u \in Users
    PROVE  Good(NewCourse(u)) /\ NewCourse(u).revision = 0
BY DEF Good, NewCourse, Courses, ValidTimeline

\* Rosters and flags do not matter for the timeline.
LEMMA SameTimeline ==
    ASSUME NEW c, NEW d, ValidTimeline(c),
           d.lessons = c.lessons, d.lesson_timeline = c.lesson_timeline
    PROVE  ValidTimeline(d)
BY DEF ValidTimeline

LEMMA EditGood ==
    ASSUME NEW c \in Courses, c.owner_id \in c.instructor_ids, NEW u \in Users,
           NEW what \in {"restore", "admit", "owner"}
    PROVE  LET d == Edit(c, what, u)
           IN  d \in Courses /\ d.owner_id \in d.instructor_ids /\ d.revision = c.revision
<1>1. CASE what = "restore"
  BY <1>1 DEF Edit, Courses
<1>2. CASE what = "admit"
  BY <1>2 DEF Edit, Courses
<1>3. CASE what = "owner"
  BY <1>3 DEF Edit, Courses
<1>. QED
  BY <1>1, <1>2, <1>3

LEMMA ReplaceGood ==
    ASSUME NEW p \in Courses, p.owner_id \in p.instructor_ids, NEW c, Good(c), NEW by,
           NEW d \in ReplaceMetadata(p, c, by)
    PROVE  Good(d) /\ d.revision = p.revision
<1>1. d = [p EXCEPT !.lessons = c.lessons, !.lesson_timeline = c.lesson_timeline]
  BY DEF ReplaceMetadata, SaveIf
<1>2. /\ d \in Courses /\ d.owner_id \in d.instructor_ids /\ d.revision = p.revision
      /\ d.lessons = c.lessons /\ d.lesson_timeline = c.lesson_timeline
  BY <1>1 DEF Courses, Good
<1>. QED
  BY <1>2, SameTimeline DEF Good

\* A binding drops the windows of the lesson it binds.
LEMMA BindGood ==
    ASSUME NEW c, Good(c), NEW by, NEW l \in Lessons, NEW v \in Versions,
           NEW d \in BindLesson(c, by, l, v)
    PROVE  Good(d) /\ d.revision = c.revision
<1>1. d = [c EXCEPT !.lessons[l] = v, !.lesson_timeline = {w \in @ : w.lesson_id # l}]
  BY DEF BindLesson, SaveIf
<1>2. /\ d \in Courses /\ d.owner_id \in d.instructor_ids /\ d.revision = c.revision
      /\ d.lessons = [c.lessons EXCEPT ![l] = v]
      /\ d.lesson_timeline = {w \in c.lesson_timeline : w.lesson_id # l}
  BY <1>1 DEF Courses, Good
<1>3. c.lessons \in [Lessons -> Versions \cup {None}] /\ c.lesson_timeline \subseteq CourseLessonWindows
  BY DEF Courses, Good
<1>4. ValidTimeline(d)
  BY <1>2, <1>3 DEF ValidTimeline, Good, CourseLessonWindows
<1>. QED
  BY <1>2, <1>4 DEF Good

LEMMA TimelineGood ==
    ASSUME NEW c, Good(c), NEW by, NEW windows \in Timelines,
           NEW d \in UpdateTimeline(c, by, windows)
    PROVE  Good(d) /\ d.revision = c.revision
<1>1. d = [c EXCEPT !.lesson_timeline = windows] /\ ValidTimeline(d)
  BY DEF UpdateTimeline, SaveIf
<1>2. windows \subseteq CourseLessonWindows
  BY TimelineAssumption
<1>. QED
  BY <1>1, <1>2 DEF Good, Courses

\* Every operation saves a good course under the revision it has read.
LEMMA SavesGood ==
    ASSUME NEW c, Good(c), NEW op \in Operations, NEW d \in Saves(c, op)
    PROVE  Good(d) /\ d.revision = c.revision
<1>1. CASE op.name = "bind"
  BY <1>1, BindGood DEF Saves, Operations
<1>2. CASE op.name = "timeline"
  BY <1>2, TimelineGood DEF Saves, Operations
<1>3. CASE op.name = "update"
  <2>1. op.edit \in {"restore", "admit", "owner"} /\ op.user \in Users
    BY <1>3 DEF Operations
  <2>2. d \in ReplaceMetadata(Edit(c, op.edit, op.user), c, op.by)
    BY <1>3 DEF Saves
  <2>. QED
    BY <2>1, <2>2, EditGood, ReplaceGood DEF Good
<1>4. CASE op.name \in {"enroll", "approve", "remove", "add_instructor", "remove_instructor", "archive"}
  <2>1. op.by \in Users /\ (op.name \notin {"enroll", "archive"} => op.user \in Users)
    BY <1>4 DEF Operations
  <2>. DEFINE Kept == /\ d \in Courses /\ d.owner_id \in d.instructor_ids
                     /\ d.revision = c.revision
                     /\ d.lessons = c.lessons /\ d.lesson_timeline = c.lesson_timeline
  <2>. SUFFICES Kept
    BY SameTimeline DEF Good
  <2>2. CASE op.name = "enroll"
    <3>1. d = [c EXCEPT !.pending_requests = @ \cup {op.by}]
      BY <2>2 DEF Saves, SaveIf, RequestEnrollment
    <3>. QED
      BY <2>1, <3>1 DEF Good, Courses
  <2>3. CASE op.name = "approve"
    <3>1. d = [c EXCEPT !.pending_requests = @ \ {op.user}, !.enrolled_users = @ \cup {op.user}]
      BY <2>3 DEF Saves, SaveIf, ApproveStudent
    <3>2. op.user \in Users
      BY <2>1, <2>3
    <3>. QED
      BY <3>1, <3>2 DEF Good, Courses
  <2>4. CASE op.name = "remove"
    BY <2>1, <2>4 DEF Saves, Good, Courses, SaveIf, RemoveStudent
  <2>5. CASE op.name = "add_instructor"
    BY <2>1, <2>5 DEF Saves, Good, Courses, SaveIf, AddInstructor
  <2>6. CASE op.name = "remove_instructor"
    BY <2>1, <2>6 DEF Saves, Good, Courses, SaveIf, RemoveInstructor
  <2>7. CASE op.name = "archive"
    BY ZenonT(60), <2>1, <2>7 DEF Saves, Good, Courses, SaveIf, Archive
  <2>. QED
    BY <1>4, <2>2, <2>3, <2>4, <2>5, <2>6, <2>7
<1>5. CASE op.name \in {"view", "lessons", "session", "create"}
  BY <1>5 DEF Saves
<1>. QED
  BY <1>1, <1>2, <1>3, <1>4, <1>5 DEF Operations

---------------------------------------------------------------------------
(***************************************************************************)
(* Requests.                                                               *)
(***************************************************************************)
TableNames == {"enrolled_users", "instructor_ids", "pending_requests", "lessons"}

LEMMA Moved ==
    ASSUME NEW r \in Waiting \cup Reading, NEW to \in PCs
    PROVE  LET n == [r EXCEPT !.pc = to]
           IN  /\ n \in Waiting \cup Reading /\ n.pc = to /\ n.op = r.op
               /\ n.payload = r.payload /\ n.overtaken = r.overtaken /\ n.outsider = r.outsider
BY DEF Waiting, Reading

LEMMA MovedWith ==
    ASSUME NEW r \in Waiting \cup Reading, NEW to \in PCs, NEW c \in Courses
    PROVE  LET n == [r EXCEPT !.pc = to, !.payload = c]
           IN  /\ n \in Waiting \cup Reading /\ n.pc = to /\ n.op = r.op
               /\ n.payload = c /\ n.overtaken = r.overtaken /\ n.outsider = r.outsider
BY DEF Waiting, Reading

LEMMA Typed ==
    ASSUME IInv, NEW q \in Requests, ~At(q, "idle")
    PROVE  /\ req[q] \in Waiting \cup Reading /\ RequestInv(req[q], course)
           /\ req[q].pc \in PCs /\ req[q].op \in OperationSet /\ req[q].op \in Operations
           /\ req[q].overtaken \in BOOLEAN /\ req[q].outsider \in BOOLEAN
BY OperationAssumption DEF IInv, At, Idle, Waiting, Reading

\* Nothing but the request q moves.
LEMMA StepKeeps ==
    ASSUME IInv, NEW q \in Requests, NEW n, UNCHANGED course,
           req' = [req EXCEPT ![q] = n], RequestInv(n, course)
    PROVE  IInv'
<1>1. /\ n \in {Idle} \cup Waiting \cup Reading
      /\ req' \in [Requests -> {Idle} \cup Waiting \cup Reading]
      /\ req'[q] = n /\ \A p \in Requests : p # q => req'[p] = req[p]
  BY DEF IInv, RequestInv
<1>2. \A p \in Requests : RequestInv(req'[p], course)
  BY <1>1 DEF IInv
<1>. QED
  BY <1>1, <1>2 DEF IInv, RequestInv, Reads, Edits, Decides

LEMMA IdleInv == RequestInv(Idle, course)
BY DEF RequestInv, Idle

LEMMA FinishKeeps ==
    ASSUME IInv, NEW q \in Requests, Finish(q), UNCHANGED course
    PROVE  IInv'
BY StepKeeps, IdleInv DEF Finish

LEMMA StartKeeps ==
    ASSUME IInv, NEW q \in Requests, NEW op \in OperationSet, Start(q, op)
    PROVE  IInv'
<1>. DEFINE n == [pc |-> "row", op |-> op, payload |-> None,
                  overtaken |-> FALSE, outsider |-> Outside(course, op.by)]
<1>1. Outside(course, op.by) \in BOOLEAN
  BY DEF Outside
<1>2. /\ n \in Waiting /\ n.pc = "row" /\ n.op = op /\ n.payload = None
      /\ n.overtaken = FALSE /\ n.outsider = Outside(course, op.by)
  BY <1>1 DEF Waiting, PCs
<1>3. req' = [req EXCEPT ![q] = n] /\ UNCHANGED course
  BY DEF Start
<1>. HIDE DEF n
<1>4. RequestInv(n, course)
  BY <1>2 DEF RequestInv, Edits
<1>. QED
  BY <1>3, <1>4, StepKeeps

LEMMA MissingKeeps ==
    ASSUME IInv, NEW q \in Requests, Missing(q)
    PROVE  IInv'
<1>1. CASE req[q].op.name # "create"
  BY <1>1, FinishKeeps DEF Missing
<1>2. CASE req[q].op.name = "create"
  <2>. DEFINE c == NewCourse(req[q].op.user)
              n == [req[q] EXCEPT !.pc = "select", !.payload = c]
  <2>1. /\ req[q] \in Waiting \cup Reading /\ RequestInv(req[q], course)
        /\ req[q].op \in Operations /\ req[q].pc = "row" /\ course = None
    BY Typed DEF Missing, At
  <2>2. req[q].op.user \in Users
    BY <1>2, <2>1 DEF Operations
  <2>3. Good(c)
    BY <2>2, NewCourseGood
  <2>. HIDE DEF c
  <2>4. /\ n \in Waiting \cup Reading /\ n.pc = "select" /\ n.op = req[q].op
        /\ n.payload = c /\ n.overtaken = req[q].overtaken /\ n.outsider = req[q].outsider
    BY ZenonT(60), <2>1, <2>3, MovedWith DEF Good, PCs
  <2>5. req' = [req EXCEPT ![q] = n] /\ UNCHANGED course
    BY <1>2 DEF Missing, c
  <2>. HIDE DEF n
  <2>6. RequestInv(n, course)
    BY <1>2, <2>1, <2>3, <2>4 DEF RequestInv, Decides, c
  <2>. QED
    BY <2>5, <2>6, StepKeeps
<1>. QED
  BY <1>1, <1>2

\* The row is read: the copy is the course.
LEMMA ReadRowKeeps ==
    ASSUME IInv, NEW q \in Requests, ReadRow(q)
    PROVE  IInv'
<1>. DEFINE r == req[q]
            n == [pc |-> "tables", op |-> r.op, payload |-> r.payload,
                  overtaken |-> r.overtaken /\ r.payload # None,
                  outsider |-> r.outsider, copy |-> course, todo |-> Tables]
<1>1. /\ r \in Waiting \cup Reading /\ RequestInv(r, course)
      /\ r.pc = "row" /\ course # None /\ Good(course)
  BY Typed DEF ReadRow, At, IInv
<1>2. Tables \in Seq(TableNames) /\ Tables # <<>>
  BY DEF Tables, TableNames
<1>3. /\ n \in Reading /\ n.pc = "tables" /\ n.op = r.op /\ n.payload = r.payload
      /\ n.overtaken = (r.overtaken /\ r.payload # None)
      /\ n.outsider = r.outsider /\ n.copy = course /\ n.todo = Tables
  BY <1>1, <1>2 DEF Waiting, Reading, PCs, Good, TableNames
<1>4. req' = [req EXCEPT ![q] = n] /\ UNCHANGED course
  BY DEF ReadRow
<1>5. course.revision \in Nat
  BY <1>1 DEF Good, Courses
<1>. HIDE DEF n, r
<1>6. Edits(r, course) /\ (r.outsider => Outside(course, r.op.by))
  BY <1>1 DEF RequestInv
<1>8. Edits(n, course)
  BY <1>3, <1>6 DEF Edits
<1>9. n.payload # None => n.payload.revision <= course.revision
  BY <1>3, <1>6 DEF Edits
<1>10. Reads(n, course)
  BY <1>1, <1>3, <1>5, <1>6, <1>9 DEF Reads, Good
<1>7. RequestInv(n, course)
  BY <1>1, <1>2, <1>3, <1>6, <1>8, <1>10 DEF RequestInv
<1>. QED
  BY <1>4, <1>7, StepKeeps

\* A table is read: a copy that was the course stays the course.
LEMMA SelectedCopy ==
    ASSUME NEW c \in Courses, c.owner_id \in c.instructor_ids,
           NEW d \in Courses, d.owner_id \in d.instructor_ids, NEW table \in TableNames
    PROVE  LET x == IF table = "instructor_ids" THEN c[table] \cup {d.owner_id} ELSE c[table]
               e == [d EXCEPT ![table] = x]
           IN  /\ e \in Courses /\ e.owner_id \in e.instructor_ids /\ e.revision = d.revision
               /\ d = c => e = c
               /\ \A u : Outside(c, u) /\ Outside(d, u) => Outside(e, u)
<1>. DEFINE x == IF table = "instructor_ids" THEN c[table] \cup {d.owner_id} ELSE c[table]
            e == [d EXCEPT ![table] = x]
            Kept == /\ e \in Courses /\ e.owner_id \in e.instructor_ids /\ e.revision = d.revision
                    /\ d = c => e = c
                    /\ \A u : Outside(c, u) /\ Outside(d, u) => Outside(e, u)
<1>. SUFFICES Kept
  OBVIOUS
<1>0. c # None /\ d # None
  BY StoredAssumption
<1>1. CASE table = "enrolled_users"
  <2>1. e = [d EXCEPT !.enrolled_users = c.enrolled_users]
    BY <1>1
  <2>. HIDE DEF e
  <2>2. e \in Courses /\ e.owner_id \in e.instructor_ids /\ e.revision = d.revision
    BY <2>1 DEF Courses
  <2>3. d = c => e = c
    BY <2>1 DEF Courses
  <2>4. e.enrolled_users = c.enrolled_users /\ e.instructor_ids = d.instructor_ids
    BY <2>1 DEF Courses
  <2>. QED
    BY <1>0, <2>2, <2>3, <2>4 DEF Outside
<1>2. CASE table = "instructor_ids"
  <2>1. e = [d EXCEPT !.instructor_ids = c.instructor_ids \cup {d.owner_id}]
    BY <1>2
  <2>. HIDE DEF e
  <2>2. e \in Courses /\ e.owner_id \in e.instructor_ids /\ e.revision = d.revision
    BY <2>1 DEF Courses
  <2>3. d = c => e = c
    <3>. SUFFICES ASSUME d = c PROVE e = c
      OBVIOUS
    <3>1. c.instructor_ids \cup {d.owner_id} = c.instructor_ids
      OBVIOUS
    <3>. QED
      BY <2>1, <3>1 DEF Courses
  <2>4. e.enrolled_users = d.enrolled_users /\ e.instructor_ids = c.instructor_ids \cup {d.owner_id}
    BY <2>1 DEF Courses
  <2>. QED
    BY <1>0, <2>2, <2>3, <2>4 DEF Outside
<1>3. CASE table = "pending_requests"
  <2>1. e = [d EXCEPT !.pending_requests = c.pending_requests]
    BY <1>3
  <2>. HIDE DEF e
  <2>2. e \in Courses /\ e.owner_id \in e.instructor_ids /\ e.revision = d.revision
    BY <2>1 DEF Courses
  <2>3. d = c => e = c
    BY <2>1 DEF Courses
  <2>4. e.enrolled_users = d.enrolled_users /\ e.instructor_ids = d.instructor_ids
    BY <2>1 DEF Courses
  <2>. QED
    BY <1>0, <2>2, <2>3, <2>4 DEF Outside
<1>4. CASE table = "lessons"
  <2>1. e = [d EXCEPT !.lessons = c.lessons]
    BY <1>4
  <2>. HIDE DEF e
  <2>2. e \in Courses /\ e.owner_id \in e.instructor_ids /\ e.revision = d.revision
    BY <2>1 DEF Courses
  <2>3. d = c => e = c
    BY <2>1 DEF Courses
  <2>4. e.enrolled_users = d.enrolled_users /\ e.instructor_ids = d.instructor_ids
    BY <2>1 DEF Courses
  <2>. QED
    BY <1>0, <2>2, <2>3, <2>4 DEF Outside
<1>. QED
  BY <1>1, <1>2, <1>3, <1>4 DEF TableNames

LEMMA ReadTableKeeps ==
    ASSUME IInv, NEW q \in Requests, ReadTable(q)
    PROVE  IInv'
<1>. DEFINE r     == req[q]
            table == Head(r.todo)
            rest  == Tail(r.todo)
            to    == IF rest = <<>> THEN "loaded" ELSE "tables"
            x     == Selected(r.copy, table)
            e     == [r.copy EXCEPT ![table] = x]
            n     == [r EXCEPT !.copy[table] = x, !.todo = rest, !.pc = to]
<1>1. /\ RequestInv(r, course) /\ r.pc = "tables" /\ r.pc # "idle"
      /\ Reads(r, course) /\ Edits(r, course) /\ r.todo # <<>>
  BY Typed DEF ReadTable, At, RequestInv
<1>2. /\ r \in Reading /\ r.copy \in Courses /\ r.copy.owner_id \in r.copy.instructor_ids
      /\ r.todo \in Seq(TableNames) /\ course # None /\ Good(course)
  BY <1>1 DEF Reads, Reading, TableNames, IInv
<1>3. table \in TableNames /\ rest \in Seq(TableNames)
  BY <1>1, <1>2
<1>4. /\ e \in Courses /\ e.owner_id \in e.instructor_ids /\ e.revision = r.copy.revision
      /\ r.copy = course => e = course
      /\ \A u : Outside(course, u) /\ Outside(r.copy, u) => Outside(e, u)
  BY <1>2, <1>3, SelectedCopy DEF Good, Selected
<1>5. req' = [req EXCEPT ![q] = n] /\ UNCHANGED course
  BY DEF ReadTable
<1>6. n = [r EXCEPT !.copy = e, !.todo = rest, !.pc = to]
  BY <1>2 DEF Reading
<1>. HIDE DEF e, x, n, r, rest, table
<1>7. /\ n \in Reading /\ n.pc = to /\ n.op = r.op /\ n.payload = r.payload
      /\ n.overtaken = r.overtaken /\ n.outsider = r.outsider
      /\ n.copy = e /\ n.todo = rest
  BY <1>2, <1>3, <1>4, <1>6 DEF Reading, PCs, TableNames
<1>8. Reads(n, course)
  BY <1>1, <1>2, <1>4, <1>7 DEF Reads, RequestInv
<1>9. Edits(n, course)
  BY <1>1, <1>7 DEF Edits
<1>10. r.outsider => Outside(course, r.op.by)
  BY <1>1 DEF RequestInv
<1>11. RequestInv(n, course)
  BY <1>7, <1>8, <1>9, <1>10 DEF RequestInv
<1>. QED
  BY <1>5, <1>11, StepKeeps

\* Only a mixed copy does not validate, and it takes a commit to mix it.
LEMMA LoadedFacts ==
    ASSUME IInv, NEW q \in Requests, At(q, "loaded")
    PROVE  /\ req[q] \in Waiting \cup Reading /\ RequestInv(req[q], course)
           /\ Reads(req[q], course) /\ Edits(req[q], course)
           /\ req[q].op \in Operations /\ course # None /\ Good(course)
           /\ req[q].overtaken \in BOOLEAN /\ req[q].copy \in Courses
           /\ req[q].pc # "idle"
BY Typed DEF At, RequestInv, Reads, Reading, IInv

LEMMA UnreadableKeeps ==
    ASSUME IInv, NEW q \in Requests, Unreadable(q)
    PROVE  IInv'
<1>. DEFINE r == req[q]
            n == [r EXCEPT !.pc = "unreadable"]
<1>1. /\ r \in Waiting \cup Reading /\ RequestInv(r, course) /\ Reads(r, course)
      /\ Good(course) /\ r.pc # "idle" /\ r.overtaken \in BOOLEAN
  BY LoadedFacts DEF Unreadable
<1>2. ~ValidTimeline(r.copy) /\ req' = [req EXCEPT ![q] = n] /\ UNCHANGED course
  BY DEF Unreadable, Goto
<1>3. r.overtaken
  BY <1>1, <1>2 DEF Reads, Good
<1>4. /\ n \in Waiting \cup Reading /\ n.pc = "unreadable" /\ n.op = r.op
      /\ n.overtaken = r.overtaken /\ n.outsider = r.outsider
  BY <1>1, Moved DEF PCs
<1>. HIDE DEF n, r
<1>5. RequestInv(n, course)
  BY <1>1, <1>3, <1>4 DEF RequestInv
<1>. QED
  BY <1>2, <1>5, StepKeeps

LEMMA GrantKeeps ==
    ASSUME IInv, NEW q \in Requests, Grant(q)
    PROVE  IInv'
<1>. DEFINE r == req[q]
            n == [r EXCEPT !.pc = "granted"]
<1>1. CASE ~Grants(r.copy, r.op.name, r.op.by)
  BY <1>1, FinishKeeps DEF Grant
<1>2. CASE Grants(r.copy, r.op.name, r.op.by)
  <2>1. /\ r \in Waiting \cup Reading /\ RequestInv(r, course) /\ Reads(r, course)
        /\ r.pc # "idle" /\ course # None /\ r.copy \in Courses
    BY LoadedFacts DEF Grant, Loaded
  <2>2. req' = [req EXCEPT ![q] = n] /\ UNCHANGED course
    BY <1>2 DEF Grant, Goto
  <2>3. r.op.name = "session" => ~r.outsider
    <3>1. r.op.name = "session" => MayUseSession(r.copy, r.op.by)
      BY <1>2 DEF Grants
    <3>2. r.copy # None
      BY <2>1, StoredAssumption
    <3>. QED
      BY <2>1, <3>1, <3>2 DEF Reads, Outside, MayUseSession
  <2>4. /\ n \in Waiting \cup Reading /\ n.pc = "granted" /\ n.op = r.op
        /\ n.overtaken = r.overtaken /\ n.outsider = r.outsider
    BY <2>1, Moved DEF PCs
  <2>. HIDE DEF n, r
  <2>5. RequestInv(n, course)
    BY <2>1, <2>3, <2>4 DEF RequestInv
  <2>. QED
    BY <2>2, <2>5, StepKeeps
<1>. QED
  BY <1>1, <1>2
\* An administrator's document, made of what was read.
LEMMA EditCopyKeeps ==
    ASSUME IInv, NEW q \in Requests, EditCopy(q)
    PROVE  IInv'
<1>. DEFINE r == req[q]
            d == Edit(r.copy, r.op.edit, r.op.user)
            n == [r EXCEPT !.pc = "row", !.payload = d]
<1>1. /\ r \in Waiting \cup Reading /\ RequestInv(r, course) /\ Reads(r, course)
      /\ r.pc # "idle" /\ course # None /\ Good(course) /\ r.copy \in Courses
      /\ r.op \in Operations
  BY LoadedFacts DEF EditCopy, Loaded
<1>2. r.op.name = "update" /\ req' = [req EXCEPT ![q] = n] /\ UNCHANGED course
  BY DEF EditCopy
<1>3. r.op.edit \in {"restore", "admit", "owner"} /\ r.op.user \in Users
  BY <1>1, <1>2 DEF Operations
<1>4. r.copy.owner_id \in r.copy.instructor_ids /\ r.copy.revision <= course.revision
      /\ (r.copy.revision = course.revision \/ ~r.overtaken => r.copy = course)
  BY <1>1 DEF Reads
<1>5. d \in Courses /\ d.owner_id \in d.instructor_ids /\ d.revision = r.copy.revision
  BY <1>1, <1>3, <1>4, EditGood
<1>6. d.revision = course.revision \/ ~r.overtaken => d = Edit(course, r.op.edit, r.op.user)
  BY <1>4, <1>5
<1>. HIDE DEF d
<1>7. /\ n \in Waiting \cup Reading /\ n.pc = "row" /\ n.op = r.op /\ n.payload = d
      /\ n.overtaken = r.overtaken /\ n.outsider = r.outsider
  BY <1>1, <1>5 DEF Waiting, Reading, PCs
<1>. HIDE DEF n, r
<1>8. Edits(n, course)
  BY <1>1, <1>2, <1>4, <1>5, <1>6, <1>7 DEF Edits
<1>9. RequestInv(n, course)
  BY <1>1, <1>7, <1>8 DEF RequestInv
<1>. QED
  BY <1>2, <1>9, StepKeeps

\* What is decided is what the operation makes of the course, or it carries
\* a revision that is out of date.
LEMMA DecidedFacts ==
    ASSUME IInv, NEW q \in Requests, Deciding(q), NEW d \in Decided(q)
    PROVE  /\ Good(d) /\ req[q].op.name # "create"
           /\ d.revision <= course.revision
           /\ d.revision = course.revision => d \in Saves(course, req[q].op)
           /\ req[q].overtaken \/ d.revision = course.revision
<1>. DEFINE r == req[q]
<1>1. /\ RequestInv(r, course) /\ Reads(r, course) /\ Edits(r, course) /\ r.overtaken \in BOOLEAN
      /\ course # None /\ Good(course) /\ r.copy \in Courses /\ r.op \in Operations
  BY LoadedFacts DEF Deciding, Loaded
<1>2. /\ Good(r.copy) /\ r.copy.revision <= course.revision
      /\ (r.payload # None => r.payload.revision <= r.copy.revision)
      /\ (r.copy.revision = course.revision \/ ~r.overtaken => r.copy = course)
  BY <1>1 DEF Reads, Good, Deciding, Loaded
<1>3. r.copy.revision \in Nat /\ course.revision \in Nat
  BY <1>1 DEF Good, Courses
<1>4. CASE r.op.name # "update"
  <2>1. d \in Saves(r.copy, r.op)
    BY <1>4 DEF Decided
  <2>2. r.op.name # "create"
    BY <2>1 DEF Saves
  <2>3. Good(d) /\ d.revision = r.copy.revision
    BY <1>1, <1>2, <2>1, SavesGood
  <2>. QED
    BY <1>1, <1>2, <2>1, <2>2, <2>3
<1>5. CASE r.op.name = "update"
  <2>1. r.payload # None /\ d \in ReplaceMetadata(r.payload, r.copy, r.op.by)
    BY <1>5 DEF Decided, Deciding
  <2>2. /\ r.payload.owner_id \in r.payload.instructor_ids
        /\ (r.payload.revision = course.revision \/ ~r.overtaken =>
                r.payload = Edit(course, r.op.edit, r.op.user))
    BY <1>1, <2>1 DEF Edits
  <2>3. r.payload \in Courses
    BY <1>1, <2>1 DEF Reads, Reading
  <2>4. Good(d) /\ d.revision = r.payload.revision
    BY <1>2, <2>1, <2>2, <2>3, ReplaceGood
  <2>5. r.payload.revision \in Nat
    BY <2>3 DEF Courses
  <2>6. ASSUME d.revision = course.revision
        PROVE  d \in Saves(course, r.op)
    <3>1. r.copy = course /\ r.payload = Edit(course, r.op.edit, r.op.user)
      BY <1>2, <1>3, <2>1, <2>2, <2>4, <2>5, <2>6
    <3>. QED
      BY <1>5, <2>1, <3>1 DEF Saves
  <2>7. ASSUME ~r.overtaken
        PROVE  d.revision = course.revision
    <3>1. r.payload = Edit(course, r.op.edit, r.op.user)
      BY <2>2, <2>7
    <3>2. r.op.edit \in {"restore", "admit", "owner"} /\ r.op.user \in Users
      BY <1>1, <1>5 DEF Operations
    <3>3. Edit(course, r.op.edit, r.op.user).revision = course.revision
      BY <1>1, <3>2, EditGood DEF Good
    <3>. QED
      BY <2>4, <3>1, <3>3
  <2>. QED
    BY <1>2, <1>3, <1>5, <2>1, <2>4, <2>5, <2>6, <2>7
<1>. QED
  BY <1>4, <1>5

LEMMA ApplyKeeps ==
    ASSUME IInv, NEW q \in Requests, Apply(q)
    PROVE  IInv'
<1>. DEFINE r == req[q]
<1>1. PICK d \in Decided(q) : req' = [req EXCEPT ![q].pc = "select", ![q].payload = d]
  BY DEF Apply
<1>. DEFINE n == [r EXCEPT !.pc = "select", !.payload = d]
<1>2. /\ r \in Waiting \cup Reading /\ RequestInv(r, course) /\ r.pc # "idle" /\ course # None
  BY LoadedFacts DEF Apply, Deciding, Loaded
<1>3. /\ Good(d) /\ r.op.name # "create" /\ d.revision <= course.revision
      /\ (d.revision = course.revision => d \in Saves(course, r.op))
      /\ (r.overtaken \/ d.revision = course.revision)
  BY DecidedFacts DEF Apply
<1>4. req' = [req EXCEPT ![q] = n] /\ UNCHANGED course
  BY <1>1 DEF Apply
<1>5. /\ n \in Waiting \cup Reading /\ n.pc = "select" /\ n.op = r.op /\ n.payload = d
      /\ n.overtaken = r.overtaken /\ n.outsider = r.outsider
  <2>1. d \in Courses
    BY <1>3 DEF Good
  <2>. QED
    BY <1>2, <2>1 DEF Waiting, Reading, PCs
<1>. HIDE DEF n, r
<1>6. Decides(n, course)
  BY <1>2, <1>3, <1>5 DEF Decides
<1>7. RequestInv(n, course)
  BY <1>2, <1>5, <1>6 DEF RequestInv
<1>. QED
  BY <1>4, <1>7, StepKeeps

LEMMA SelectCourseKeeps ==
    ASSUME IInv, NEW q \in Requests, SelectCourse(q)
    PROVE  IInv'
<1>. DEFINE r  == req[q]
            to == IF course = None THEN "insert" ELSE "update"
            n  == [r EXCEPT !.pc = to]
<1>1. /\ r \in Waiting \cup Reading /\ RequestInv(r, course) /\ r.pc # "idle"
      /\ r.pc = "select"
  BY Typed DEF SelectCourse, At
<1>2. req' = [req EXCEPT ![q] = n] /\ UNCHANGED course
  BY DEF SelectCourse, Goto
<1>. HIDE DEF to
<1>3. /\ n \in Waiting \cup Reading /\ n.pc = to /\ n.op = r.op /\ n.payload = r.payload
      /\ n.overtaken = r.overtaken /\ n.outsider = r.outsider
  <2>1. to \in PCs
    BY DEF PCs, to
  <2>. QED
    BY <1>1, <2>1, Moved
<1>. USE DEF to
<1>. HIDE DEF n, r
<1>4. Decides(n, course)
  BY <1>1, <1>3 DEF Decides, RequestInv
<1>5. RequestInv(n, course)
  BY <1>1, <1>3, <1>4 DEF RequestInv
<1>. QED
  BY <1>2, <1>5, StepKeeps

\* A conflict is the answer of somebody who was overtaken.
LEMMA ConflictKeeps ==
    ASSUME IInv, NEW q \in Requests, UNCHANGED course, Goto(q, "conflict"),
           \/ At(q, "insert") /\ course # None
           \/ At(q, "update") /\ ~IsCurrent(q)
    PROVE  IInv'
<1>. DEFINE r == req[q]
            n == [r EXCEPT !.pc = "conflict"]
<1>1. /\ r \in Waiting \cup Reading /\ RequestInv(r, course) /\ r.pc # "idle"
      /\ r.pc \in {"insert", "update"} /\ Decides(r, course) /\ r.overtaken \in BOOLEAN
  BY Typed DEF At, RequestInv
<1>2. r.overtaken
  BY <1>1 DEF Decides, At, IsCurrent
<1>3. req' = [req EXCEPT ![q] = n]
  BY DEF Goto
<1>4. /\ n \in Waiting \cup Reading /\ n.pc = "conflict" /\ n.op = r.op
      /\ n.overtaken = r.overtaken /\ n.outsider = r.outsider
  BY <1>1, Moved DEF PCs
<1>. HIDE DEF n, r
<1>5. RequestInv(n, course)
  BY <1>1, <1>2, <1>4 DEF RequestInv
<1>. QED
  BY <1>3, <1>5, StepKeeps
\* A commit makes what the others know out of date.
LEMMA CommittedKeeps ==
    ASSUME IInv, NEW q \in Requests, NEW c, Good(c), Committed(q, c),
           course # None => c.revision = course.revision + 1
    PROVE  IInv'
<1>1. c \in Courses /\ c # None /\ c.revision \in Nat
  BY StoredAssumption DEF Good, Courses
<1>2. course # None => course \in Courses /\ course.revision \in Nat /\ course.revision < c.revision
  BY <1>1 DEF IInv, Good, Courses
<1>3. course' = c
  BY DEF Committed
<1>4. ASSUME NEW p \in Requests
      PROVE  /\ req'[p] \in {Idle} \cup Waiting \cup Reading
             /\ RequestInv(req'[p], c)
  <2>1. CASE p = q \/ At(p, "idle")
    <3>1. req'[p] = Idle
      BY <2>1 DEF Committed
    <3>. QED
      BY <3>1 DEF RequestInv, Idle
  <2>2. CASE ~(p = q \/ At(p, "idle"))
    <3>. DEFINE r == req[p]
                o == r.outsider /\ Outside(c, r.op.by)
                n == [r EXCEPT !.overtaken = TRUE, !.outsider = o]
    <3>1. req'[p] = n
      BY <2>2 DEF Committed
    <3>2. r \in Waiting \cup Reading /\ RequestInv(r, course) /\ r.pc # "idle"
      BY <2>2, Typed DEF At
    <3>3. o \in BOOLEAN /\ (o => r.outsider) /\ (o => Outside(c, r.op.by))
      OBVIOUS
    <3>. HIDE DEF n, r, o
    <3>4. /\ n \in Waiting \cup Reading
          /\ n.pc = r.pc /\ n.op = r.op /\ n.payload = r.payload
          /\ n.overtaken = TRUE /\ n.outsider = o
          /\ (r \in Reading => n \in Reading /\ n.copy = r.copy /\ n.todo = r.todo)
      BY <3>2, <3>3 DEF Waiting, Reading, n
    <3>5. (r.payload # None => r.payload.revision \in Nat) /\ (r \in Reading => r.copy.revision \in Nat)
      BY <3>2 DEF Waiting, Reading, Courses
    <3>6. Edits(r, course) => Edits(n, c)
      BY <1>1, <1>2, <3>4, <3>5 DEF Edits
    <3>7. Reads(r, course) => Reads(n, c)
      BY <1>1, <1>2, <3>3, <3>4, <3>5 DEF Reads
    <3>8. Decides(r, course) => Decides(n, c)
      <4>1. Good(r.payload) => r.payload # None
        BY StoredAssumption DEF Good
      <4>. QED
        BY <1>1, <1>2, <3>4, <3>5, <4>1 DEF Decides
    <3>9. r.pc = "tables" => n.todo # <<>>
      BY <3>2, <3>4 DEF RequestInv, Reads
    <3>10. r.pc = "granted" /\ r.op.name = "session" => ~o
      BY <3>2, <3>3 DEF RequestInv
    <3>11. RequestInv(n, c)
      BY <3>2, <3>3, <3>4, <3>6, <3>7, <3>8, <3>9, <3>10 DEF RequestInv
    <3>. QED
      BY <3>1, <3>4, <3>11
  <2>. QED
    BY <2>1, <2>2
<1>5. req' \in [Requests -> {Idle} \cup Waiting \cup Reading]
  BY <1>4 DEF Committed
<1>. QED
  BY <1>3, <1>4, <1>5 DEF IInv, RequestInv, Reads, Edits, Decides

LEMMA InsertKeeps ==
    ASSUME IInv, NEW q \in Requests, Insert(q)
    PROVE  IInv'
<1>1. CASE course # None
  BY <1>1, ConflictKeeps DEF Insert
<1>2. CASE course = None
  <2>1. Good(req[q].payload)
    BY Typed DEF Insert, At, RequestInv, Decides
  <2>. QED
    BY <1>2, <2>1, CommittedKeeps DEF Insert
<1>. QED
  BY <1>1, <1>2

\* What an update replaces, and with what.
LEMMA UpdateFacts ==
    ASSUME IInv, NEW q \in Requests, Update(q), IsCurrent(q)
    PROVE  LET d == [req[q].payload EXCEPT !.revision = course.revision + 1]
           IN  /\ Committed(q, d) /\ course' = d /\ Good(d) /\ d.revision = course.revision + 1
               /\ course # None /\ Good(course) /\ req[q].op \in OperationSet
               /\ req[q].op \in Operations
               /\ IF req[q].op.name = "create"
                  THEN course.revision = 0 /\ req[q].payload = NewCourse(req[q].op.user)
                  ELSE req[q].payload \in Saves(course, req[q].op)
<1>. DEFINE r == req[q]
            d == [r.payload EXCEPT !.revision = course.revision + 1]
<1>1. /\ Decides(r, course) /\ r.op \in OperationSet /\ r.op \in Operations
      /\ r.pc = "update"
  BY Typed DEF Update, At, RequestInv
<1>2. r.payload.revision = course.revision
  BY DEF IsCurrent
<1>3. Good(r.payload)
  BY <1>1 DEF Decides
<1>4. course # None /\ Good(course)
  BY <1>1 DEF Decides, IInv
<1>5. /\ d \in Courses /\ d.owner_id \in d.instructor_ids /\ d.revision = course.revision + 1
      /\ d.lessons = r.payload.lessons /\ d.lesson_timeline = r.payload.lesson_timeline
  BY <1>2, <1>3 DEF Good, Courses
<1>6. Good(d)
  BY <1>3, <1>5, SameTimeline DEF Good
<1>7. Committed(q, d)
  <2>1. Committed(q, [r.payload EXCEPT !.revision = r.payload.revision + 1])
    BY <1>3 DEF Update, Good, Courses
  <2>. QED
    BY <1>2, <2>1
<1>8. IF r.op.name = "create"
      THEN course.revision = 0 /\ r.payload = NewCourse(r.op.user)
      ELSE r.payload \in Saves(course, r.op)
  <2>1. CASE r.op.name = "create"
    <3>1. r.op.user \in Users
      BY <1>1, <2>1 DEF Operations
    <3>. QED
      BY <1>1, <1>2, <2>1, <3>1, NewCourseGood DEF Decides
  <2>2. CASE r.op.name # "create"
    BY <1>1, <1>2, <2>2 DEF Decides
  <2>. QED
    BY <2>1, <2>2
<1>. QED
  BY <1>1, <1>4, <1>5, <1>6, <1>7, <1>8 DEF Committed

LEMMA UpdateKeeps ==
    ASSUME IInv, NEW q \in Requests, Update(q)
    PROVE  IInv'
<1>1. CASE IsCurrent(q)
  BY <1>1, UpdateFacts, CommittedKeeps
<1>2. CASE ~IsCurrent(q)
  BY <1>2, ConflictKeeps DEF Update
<1>. QED
  BY <1>1, <1>2

---------------------------------------------------------------------------
(***************************************************************************)
(* The invariant.                                                          *)
(***************************************************************************)
LEMMA InitInv == Init => IInv
<1>. SUFFICES ASSUME Init PROVE IInv
  OBVIOUS
<1>1. course # None => Good(course)
  BY StoredAssumption DEF Init, Good
<1>2. \A q \in Requests : req[q] = Idle /\ RequestInv(req[q], course)
  BY IdleInv DEF Init
<1>. QED
  BY <1>1, <1>2 DEF Init, IInv

LEMMA NextInv == IInv /\ [Next]_vars => IInv'
<1>. SUFFICES ASSUME IInv, [Next]_vars PROVE IInv'
  OBVIOUS
<1>1. CASE UNCHANGED vars
  BY <1>1 DEF vars, IInv, RequestInv, Reads, Edits, Decides
<1>2. ASSUME NEW q \in Requests, NEW op \in OperationSet, Start(q, op)
      PROVE  IInv'
  BY <1>2, StartKeeps
<1>3. ASSUME NEW q \in Requests, Refuse(q) \/ Answer(q) \/ Fail(q)
      PROVE  IInv'
  BY <1>3, FinishKeeps DEF Refuse, Answer, Fail
<1>4. ASSUME NEW q \in Requests, Missing(q) \/ ReadRow(q) \/ ReadTable(q)
      PROVE  IInv'
  BY <1>4, MissingKeeps, ReadRowKeeps, ReadTableKeeps
<1>5. ASSUME NEW q \in Requests, Unreadable(q) \/ Grant(q) \/ EditCopy(q) \/ Apply(q)
      PROVE  IInv'
  BY <1>5, UnreadableKeeps, GrantKeeps, EditCopyKeeps, ApplyKeeps
<1>6. ASSUME NEW q \in Requests, SelectCourse(q) \/ Insert(q) \/ Update(q)
      PROVE  IInv'
  BY <1>6, SelectCourseKeeps, InsertKeeps, UpdateKeeps
<1>. QED
  BY <1>1, <1>2, <1>3, <1>4, <1>5, <1>6 DEF Next, Step

\* Whatever requests do, the stored course is good and everybody at work
\* either knows it or will be told that it has changed.
THEOREM StoreInvariance == Spec => []IInv
BY InitInv, NextInv, PTL DEF Spec

\* What save_course stores can be read again: the timeline agrees with the
\* bindings, pins one lesson at a time, and the owner is an instructor.
THEOREM StoredCourseLoadsHolds == Spec => []StoredCourseLoads
<1>1. ASSUME NEW c, Good(c), NEW now \in Times
      PROVE  Cardinality(ActiveWindows(c, now)) <= 1
  <2>. DEFINE A == ActiveWindows(c, now)
  <2>1. c.lesson_timeline \subseteq CourseLessonWindows
    BY <1>1 DEF Good, Courses
  <2>2. \A v, w \in A : v = w
    <3>. SUFFICES ASSUME NEW v \in A, NEW w \in A, v # w PROVE FALSE
      OBVIOUS
    <3>1. /\ v \in c.lesson_timeline /\ w \in c.lesson_timeline
          /\ v \in CourseLessonWindows /\ w \in CourseLessonWindows
          /\ v.starts_at <= now /\ (v.ends_at = None \/ now < v.ends_at)
          /\ w.starts_at <= now /\ (w.ends_at = None \/ now < w.ends_at)
      BY <2>1 DEF ActiveWindows
    <3>2. EndsBefore(v, w) \/ EndsBefore(w, v)
      BY <1>1, <3>1 DEF Good, ValidTimeline
    <3>3. /\ now \in Int /\ v.starts_at \in Int /\ w.starts_at \in Int
          /\ (v.ends_at # None => v.ends_at \in Int) /\ (w.ends_at # None => w.ends_at \in Int)
      <4>1. Times \subseteq Int
        BY CourseAssumption
      <4>. QED
        BY <3>1, <4>1 DEF CourseLessonWindows
    <3>. QED
      BY <3>1, <3>2, <3>3 DEF EndsBefore
  <2>. HIDE DEF A
  <2>3. CASE A = {}
    BY <2>3, FS_EmptySet DEF A
  <2>4. CASE A # {}
    <3>1. PICK v : A = {v}
      BY <2>2, <2>4
    <3>. QED
      BY <3>1, FS_Singleton DEF A
  <2>. QED
    BY <2>3, <2>4
<1>2. IInv => StoredCourseLoads
  BY <1>1 DEF IInv, StoredCourseLoads, Good
<1>. QED
  BY <1>2, StoreInvariance, PTL

\* A request fails with a conflict or cannot read the course only when
\* somebody else has committed a change since it read the row.
THEOREM FailureHasCauseHolds == Spec => []FailureHasCause
<1>1. IInv => FailureHasCause
  BY DEF IInv, FailureHasCause, RequestInv
<1>. QED
  BY <1>1, StoreInvariance, PTL

\* A session is granted to nobody who was outside the course from the
\* moment of asking on.
THEOREM RemovedStaysOutHolds == Spec => []RemovedStaysOut
<1>1. IInv => RemovedStaysOut
  BY DEF IInv, RemovedStaysOut, RequestInv
<1>. QED
  BY <1>1, StoreInvariance, PTL

---------------------------------------------------------------------------
(***************************************************************************)
(* The refinement.                                                         *)
(***************************************************************************)
\* The ledger's handlers are the same.
LEMMA SameNewCourse ==
    ASSUME NEW u PROVE Ledger!NewCourse(u) = NewCourse(u)
BY DEF NewCourse, Ledger!NewCourse

LEMMA SameHandlers ==
    ASSUME NEW c, NEW by, NEW u, NEW v
    PROVE  /\ Ledger!RequestEnrollment(c, by) = RequestEnrollment(c, by)
           /\ Ledger!ApproveStudent(c, by, u) = ApproveStudent(c, by, u)
           /\ Ledger!RemoveStudent(c, by, u) = RemoveStudent(c, by, u)
           /\ Ledger!AddInstructor(c, by, u) = AddInstructor(c, by, u)
           /\ Ledger!RemoveInstructor(c, by, u) = RemoveInstructor(c, by, u)
           /\ Ledger!BindLesson(c, by, u, v) = BindLesson(c, by, u, v)
           /\ Ledger!UpdateTimeline(c, by, u) = UpdateTimeline(c, by, u)
           /\ Ledger!Archive(c, by) = Archive(c, by)
           /\ Ledger!ReplaceMetadata(u, c, by) = ReplaceMetadata(u, c, by)
           /\ Ledger!Edit(c, v, u) = Edit(c, v, u)
<1>1. /\ Ledger!IsOwner(c, by) = IsOwner(c, by)
      /\ Ledger!IsInstructor(c, by) = IsInstructor(c, by)
      /\ Ledger!IsAdmin(by) = IsAdmin(by)
  BY DEF IsOwner, Ledger!IsOwner, IsInstructor, Ledger!IsInstructor, IsAdmin, Ledger!IsAdmin
<1>2. ASSUME NEW d PROVE Ledger!ValidTimeline(d) = ValidTimeline(d)
  BY Zenon DEF ValidTimeline, Ledger!ValidTimeline, EndsBefore, Ledger!EndsBefore
<1>3. ASSUME NEW b, NEW d PROVE Ledger!SaveIf(b, d) = SaveIf(b, d)
  BY DEF SaveIf, Ledger!SaveIf
<1>4. Ledger!RequestEnrollment(c, by) = RequestEnrollment(c, by)
  BY <1>1, <1>2, <1>3, Zenon DEF RequestEnrollment, Ledger!RequestEnrollment
<1>5. Ledger!ApproveStudent(c, by, u) = ApproveStudent(c, by, u)
  BY <1>1, <1>2, <1>3, Zenon DEF ApproveStudent, Ledger!ApproveStudent
<1>6. Ledger!RemoveStudent(c, by, u) = RemoveStudent(c, by, u)
  BY <1>1, <1>2, <1>3, Zenon DEF RemoveStudent, Ledger!RemoveStudent
<1>7. Ledger!AddInstructor(c, by, u) = AddInstructor(c, by, u)
  BY <1>1, <1>2, <1>3, Zenon DEF AddInstructor, Ledger!AddInstructor
<1>8. Ledger!RemoveInstructor(c, by, u) = RemoveInstructor(c, by, u)
  BY <1>1, <1>2, <1>3, Zenon DEF RemoveInstructor, Ledger!RemoveInstructor
<1>9. Ledger!BindLesson(c, by, u, v) = BindLesson(c, by, u, v)
  BY <1>1, <1>2, <1>3, Zenon DEF BindLesson, Ledger!BindLesson
<1>10. Ledger!UpdateTimeline(c, by, u) = UpdateTimeline(c, by, u)
  BY <1>1, <1>2, <1>3, Zenon DEF UpdateTimeline, Ledger!UpdateTimeline
<1>11. Ledger!Archive(c, by) = Archive(c, by)
  BY <1>1, <1>2, <1>3, Zenon DEF Archive, Ledger!Archive
<1>12. Ledger!ReplaceMetadata(u, c, by) = ReplaceMetadata(u, c, by)
  BY <1>1, <1>2, <1>3, Zenon DEF ReplaceMetadata, Ledger!ReplaceMetadata
<1>13. Ledger!Edit(c, v, u) = Edit(c, v, u)
  BY <1>1, <1>2, <1>3, Zenon DEF Edit, Ledger!Edit
<1>. QED
  BY <1>4, <1>5, <1>6, <1>7, <1>8, <1>9, <1>10, <1>11, <1>12, <1>13, Zenon

LEMMA SameSaves ==
    ASSUME NEW c, NEW op PROVE Ledger!Saves(c, op) = Saves(c, op)
BY SameHandlers, Zenon DEF Saves, Ledger!Saves

LEMMA StepRefines == IInv /\ [Next]_vars => [Ledger!Next]_course
<1>. SUFFICES ASSUME IInv, [Next]_vars, course' # course PROVE Ledger!Next
  OBVIOUS
<1>1. PICK q \in Requests : Insert(q) \/ Update(q)
  BY DEF Next, Step, vars, Start, Missing, ReadRow, ReadTable, Unreadable, Grant, EditCopy,
         Refuse, Apply, SelectCourse, Answer, Fail
<1>2. CASE Insert(q)
  <2>1. course = None /\ course' = req[q].payload
    BY <1>2 DEF Insert, Committed
  <2>2. Decides(req[q], course) /\ req[q].op \in Operations
    BY <1>2, Typed DEF Insert, At, RequestInv
  <2>3. req[q].op.name = "create" /\ course' = NewCourse(req[q].op.user)
    BY <2>1, <2>2 DEF Decides
  <2>4. req[q].op.user \in Users
    BY <2>2, <2>3 DEF Operations
  <2>. QED
    BY <2>1, <2>3, <2>4, SameNewCourse DEF Ledger!Next, Ledger!Create
<1>3. CASE Update(q)
  <2>. DEFINE r == req[q]
  <2>1. IsCurrent(q)
    BY <1>3 DEF Update
  <2>2. /\ course' = [r.payload EXCEPT !.revision = course.revision + 1]
        /\ course'.revision = course.revision + 1
        /\ course # None /\ r.op \in OperationSet /\ r.op \in Operations
        /\ IF r.op.name = "create"
           THEN course.revision = 0 /\ r.payload = NewCourse(r.op.user)
           ELSE r.payload \in Saves(course, r.op)
    BY <1>3, <2>1, UpdateFacts
  <2>3. CASE r.op.name = "create"
    <3>1. r.op.user \in Users
      BY <2>2, <2>3 DEF Operations
    <3>2. course.revision = 0 /\ course' = [NewCourse(r.op.user) EXCEPT !.revision = 1]
      BY <2>2, <2>3
    <3>. QED
      BY <2>2, <3>1, <3>2, SameNewCourse DEF Ledger!Next, Ledger!Create
  <2>4. CASE r.op.name # "create"
    BY <2>2, <2>4, SameSaves DEF Ledger!Next, Ledger!Change
  <2>. QED
    BY <2>3, <2>4
<1>. QED
  BY <1>1, <1>2, <1>3

\* The transactions implement the promise of CourseLedger: no change is
\* lost, and each is made by someone who may make it when it takes effect.
THEOREM ImplementsLedgerHolds == Spec => ImplementsLedger
<1>1. Init => Ledger!Init
  BY DEF Init, Ledger!Init
<1>. QED
  BY <1>1, StepRefines, StoreInvariance, PTL DEF Spec, ImplementsLedger, Ledger!Spec
=============================================================================
