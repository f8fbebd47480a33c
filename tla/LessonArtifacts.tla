-------------------------- MODULE LessonArtifacts --------------------------
(***************************************************************************)
(* One lesson artifact of a course: instructors load it into the builder,  *)
(* edit it and save it under an optimistic revision, while students open   *)
(* sessions that freeze what they read.  Each step is one database         *)
(* transaction, or the part of one that is not protected by a row lock.    *)
(*                                                                         *)
(* The course, its owner check and the binding do not change here.         *)
(***************************************************************************)
EXTENDS Naturals, Sequences

CONSTANTS
    Editors,        \* builder pages of the course owner and of admins
    Students,       \* create_session calls
    MaxRevision     \* bound: at this revision no save is started

ASSUME MaxRevisionAssumption == MaxRevision \in Nat

VARIABLES
    artifact,   \* the lessons row: revision (0 while absent) and document
    editor,     \* builder pages with the request each one has in flight
    student,    \* create_session calls and the snapshot each one froze
    history     \* history: the documents saved, in the order of their commits

vars == <<artifact, editor, student, history>>

NoRevision == 0                 \* expected_revision = None, or no row
NoDocument == <<"nobody", 0>>

\* A document is known by who saved it and as the how-manieth.
Documents == {NoDocument} \cup (Editors \X (Nat \ {0}))

TypeOK ==
    /\ artifact \in [revision : Nat, document : Documents]
    /\ editor \in [Editors -> [pc : {"idle", "revision", "save", "insert"},
                               loading : Documents,
                               base : Documents, token : Nat]]
    /\ student \in [Students -> [pc : {"idle", "revision", "created"},
                                 document : Documents, revision : Nat]]
    /\ history \in Seq(Documents)

Exists == artifact.revision # NoRevision

Init ==
    /\ artifact = [revision |-> NoRevision, document |-> NoDocument]
    /\ editor = [e \in Editors |->
            [pc |-> "idle", loading |-> NoDocument, base |-> NoDocument, token |-> NoRevision]]
    /\ student = [c \in Students |->
            [pc |-> "idle", document |-> NoDocument, revision |-> NoRevision]]
    /\ history = <<>>

---------------------------------------------------------------------------
(***************************************************************************)
(* get_lesson_artifact: the document, then in a second transaction its     *)
(* revision.  handleReset starts a fresh draft, which may carry the same   *)
(* lesson id and version.                                                  *)
(***************************************************************************)
LoadDocument(e) ==
    /\ editor[e].pc = "idle"
    /\ Exists
    /\ editor' = [editor EXCEPT ![e].loading = artifact.document, ![e].pc = "revision"]
    /\ UNCHANGED <<artifact, student, history>>

LoadRevision(e) ==
    /\ editor[e].pc = "revision"
    /\ editor' = [editor EXCEPT ![e].base = editor[e].loading, ![e].token = artifact.revision,
                                ![e].pc = "idle"]
    /\ UNCHANGED <<artifact, student, history>>

Reset(e) ==
    /\ editor[e].pc = "idle"
    /\ editor' = [editor EXCEPT ![e].base = NoDocument, ![e].token = NoRevision]
    /\ UNCHANGED <<artifact, student, history>>

(***************************************************************************)
(* save_lesson_artifact: does the lesson exist (428 without a token), then *)
(* save_lesson in a transaction of its own.                                *)
(***************************************************************************)
Goto(e, pc) == editor' = [editor EXCEPT ![e].pc = pc]

CheckExisting(e) ==
    /\ editor[e].pc = "idle"
    /\ artifact.revision < MaxRevision
    /\ ~(Exists /\ editor[e].token = NoRevision)
    /\ Goto(e, "save")
    /\ UNCHANGED <<artifact, student, history>>

\* The commit of e's document; its response may be lost on the way back.
Commit(e, revision) ==
    LET document == <<e, Len(history) + 1>> IN
    /\ artifact' = [revision |-> revision, document |-> document]
    /\ history' = Append(history, document)
    /\ \/ Goto(e, "idle")
       \/ editor' = [editor EXCEPT ![e].pc = "idle", ![e].base = document,
                                   ![e].token = revision]
    /\ UNCHANGED student

\* Mutant: the expected revision is not compared.
MutantOverwrites(e) == TRUE

\* SELECT ... FOR UPDATE finds the row and keeps it locked until the commit.
Overwrites(e) == editor[e].token \in {NoRevision, artifact.revision}

Update(e) ==
    /\ editor[e].pc = "save" /\ Exists
    /\ Overwrites(e)
    /\ Commit(e, artifact.revision + 1)

\* It finds no row: nothing is locked until the insert commits.
SelectNothing(e) ==
    /\ editor[e].pc = "save" /\ ~Exists
    /\ editor[e].token = NoRevision
    /\ Goto(e, "insert")
    /\ UNCHANGED <<artifact, student, history>>

\* Mutant: no unique constraint on lesson, version and course.
MutantInsert(e) == editor[e].pc = "insert" /\ Commit(e, 1)

Insert(e) ==
    /\ editor[e].pc = "insert" /\ ~Exists
    /\ Commit(e, 1)

\* LessonRevisionConflictError: a stale token, a row that has gone, or the
\* unique constraint of the insert.
Conflict(e) ==
    /\ \/ editor[e].pc = "save" /\ Exists /\ ~Overwrites(e)
       \/ editor[e].pc = "save" /\ ~Exists /\ editor[e].token # NoRevision
       \/ editor[e].pc = "insert" /\ Exists
    /\ Goto(e, "idle")
    /\ UNCHANGED <<artifact, student, history>>

(***************************************************************************)
(* The create_session route: the lesson, then its revision, then the       *)
(* session that freezes both.                                              *)
(***************************************************************************)
LoadLesson(c) ==
    /\ student[c].pc = "idle"
    /\ Exists
    /\ student' = [student EXCEPT ![c].document = artifact.document, ![c].pc = "revision"]
    /\ UNCHANGED <<artifact, editor, history>>

\* Mutant: the revision is left at the default of create_session.
MutantDefaultRevision(c) ==
    /\ student[c].pc = "revision"
    /\ student' = [student EXCEPT ![c].revision = 1, ![c].pc = "created"]
    /\ UNCHANGED <<artifact, editor, history>>

CreateSession(c) ==
    /\ student[c].pc = "revision"
    /\ student' = [student EXCEPT ![c].revision = artifact.revision, ![c].pc = "created"]
    /\ UNCHANGED <<artifact, editor, history>>

EditorStep(e) ==
    \/ LoadDocument(e) \/ LoadRevision(e) \/ Reset(e)
    \/ CheckExisting(e) \/ Update(e) \/ SelectNothing(e) \/ Insert(e) \/ Conflict(e)

Next ==
    \/ \E e \in Editors : EditorStep(e)
    \/ \E c \in Students : LoadLesson(c) \/ CreateSession(c)

Spec == Init /\ [][Next]_vars

---------------------------------------------------------------------------
(***************************************************************************)
(* Properties.                                                             *)
(***************************************************************************)
\* Revisions number the documents: whoever saves, creates or races, no two
\* documents ever share a revision and none is skipped.
RevisionNamesDocument ==
    /\ artifact.revision = Len(history)
    /\ Exists => artifact.document = history[artifact.revision]

Saved(e) == artifact'.document # artifact.document /\ artifact'.document[1] = e

\* The editor holds a document together with its own revision.
CoherentBase(e) ==
    /\ editor[e].token \in 1 .. Len(history)
    /\ history[editor[e].token] = editor[e].base

\* A save under the revision of the document the editor is looking at only
\* ever replaces that document: of two editors one gets a conflict.
CoherentSaveKeepsNewerWork ==
    [][\A e \in Editors :
        Saved(e) /\ CoherentBase(e) => editor[e].base = artifact.document]_vars

\* What a session freezes is a document that was saved, and the revision it
\* records is that document's or a later one.
SnapshotWasSaved ==
    \A c \in Students : student[c].pc = "created" =>
        /\ student[c].revision \in 1 .. Len(history)
        /\ \E r \in 1 .. student[c].revision : history[r] = student[c].document

============================================================================
