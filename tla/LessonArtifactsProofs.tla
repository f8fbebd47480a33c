----------------------- MODULE LessonArtifactsProofs -----------------------
(***************************************************************************)
(* Theorems about LessonArtifacts for any number of editors and students.  *)
(* The inductive invariant adds to the checked invariants that a student   *)
(* between the two reads of create_session holds a document that was saved.*)
(***************************************************************************)
EXTENDS LessonArtifacts, TLAPS

WasSaved(document, revision) ==
    /\ revision \in 1 .. Len(history)
    /\ \E r \in 1 .. revision : history[r] = document

LoadedWasSaved ==
    \A c \in Students : student[c].pc = "revision" =>
        WasSaved(student[c].document, Len(history))

IInv == TypeOK /\ RevisionNamesDocument /\ LoadedWasSaved /\ SnapshotWasSaved

\* A commit appends its document to the history and leaves the rest of it.
LEMMA CommitAppends ==
    ASSUME TypeOK, NEW e \in Editors, NEW n \in Nat, Commit(e, n)
    PROVE  /\ history' = Append(history, <<e, Len(history) + 1>>)
           /\ artifact' = [revision |-> n, document |-> <<e, Len(history) + 1>>]
           /\ artifact' \in [revision : Nat, document : Documents]
           /\ history' \in Seq(Documents)
           /\ Len(history') = Len(history) + 1
           /\ history'[Len(history) + 1] = <<e, Len(history) + 1>>
           /\ \A r \in 1 .. Len(history) : history'[r] = history[r]
           /\ student' = student
<1>1. <<e, Len(history) + 1>> \in Documents
  BY DEF TypeOK, Documents
<1>. QED
  BY <1>1 DEF Commit, TypeOK

\* An editor keeps its type when it moves to another statement.
LEMMA GotoEditor ==
    ASSUME TypeOK, NEW e \in Editors, NEW pc \in {"idle", "revision", "save", "insert"},
           Goto(e, pc)
    PROVE  editor' \in [Editors -> [pc : {"idle", "revision", "save", "insert"},
                               loading : Documents, base : Documents, token : Nat]]
BY DEF Goto, TypeOK

\* A commit gives its editor a builder state of the right type.
LEMMA CommitEditor ==
    ASSUME TypeOK, NEW e \in Editors, NEW n \in Nat, Commit(e, n)
    PROVE  editor' \in [Editors -> [pc : {"idle", "revision", "save", "insert"},
                               loading : Documents, base : Documents, token : Nat]]
<1>1. <<e, Len(history) + 1>> \in Documents
  BY DEF TypeOK, Documents
<1>2. CASE Goto(e, "idle")
  BY <1>2 DEF Goto, TypeOK
<1>3. CASE editor' = [editor EXCEPT ![e].pc = "idle", ![e].base = <<e, Len(history) + 1>>,
                                    ![e].token = n]
  <2>. DEFINE d == <<e, Len(history) + 1>>
  <2>1. d \in Documents /\ editor' = [editor EXCEPT ![e].pc = "idle", ![e].base = d, ![e].token = n]
    BY <1>1, <1>3
  <2>. HIDE DEF d
  <2>. QED
    BY ZenonT(60), <2>1 DEF TypeOK
<1>. QED
  BY <1>2, <1>3 DEF Commit

\* Saved documents stay in the history, so what was saved stays saved.
LEMMA CommitKeeps ==
    ASSUME IInv, NEW e \in Editors, Commit(e, artifact.revision + 1)
    PROVE  IInv'
<1>1. TypeOK /\ RevisionNamesDocument
  BY DEF IInv
<1>2. artifact.revision + 1 \in Nat
  BY <1>1 DEF TypeOK
<1>3. /\ artifact' = [revision |-> artifact.revision + 1, document |-> <<e, Len(history) + 1>>]
      /\ artifact' \in [revision : Nat, document : Documents]
      /\ history' \in Seq(Documents)
      /\ Len(history') = Len(history) + 1
      /\ history'[Len(history) + 1] = <<e, Len(history) + 1>>
      /\ \A r \in 1 .. Len(history) : history'[r] = history[r]
      /\ student' = student
  BY <1>1, <1>2, CommitAppends
<1>4. Len(history) \in Nat
  BY <1>1 DEF TypeOK
<1>5. TypeOK'
  BY <1>1, <1>2, <1>3, CommitEditor DEF TypeOK
<1>6. RevisionNamesDocument'
  BY <1>1, <1>3, <1>4 DEF RevisionNamesDocument, Exists
<1>7. ASSUME NEW document, NEW revision, WasSaved(document, revision)
      PROVE  WasSaved(document, revision)' /\ WasSaved(document, Len(history))'
  BY <1>3, <1>4, <1>7 DEF WasSaved
<1>8. LoadedWasSaved'
  <2>. SUFFICES ASSUME NEW c \in Students, student[c].pc = "revision"
                PROVE  WasSaved(student[c].document, Len(history))'
    BY <1>3 DEF LoadedWasSaved
  <2>1. WasSaved(student[c].document, Len(history))
    BY DEF IInv, LoadedWasSaved
  <2>2. \E r \in 1 .. Len(history) : history[r] = student[c].document
    BY <2>1 DEF WasSaved
  <2>. QED
    BY <1>3, <1>4, <2>2 DEF WasSaved
<1>9. SnapshotWasSaved'
  BY <1>3, <1>4 DEF IInv, SnapshotWasSaved
<1>. QED
  BY <1>5, <1>6, <1>8, <1>9 DEF IInv

\* Steps that commit nothing keep the history and the artifact.
LEMMA EditorInv ==
    ASSUME IInv, NEW e \in Editors, EditorStep(e)
    PROVE  IInv'
<1>1. CASE UNCHANGED <<artifact, student, history>>
  <2>1. editor' \in [Editors -> [pc : {"idle", "revision", "save", "insert"},
                               loading : Documents, base : Documents, token : Nat]]
    <3>. USE DEF IInv, TypeOK
    <3>1. NoDocument \in Documents /\ NoRevision \in Nat
      BY DEF NoRevision, Documents
    <3>2. CASE LoadDocument(e)  BY <3>2 DEF LoadDocument
    <3>3. CASE LoadRevision(e)  BY SMTT(30), <3>3 DEF LoadRevision
    <3>4. CASE Reset(e)         BY ZenonT(60), <3>1, <3>4 DEF Reset
    <3> HIDE DEF IInv, TypeOK
    <3>5. CASE CheckExisting(e) BY <3>5, GotoEditor DEF CheckExisting, IInv
    <3>6. CASE SelectNothing(e) BY <3>6, GotoEditor DEF SelectNothing, IInv
    <3>7. CASE Conflict(e)      BY <3>7, GotoEditor DEF Conflict, IInv
    <3> USE DEF IInv, TypeOK
    <3>8. CASE Update(e)
      BY <3>8, CommitEditor DEF Update
    <3>9. CASE Insert(e)
      BY <3>9, CommitEditor DEF Insert
    <3>. QED
      BY <3>2, <3>3, <3>4, <3>5, <3>6, <3>7, <3>8, <3>9 DEF EditorStep
  <2>. QED
    BY <1>1, <2>1 DEF IInv, TypeOK, RevisionNamesDocument, Exists, LoadedWasSaved,
                      WasSaved, SnapshotWasSaved
<1>2. CASE Update(e)
  BY <1>2, CommitKeeps DEF Update
<1>3. CASE Insert(e)
  <2>1. artifact.revision + 1 = 1
    BY <1>3 DEF Insert, Exists, NoRevision
  <2>. QED
    BY <1>3, <2>1, CommitKeeps DEF Insert
<1>. QED
  BY <1>1, <1>2, <1>3 DEF EditorStep, LoadDocument, LoadRevision, Reset, CheckExisting,
                          SelectNothing, Conflict

LEMMA StudentInv ==
    ASSUME IInv, NEW c \in Students, LoadLesson(c) \/ CreateSession(c)
    PROVE  IInv'
<1>. USE DEF IInv
<1>1. UNCHANGED <<artifact, editor, history>>
  BY DEF LoadLesson, CreateSession
<1>2. TypeOK'
  BY <1>1 DEF TypeOK, LoadLesson, CreateSession
<1>3. RevisionNamesDocument'
  BY <1>1 DEF RevisionNamesDocument, Exists
<1>4. LoadedWasSaved'
  <2>. SUFFICES ASSUME NEW d \in Students, student'[d].pc = "revision"
                PROVE  WasSaved(student'[d].document, Len(history))
    BY <1>1 DEF LoadedWasSaved, WasSaved
  <2>1. CASE LoadLesson(c) /\ d = c
    BY <2>1 DEF LoadLesson, TypeOK, RevisionNamesDocument, WasSaved, Exists, NoRevision
  <2>2. CASE ~(LoadLesson(c) /\ d = c)
    <3>1. student'[d] = student[d]
      BY <2>2 DEF LoadLesson, CreateSession, TypeOK
    <3>. QED
      BY <3>1 DEF LoadedWasSaved
  <2>. QED
    BY <2>1, <2>2
<1>5. SnapshotWasSaved'
  <2>. SUFFICES ASSUME NEW d \in Students, student'[d].pc = "created"
                PROVE  WasSaved(student'[d].document, student'[d].revision)
    BY <1>1 DEF SnapshotWasSaved, WasSaved
  <2>1. CASE CreateSession(c) /\ d = c
    BY <2>1 DEF CreateSession, TypeOK, RevisionNamesDocument, LoadedWasSaved, WasSaved
  <2>2. CASE ~(CreateSession(c) /\ d = c)
    <3>1. student'[d] = student[d]
      BY <2>2 DEF LoadLesson, CreateSession, TypeOK
    <3>. QED
      BY <3>1 DEF SnapshotWasSaved, WasSaved
  <2>. QED
    BY <2>1, <2>2
<1>. QED
  BY <1>2, <1>3, <1>4, <1>5

\* IInv is an inductive invariant of the specification.
THEOREM ArtifactInvariance == Spec => []IInv
<1>1. Init => IInv
  <2>. SUFFICES ASSUME Init PROVE IInv
    OBVIOUS
  <2>. USE DEF Init
  <2>1. NoDocument \in Documents /\ NoRevision \in Nat
    BY DEF NoRevision, Documents
  <2>2. TypeOK
    BY <2>1 DEF TypeOK
  <2>. QED
    BY <2>2 DEF IInv, RevisionNamesDocument, Exists, NoRevision, LoadedWasSaved,
                SnapshotWasSaved
<1>2. IInv /\ [Next]_vars => IInv'
  <2>. SUFFICES ASSUME IInv, [Next]_vars PROVE IInv'
    OBVIOUS
  <2>1. CASE UNCHANGED vars
    BY <2>1 DEF vars, IInv, TypeOK, RevisionNamesDocument, Exists, LoadedWasSaved,
                WasSaved, SnapshotWasSaved
  <2>. QED
    BY <2>1, EditorInv, StudentInv DEF Next
<1>. QED
  BY <1>1, <1>2, PTL DEF Spec

\* Revisions name documents: however the instructors' loads, creations and
\* saves interleave, a revision belongs to exactly one saved document.
THEOREM RevisionNamesDocumentHolds == Spec => []RevisionNamesDocument
<1>1. IInv => RevisionNamesDocument
  BY DEF IInv
<1>. QED
  BY <1>1, ArtifactInvariance, PTL

\* A session's snapshot was saved, at or before the revision it records.
THEOREM SnapshotWasSavedHolds == Spec => []SnapshotWasSaved
<1>1. IInv => SnapshotWasSaved
  BY DEF IInv
<1>. QED
  BY <1>1, ArtifactInvariance, PTL

\* Optimistic concurrency works for every editor whose document and token
\* belong together: it replaces only the document it has read.
THEOREM CoherentSaveHolds == Spec => CoherentSaveKeepsNewerWork
<1>1. ASSUME IInv, [Next]_vars, NEW e \in Editors, Saved(e), CoherentBase(e)
      PROVE  editor[e].base = artifact.document
  <2>. USE DEF IInv
  <2>1. PICK f \in Editors : Update(f) \/ Insert(f)
    BY <1>1 DEF Next, vars, EditorStep, Saved, LoadDocument, LoadRevision, Reset,
                CheckExisting, SelectNothing, Conflict, LoadLesson, CreateSession
  <2>2. f = e
    BY <1>1, <2>1 DEF Update, Insert, Commit, Saved
  <2>3. Exists
    BY <1>1 DEF CoherentBase, RevisionNamesDocument, Exists, NoRevision, TypeOK
  <2>4. Overwrites(e)
    BY <2>1, <2>2, <2>3 DEF Update, Insert
  <2>5. editor[e].token = artifact.revision
    BY <1>1, <2>4 DEF Overwrites, CoherentBase, NoRevision
  <2>. QED
    BY <1>1, <2>3, <2>5 DEF CoherentBase, RevisionNamesDocument
<1>2. IInv /\ [Next]_vars => [\A e \in Editors :
        Saved(e) /\ CoherentBase(e) => editor[e].base = artifact.document]_vars
  BY <1>1
<1>. QED
  BY <1>2, ArtifactInvariance, PTL DEF CoherentSaveKeepsNewerWork, Spec
============================================================================
