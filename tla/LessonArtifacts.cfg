CONSTANTS
    Editors = {e1, e2}
    Students = {c1}
    MaxRevision = 4
SYMMETRY ArtifactSymmetry
SPECIFICATION Spec
INVARIANTS
    RevisionNamesDocument
    SnapshotWasSaved
PROPERTY CoherentSaveKeepsNewerWork
