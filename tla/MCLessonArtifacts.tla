------------------------ MODULE MCLessonArtifacts ------------------------
(* Instances of LessonArtifacts for TLC.                                   *)
EXTENDS LessonArtifacts, TLC

ArtifactSymmetry == Permutations(Editors) \cup Permutations(Students)
============================================================================
