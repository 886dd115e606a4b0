--------------------------- MODULE MCScanPipeline ---------------------------
(* Instances of ScanPipeline for TLC. *)
EXTENDS ScanPipelineProperties, TLC

Symmetry == Permutations(Pods)
=============================================================================
