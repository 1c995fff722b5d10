-------------------------- MODULE MCArtifactStore --------------------------
(* Instance of ArtifactStore for TLC. *)
EXTENDS ArtifactStore, TLC

Symmetry == Permutations(Writers) \cup Permutations(Slots) \cup Permutations(Contents)
=============================================================================
