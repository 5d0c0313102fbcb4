-------------------------- MODULE MCTransportFollow --------------------------
(***************************************************************************)
(* Symmetry of the clips, the projects and the helpers of TransportFollow, *)
(* for its safety runs.                                                    *)
(***************************************************************************)
EXTENDS TransportFollow, TLC

Symmetry == Permutations(Clip) \cup Permutations(Project) \cup Permutations(Helper)
=============================================================================
