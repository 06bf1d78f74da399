------------------------------ MODULE MCTrellis ------------------------------
(***************************************************************************)
(* Trellis on a small set of labels, for TLC.                              *)
(***************************************************************************)
EXTENDS Trellis, TLC

\* Nodes of one kind are interchangeable.
Symmetric == Permutations(Step) \cup Permutations(File)
=============================================================================
