----------------------------- MODULE MCNetwork -----------------------------
(* Small instances of KubeOvnNetwork, with its refinement, for TLC. *)
EXTENDS SlotRefinement, TLC

\* Handlers are interchangeable: nothing orders or names them.
RequestSymmetry == Permutations(Requests)

=============================================================================
