----------------------------- MODULE MCCompute -----------------------------
(* A small instance of Compute for TLC. *)
EXTENDS Compute

=============================================================================
