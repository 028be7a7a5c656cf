----------------------------- MODULE MCFlavour -----------------------------
(* A small instance of Flavour for TLC. *)
EXTENDS Flavour

=============================================================================
