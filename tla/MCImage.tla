------------------------------ MODULE MCImage ------------------------------
(* A small instance of Image for TLC. *)
EXTENDS Image

=============================================================================
