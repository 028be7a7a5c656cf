---------------------------- MODULE MCComposite ----------------------------
(* Small instances of CompositeNetwork for TLC. *)
EXTENDS CompositeNetwork

=============================================================================
