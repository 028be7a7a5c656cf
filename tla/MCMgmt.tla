------------------------------ MODULE MCMgmt ------------------------------
(* Small instances of MgmtNetwork for TLC. *)
EXTENDS MgmtNetwork

CONSTANTS p1, p2, c1, c2

\* Two replicas of a rolling update that changes the cidr.
MCCidrOf == [p \in Replicas |-> IF p = p1 THEN c1 ELSE c2]

=============================================================================
