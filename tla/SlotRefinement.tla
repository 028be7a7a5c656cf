--------------------------- MODULE SlotRefinement ---------------------------
(***************************************************************************)
(* KubeOvnNetwork implements SubnetSlot: the NAD of a subnet name is what  *)
(* reserves the slot.                                                      *)
(***************************************************************************)
EXTENDS KubeOvnNetwork

\* The handlers between the two writes of CreateSubnet or DeleteSubnet.
SlotHolders(s) == IF s \in tainted THEN {} ELSE {r \in Requests : Holds(r, s)}

SlotPhase(s) ==
    IF s \in tainted THEN "tainted"
    ELSE IF s \notin nad THEN "free"
    ELSE IF subnet[s] # None THEN "live"
    ELSE IF SlotHolders(s) # {} THEN "held"
    ELSE "leaked"

Slot == INSTANCE SubnetSlot WITH
    Slots <- SubnetNames,
    Owners <- Requests,
    phase <- [s \in SubnetNames |-> SlotPhase(s)],
    holders <- [s \in SubnetNames |-> SlotHolders(s)],
    faulty <- faults > 0

(* CreateSubnet (NAD first, then Subnet, cleanup of the NAD) and           *)
(* DeleteSubnet (Subnet first, then NAD) implement exclusive slots: every  *)
(* interleaved write of theirs is one move of one slot by its holder, and  *)
(* a slot is lost only by a fault.                                         *)
SlotsAreExclusive == Slot!SlotSpec

=============================================================================
