----------------------------- MODULE SubnetSlot -----------------------------
(***************************************************************************)
(* What CreateSubnet and DeleteSubnet promise about one subnet name, with  *)
(* no word of caches, NADs or call order: the name is a slot that at most  *)
(* one handler holds at a time.  A live subnet is only ever published by   *)
(* the handler that acquired the slot, and only ever withdrawn into a      *)
(* handler's hands; a slot lost by a fault stays lost.                     *)
(***************************************************************************)
CONSTANTS
    Slots,    \* subnet names
    Owners    \* handlers

VARIABLES
    phase,    \* phase[s]: "free", "held", "live", "leaked" or "tainted"
    holders,  \* holders[s]: who holds slot s
    faulty    \* whether a fault has happened yet

slotVars == <<phase, holders, faulty>>

SlotInit ==
    /\ phase = [s \in Slots |-> "free"]
    /\ holders = [s \in Slots |-> {}]
    /\ faulty = FALSE

Move(s, from, fromWho, to, toWho) ==
    /\ phase[s] = from /\ holders[s] = fromWho
    /\ phase' = [phase EXCEPT ![s] = to]
    /\ holders' = [holders EXCEPT ![s] = toWho]

\* Any step may also meet a fault that does no harm.
MayFail == faulty' \in {faulty, TRUE}

Acquire(s, r) == Move(s, "free", {}, "held", {r}) /\ MayFail
Publish(s, r) == Move(s, "held", {r}, "live", {}) /\ MayFail
Withdraw(s, r) == Move(s, "live", {}, "held", {r}) /\ MayFail
Release(s, r) == Move(s, "held", {r}, "free", {}) /\ MayFail

\* Nobody holds the slot and nobody can get it any more; this takes a fault.
Leak(s) ==
    /\ faulty' = TRUE
    /\ \/ Move(s, "free", {}, "leaked", {})
       \/ \E r \in Owners : Move(s, "held", {r}, "leaked", {})
       \/ Move(s, "live", {}, "leaked", {})

\* The subnet was created and its holder believes it was not.
Taint(s, r) == faulty' = TRUE /\ Move(s, "held", {r}, "tainted", {})

\* Every holder is gone at once.
LoseHolders ==
    /\ faulty' = TRUE
    /\ phase' = [s \in Slots |-> IF phase[s] = "held" THEN "leaked" ELSE phase[s]]
    /\ holders' = [s \in Slots |-> {}]

\* No slot moves.
Rest == UNCHANGED <<phase, holders>> /\ MayFail

SlotNext ==
    \/ Rest
    \/ \E s \in Slots, r \in Owners :
         \/ Acquire(s, r) \/ Publish(s, r) \/ Withdraw(s, r) \/ Release(s, r)
         \/ Taint(s, r)
    \/ \E s \in Slots : Leak(s)
    \/ LoseHolders

SlotSpec == SlotInit /\ [][SlotNext]_slotVars

=============================================================================
