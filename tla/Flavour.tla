------------------------------- MODULE Flavour -------------------------------
(***************************************************************************)
(* The flavour manager (internal/kubevim/flavour/kubevirt/manager.go).  A  *)
(* flavour is a VirtualMachineInstancetype and a VirtualMachinePreference  *)
(* that carry its id; CreateFlavour writes the one and then the other and  *)
(* takes nothing back, DeleteFlavour deletes both by label.  The names are *)
(* made from the id, and others may have objects of those names.           *)
(***************************************************************************)
EXTENDS Naturals

CONSTANTS
    Requests,    \* RPC handlers
    Flavours,    \* flavour ids
    MaxFaults,   \* bound: failed calls, lost replies, crashes
    None,
    Foreign      \* the owner of objects kube-vim has not created

ASSUME FlavourAssumption ==
    /\ None \notin Requests \union Flavours
    /\ Foreign \notin Requests \union {None}
    /\ MaxFaults \in Nat

VARIABLES
    inst,      \* by flavour id: who created the instance type of its name
    pref,      \* the same for the preference
    cInst,     \* the cached instance types of kube-vim: who created them
    req,
    faults

vars == <<inst, pref, cInst, req, faults>>

Owners == Requests \union {Foreign, None}

(* opaque: the flavour's metadata, which is copied over the annotations,   *)
(* has replaced the volumes kube-vim keeps there by what it cannot read    *)
(* back.  before: the requests that had ended when this one was called, a  *)
(* history variable.                                                       *)
ReqRec == [pc : {"idle", "inst", "pref", "del_inst", "del_pref", "done"},
           op : {"none", "create", "delete"}, id : Flavours \union {None},
           opaque : BOOLEAN, before : SUBSET Requests,
           res : {"none", "ok", "err", "crash"}]

Idle == [pc |-> "idle", op |-> "none", id |-> None, opaque |-> FALSE,
         before |-> {}, res |-> "none"]

TypeOK ==
    /\ inst \in [Flavours -> Owners]
    /\ pref \in [Flavours -> Owners]
    /\ cInst \in [Flavours -> Requests \union {None}]
    /\ req \in [Requests -> ReqRec]
    /\ faults \in 0..MaxFaults

\* The instance types of kube-vim, as its label selects them.
Managed == [f \in Flavours |-> IF inst[f] \in Requests THEN inst[f] ELSE None]

Init ==
    /\ inst \in [Flavours -> {None, Foreign}]
    /\ pref \in [Flavours -> {None, Foreign}]
    /\ cInst = [f \in Flavours |-> None]
    /\ req = [r \in Requests |-> Idle]
    /\ faults = 0

Running(r) == req[r].pc \notin {"idle", "done"}
Ended == {r \in Requests : req[r].pc = "done"}

Outcomes == {"ok", "fail", "lost"}

Charge(out) ==
    /\ out = "ok" \/ faults < MaxFaults
    /\ faults' = IF out = "ok" THEN faults ELSE faults + 1

Go(r, pc) == req' = [req EXCEPT ![r].pc = pc]
Finish(r, res) == req' = [req EXCEPT ![r].pc = "done", ![r].res = res]

-----------------------------------------------------------------------------
(* CreateFlavour *)

CallCreate(r, f, opaque) ==
    /\ req[r].pc = "idle"
    /\ req' = [req EXCEPT ![r] =
                 [Idle EXCEPT !.op = "create", !.id = f, !.opaque = opaque,
                              !.pc = "inst", !.before = Ended]]
    /\ UNCHANGED <<inst, pref, cInst, faults>>

\* The flavour cannot be converted: refused before anything is written.
Reject(r) ==
    /\ req[r].pc = "idle"
    /\ req' = [req EXCEPT ![r] = [Idle EXCEPT !.op = "create", !.pc = "done",
                                              !.res = "err"]]
    /\ UNCHANGED <<inst, pref, cInst, faults>>

(* Faulty variant: a failed Create deletes what carries the flavour's id.  *)
CreateFailedCleansUp(r) ==
    /\ Finish(r, "err")
    /\ inst' = [inst EXCEPT ![req[r].id] = IF @ = Foreign THEN @ ELSE None]

\* A failed Create ends the call; what was created before it stays.
CreateFailed(r) ==
    /\ Finish(r, "err")
    /\ UNCHANGED inst

CreateInst(r) ==
    /\ req[r].pc = "inst"
    /\ LET f == req[r].id IN
       \/ /\ inst[f] # None                             \* AlreadyExists
          /\ CreateFailed(r)
          /\ UNCHANGED faults
       \/ /\ inst[f] = None
          /\ \E out \in {"ok", "lost"} :
                /\ Charge(out)
                /\ inst' = [inst EXCEPT ![f] = r]
                /\ IF out = "ok" THEN Go(r, "pref") ELSE Finish(r, "err")
       \/ /\ inst[f] = None
          /\ Charge("fail")
          /\ CreateFailed(r)
    /\ UNCHANGED <<pref, cInst>>

CreatePref(r) ==
    /\ req[r].pc = "pref"
    /\ LET f == req[r].id IN
       \/ /\ pref[f] # None
          /\ CreateFailed(r)
          /\ UNCHANGED <<pref, faults>>
       \/ /\ pref[f] = None
          /\ \E out \in {"ok", "lost"} :
                /\ Charge(out)
                /\ pref' = [pref EXCEPT ![f] = r]
                /\ Finish(r, IF out = "ok" THEN "ok" ELSE "err")
          /\ UNCHANGED inst
       \/ /\ pref[f] = None
          /\ Charge("fail")
          /\ CreateFailed(r)
          /\ UNCHANGED pref
    /\ UNCHANGED cInst

-----------------------------------------------------------------------------
(* DeleteFlavour *)

CallDelete(r, f) ==
    /\ req[r].pc = "idle"
    /\ req' = [req EXCEPT ![r] = [Idle EXCEPT !.op = "delete", !.id = f,
                                              !.pc = "del_inst", !.before = Ended]]
    /\ UNCHANGED <<inst, pref, cInst, faults>>

\* Faulty variant: deletion by name.
DeleteByName(owner) == None

\* DeleteAllOf with the label of kube-vim and the flavour id.
DeleteAllOf(owner) == IF owner \in Requests THEN None ELSE owner

\* Faulty variant: without an instance type there is no flavour to delete.
AfterInstOnlyIfFound(r) ==
    IF inst[req[r].id] \in Requests THEN Go(r, "del_pref") ELSE Finish(r, "ok")

\* Faulty variant: deleting a flavour that is not there is an error.
AfterInstReportsMissing(r) ==
    IF inst[req[r].id] \in Requests THEN Go(r, "del_pref")
    ELSE Finish(r, "notfound")

(* Deleting a missing flavour is a no-op: the preference is deleted whether *)
(* or not there was an instance type.                                      *)
AfterInst(r) == Go(r, "del_pref")

DeleteInst(r) ==
    /\ req[r].pc = "del_inst"
    /\ \E out \in Outcomes :
          /\ Charge(out)
          /\ inst' = IF out = "fail" THEN inst
                     ELSE [inst EXCEPT ![req[r].id] = DeleteAllOf(@)]
          /\ IF out = "ok" THEN AfterInst(r) ELSE Finish(r, "err")
    /\ UNCHANGED <<pref, cInst>>

DeletePref(r) ==
    /\ req[r].pc = "del_pref"
    /\ \E out \in Outcomes :
          /\ Charge(out)
          /\ pref' = IF out = "fail" THEN pref
                     ELSE [pref EXCEPT ![req[r].id] = DeleteAllOf(@)]
          /\ Finish(r, IF out = "ok" THEN "ok" ELSE "err")
    /\ UNCHANGED <<inst, cInst>>

-----------------------------------------------------------------------------
(* GetFlavours *)

\* A list call that ends with an error.
Failed == {None}

\* The cached instance types, and those that cannot be read back.
Cached == {f \in Flavours : cInst[f] # None}
Unreadable == {f \in Cached : req[cInst[f]].opaque}

\* Faulty variant: a flavour without its preference is left out.
GetFlavoursComplete ==
    IF Unreadable = {} THEN {f \in Cached : pref[f] \in Requests} ELSE Failed

(* The instance types are the flavours, the preference is optional.  One   *)
(* that cannot be read back fails the whole list.  (An instance type       *)
(* without an id is an error too; kube-vim writes none.)                   *)
GetFlavours == IF Unreadable = {} THEN Cached ELSE Failed

-----------------------------------------------------------------------------
(* The environment *)

WatchInst ==
    /\ cInst # Managed /\ cInst' = Managed
    /\ UNCHANGED <<inst, pref, req, faults>>

Crash ==
    /\ \E r \in Requests : Running(r)
    /\ Charge("fail")
    /\ req' = [r \in Requests |-> IF Running(r)
                THEN [req[r] EXCEPT !.pc = "done", !.res = "crash"] ELSE req[r]]
    /\ cInst' = Managed
    /\ UNCHANGED <<inst, pref>>

-----------------------------------------------------------------------------

Step(r) == CreateInst(r) \/ CreatePref(r) \/ DeleteInst(r) \/ DeletePref(r)

Next == \/ \E r \in Requests : Step(r) \/ Reject(r)
        \/ \E r \in Requests, f \in Flavours :
              CallDelete(r, f) \/ \E opaque \in BOOLEAN : CallCreate(r, f, opaque)
        \/ WatchInst \/ Crash

Spec == Init /\ [][Next]_vars

FairSpec == Spec /\ WF_vars(WatchInst) /\ \A r \in Requests : WF_vars(Step(r))

-----------------------------------------------------------------------------
(* Properties *)

(* When DeleteFlavour reports success, nothing is left of any CreateFlavour *)
(* of that id that had ended before: neither a whole flavour nor the half  *)
(* a failed, cut off or interleaved call has left behind.                  *)
DeletedIsGone ==
    \A r \in Requests : req[r].op = "delete" /\ req[r].res = "ok" =>
        /\ inst[req[r].id] \notin req[r].before
        /\ pref[req[r].id] \notin req[r].before

(* A flavour whose creation has been reported stays whole until somebody   *)
(* deletes it: failing creations of the same id do it no harm.             *)
CreatedStays ==
    \A r \in Requests : req[r].op = "create" /\ req[r].res = "ok" =>
        \/ inst[req[r].id] = r /\ pref[req[r].id] = r
        \/ \E p \in Requests \ req[r].before :
                req[p].op = "delete" /\ req[p].id = req[r].id

(* "a same-named object we do not own is never touched": no sequence of    *)
(* creations and deletions changes an object of others.                    *)
ForeignUntouched ==
    [][\A f \in Flavours :
        /\ inst[f] = Foreign => inst'[f] = Foreign
        /\ pref[f] = Foreign => pref'[f] = Foreign]_vars

(* Once requests stop, GetFlavours reports every instance type of          *)
(* kube-vim, those too that failed or interleaved creations have left, so  *)
(* that they can be found and deleted; and it fails only as long as there  *)
(* is one among them that cannot be read back.                             *)
FlavoursAppear ==
    LET ours == {f \in Flavours : inst[f] \in Requests} IN
    <>[](\/ \E r \in Requests : Running(r)
         \/ GetFlavours = IF \E f \in ours : req[inst[f]].opaque
                          THEN Failed ELSE ours)

=============================================================================
