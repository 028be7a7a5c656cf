------------------------------- MODULE Compute -------------------------------
(***************************************************************************)
(* The compute manager (internal/kubevim/compute/kubevirt/manager.go):     *)
(* AllocateComputeResource, DeleteComputeResource with the lookup of       *)
(* GetComputeResource, and ListComputeResources, run by concurrent         *)
(* handlers over lagging caches, an API server whose replies get lost and  *)
(* the KubeVirt controller.                                                *)
(*                                                                         *)
(* A VirtualMachine, its VirtualMachineInstance (VMI) and its cloud-init   *)
(* Secret share a name; nothing else ties them together.  Each step of a   *)
(* handler is one write, one read at the API server or one cache lookup.   *)
(***************************************************************************)
EXTENDS Naturals

CONSTANTS
    Requests,    \* RPC handlers; the UID of a VM is the request that made it
    Names,       \* names of VMs
    MaxFaults,   \* bound: failed or lost calls, crashes, restarted VMIs and
                 \* networks that shadow others
    None

VARIABLES
    vm,        \* the VirtualMachines at the API server
    vmi,       \* their instances
    secret,    \* cloud-init Secrets: the request whose user data they hold
    cVm,       \* the informer cache of VMs: UIDs
    cVmi,      \* the informer cache of VMIs: the names there are
    opaque,    \* names of VMs whose networks, as the caches have them now, make
               \* the conversion to a VirtualCompute fail (see Ipam!ViewSubnet)
    req,       \* the handlers
    shared,    \* names that two handlers have worked on at the same time
    faults

objects == <<vm, vmi, secret>>
caches == <<cVm, cVmi, opaque>>
vars == <<objects, caches, req, shared, faults>>

UserData == {"none", "drive", "metadata"}  \* METADATA_SERVICE is not supported
Pcs == {"idle", "secret", "secret_update", "resolve", "vm", "wait",
        "find", "find_vmi", "delete", "delete_secret", "done"}
Results == {"none", "ok", "err", "crash"}

\* del: the deletion timestamp is set; ud: a volume refers to the Secret.
VmObj == [uid : Requests, ud : BOOLEAN, del : BOOLEAN]
\* data: the user data the guest has booted with.
VmiObj == [vm : Requests, data : Requests \union {None}]

ASSUME ComputeAssumption ==
    /\ None \notin Requests \union Names \union VmObj \union VmiObj
    /\ MaxFaults \in Nat

ReqRec == [pc : Pcs, op : {"none", "allocate", "terminate"},
           name : Names \union {None}, ud : UserData,
           uid : Requests \union {None}, res : Results]

Idle == [pc |-> "idle", op |-> "none", name |-> None, ud |-> "none",
         uid |-> None, res |-> "none"]

TypeOK ==
    /\ vm \in [Names -> VmObj \union {None}]
    /\ vmi \in [Names -> VmiObj \union {None}]
    /\ secret \in [Names -> Requests \union {None}]
    /\ cVm \in [Names -> Requests \union {None}]
    /\ cVmi \in SUBSET Names
    /\ opaque \in SUBSET Names
    /\ req \in [Requests -> ReqRec]
    /\ shared \in SUBSET Names
    /\ faults \in 0..MaxFaults

Init ==
    /\ vm = [n \in Names |-> None] /\ vmi = [n \in Names |-> None]
    /\ secret = [n \in Names |-> None]
    /\ cVm = [n \in Names |-> None] /\ cVmi = {} /\ opaque = {}
    /\ req = [r \in Requests |-> Idle]
    /\ shared = {} /\ faults = 0

-----------------------------------------------------------------------------
(* The API server and the ends of a call *)

Running(r) == req[r].pc \notin {"idle", "done"}

(* A write is applied and answered ("ok"), not applied ("fail") or applied *)
(* with an error as its answer ("lost").                                   *)
Outcomes == {"ok", "fail", "lost"}

Charge(out) ==
    /\ out = "ok" \/ faults < MaxFaults
    /\ faults' = IF out = "ok" THEN faults ELSE faults + 1

Go(r, pc) == req' = [req EXCEPT ![r].pc = pc]

\* Of a call that has ended, what it was and its answer are remembered.
Ended(q, res) ==
    [Idle EXCEPT !.pc = "done", !.op = q.op, !.uid = q.uid, !.res = res]

Finish(r, res) == req' = [req EXCEPT ![r] = Ended(@, res)]

\* Handler r turns to name n: n is shared if another one works on it too.
Claim(r, n) ==
    shared' = IF \E p \in Requests \ {r} : Running(p) /\ req[p].name = n
              THEN shared \union {n} ELSE shared

-----------------------------------------------------------------------------
(* AllocateComputeResource *)

\* The first call that changes anything, when the request passes all checks.
CallAllocate(r, n, ud) ==
    /\ req[r].pc = "idle"
    /\ req' = [req EXCEPT ![r] =
                [Idle EXCEPT !.op = "allocate", !.name = n, !.ud = ud,
                             !.pc = IF ud = "none" THEN "resolve" ELSE "secret"]]
    /\ Claim(r, n)
    /\ UNCHANGED <<objects, caches, faults>>

(* Flavour, image, boot volume or user data are refused before anything is *)
(* written.                                                                *)
Reject(r) ==
    /\ req[r].pc = "idle"
    /\ req' = [req EXCEPT ![r] = [Idle EXCEPT !.op = "allocate", !.pc = "done",
                                              !.res = "err"]]
    /\ UNCHANGED <<objects, caches, shared, faults>>

CreateSecret(r) ==
    /\ req[r].pc = "secret"
    /\ LET n == req[r].name IN
       \/ /\ secret[n] # None                      \* AlreadyExists
          /\ Go(r, "secret_update")
          /\ UNCHANGED <<secret, faults>>
       \/ /\ secret[n] = None
          /\ \E out \in Outcomes :
                /\ Charge(out)
                /\ secret' = IF out = "fail" THEN secret
                             ELSE [secret EXCEPT ![n] = r]
                /\ IF out = "ok" THEN Go(r, "resolve") ELSE Finish(r, "err")
       \/ /\ secret[n] # None                      \* the request fails
          /\ Charge("fail")
          /\ Finish(r, "err")
          /\ UNCHANGED secret
    /\ UNCHANGED <<vm, vmi, caches, shared>>

\* Without a resourceVersion: whatever is there is overwritten.
UpdateSecret(r) ==
    /\ req[r].pc = "secret_update"
    /\ LET n == req[r].name IN
       \/ /\ secret[n] = None
          /\ Finish(r, "err")
          /\ UNCHANGED <<secret, faults>>
       \/ /\ secret[n] # None
          /\ \E out \in Outcomes :
                /\ Charge(out)
                /\ secret' = IF out = "fail" THEN secret
                             ELSE [secret EXCEPT ![n] = r]
                /\ IF out = "ok" THEN Go(r, "resolve") ELSE Finish(r, "err")
    /\ UNCHANGED <<vm, vmi, caches, shared>>

(* The user data method is looked at when the Secret is written, and the   *)
(* interfaces are resolved after that; either may end the call.            *)
Resolve(r) ==
    /\ req[r].pc = "resolve"
    /\ \/ Finish(r, "err")
       \/ req[r].ud # "metadata" /\ Go(r, "vm")
    /\ UNCHANGED <<objects, caches, shared, faults>>

\* Faulty variant: an allocation that fails takes its Secret back, by name.
VmRefusedCleansUp(r) ==
    /\ Finish(r, "err")
    /\ secret' = [secret EXCEPT ![req[r].name] = None]

\* The VM is not created: the error is returned and the Secret stays.
VmRefused(r) ==
    /\ Finish(r, "err")
    /\ UNCHANGED secret

CreateVm(r) ==
    /\ req[r].pc = "vm"
    /\ LET n == req[r].name
           new == [uid |-> r, ud |-> req[r].ud = "drive", del |-> FALSE]
       IN  \/ /\ vm[n] = None
              /\ Charge("ok")
              /\ vm' = [vm EXCEPT ![n] = new]
              /\ Go(r, "wait")
              /\ UNCHANGED secret
           \/ /\ vm[n] = None
              /\ Charge("lost")
              /\ vm' = [vm EXCEPT ![n] = new]
              /\ Finish(r, "err")
              /\ UNCHANGED secret
           \/ /\ IF vm[n] # None THEN UNCHANGED faults ELSE Charge("fail")
              /\ VmRefused(r)
              /\ UNCHANGED vm
    /\ UNCHANGED <<vmi, caches, shared>>

\* What the conversion of a VM, which asks the network manager, makes of a call.
Converted(n) == IF n \in opaque THEN "err" ELSE "ok"

\* waitForVmi, by name and past the cache, and the conversion of VM and VMI.
WaitForVmi(r) ==
    /\ req[r].pc = "wait"
    /\ \/ /\ vmi[req[r].name] # None
          /\ Charge("ok")
          /\ Finish(r, Converted(req[r].name))
       \/ Charge("fail") /\ Finish(r, "err")
    /\ UNCHANGED <<objects, caches, shared>>

\* Faulty variant: waitForVmi polls without a deadline.
NoTimeout(r) ==
    /\ req[r].pc = "wait" /\ vmi[req[r].name] # None
    /\ UNCHANGED <<objects, caches, shared, faults, req>>

\* vmiCreationTimeout, or the caller's own deadline.
Timeout(r) ==
    /\ req[r].pc = "wait" /\ vmi[req[r].name] = None
    /\ Finish(r, "err")
    /\ UNCHANGED <<objects, caches, shared, faults>>

-----------------------------------------------------------------------------
(* DeleteComputeResource by id *)

\* A client knows the id of a VM from an answer or from a list.
CallTerminate(r, u) ==
    /\ req[r].pc = "idle"
    /\ req[u].op = "allocate" /\ req[u].pc \in {"wait", "done"}
    /\ req' = [req EXCEPT ![r] = [Idle EXCEPT !.op = "terminate", !.uid = u,
                                              !.pc = "find"]]
    /\ UNCHANGED <<objects, caches, shared, faults>>

\* Faulty variant: the first VM of the list is taken without comparing UIDs.
MatchesAny(r, n) == cVm[n] # None

\* The VM in the cached list that GetComputeResource takes.
Matches(r, n) == cVm[n] = req[r].uid

\* Faulty variant: a VM the cache does not have counts as deleted.
NotFoundIsOk == "ok"

\* What the lookup of an id that is not there is answered with.
NotFound == "err"

\* Faulty variant: the id is passed on where a name is expected.
FoundId(r, n) == req[r].uid

\* The answer of GetComputeResource names the VM; deletion goes by that name.
FoundName(r, n) == n

FindVm(r) ==
    /\ req[r].pc = "find"
    /\ \/ \E n \in Names :
            /\ Matches(r, n)
            /\ req' = [req EXCEPT ![r].name = FoundName(r, n), ![r].pc = "find_vmi"]
            /\ Claim(r, n)
       \/ /\ \A n \in Names : ~Matches(r, n)
          /\ Finish(r, NotFound)
          /\ UNCHANGED shared
    /\ UNCHANGED <<objects, caches, faults>>

(* computeFromVM: without a VMI in the cache the call fails, as it does    *)
(* when the conversion fails.                                              *)
FindVmi(r) ==
    /\ req[r].pc = "find_vmi"
    /\ \/ req[r].name \in cVmi \ opaque /\ Go(r, "delete") /\ UNCHANGED faults
       \/ req[r].name \notin cVmi \ opaque /\ Finish(r, "err") /\ UNCHANGED faults
       \/ Charge("fail") /\ Finish(r, "err")
    /\ UNCHANGED <<objects, caches, shared>>

\* Faulty variant: the Secret goes first, the VM after it.
DeleteVmSecretFirst(r) ==
    /\ req[r].pc = "delete"
    /\ LET n == req[r].name IN
       /\ secret' = [secret EXCEPT ![n] = None]
       /\ \/ vm[n] # None /\ Charge("ok") /\ Go(r, "delete_secret")
             /\ vm' = [vm EXCEPT ![n].del = TRUE]
          \/ Charge("fail") /\ Finish(r, "err") /\ UNCHANGED vm
    /\ UNCHANGED <<vmi, caches, shared>>

\* By name, without a UID precondition; KubeVirt's finalizer keeps the VM.
DeleteVm(r) ==
    /\ req[r].pc = "delete"
    /\ LET n == req[r].name IN
       \/ /\ vm[n] = None
          /\ Finish(r, "err")
          /\ UNCHANGED <<vm, faults>>
       \/ /\ vm[n] # None
          /\ \E out \in Outcomes :
                /\ Charge(out)
                /\ vm' = IF out = "fail" THEN vm
                         ELSE [vm EXCEPT ![n].del = TRUE]
                /\ IF out = "ok" THEN Go(r, "delete_secret") ELSE Finish(r, "err")
    /\ UNCHANGED <<vmi, secret, caches, shared>>

\* A Secret that is not there is no error.
DeleteSecret(r) ==
    /\ req[r].pc = "delete_secret"
    /\ \E out \in Outcomes :
          /\ Charge(out)
          /\ secret' = IF out = "fail" THEN secret
                       ELSE [secret EXCEPT ![req[r].name] = None]
          /\ Finish(r, IF out = "ok" THEN "ok" ELSE "err")
    /\ UNCHANGED <<vm, vmi, caches, shared>>

-----------------------------------------------------------------------------
(* ListComputeResources *)

\* The answer to a list that fails.
Failed == {None}

\* Faulty variant: only instances that have booted are listed.
ListBooted ==
    LET found == {m \in cVmi : cVm[m] # None /\ vmi[m] # None /\ vmi[m].data # None} IN
    IF found \intersect opaque = {} THEN {cVm[n] : n \in found} ELSE Failed

(* VMs and VMIs are joined by name; a VM without a VMI is skipped.  If one *)
(* of the others cannot be converted, the list fails as a whole.           *)
ListComputeResources ==
    LET found == {m \in cVmi : cVm[m] # None} IN
    IF found \intersect opaque = {} THEN {cVm[n] : n \in found} ELSE Failed

-----------------------------------------------------------------------------
(* The environment *)

WatchVms ==
    /\ cVm' = [n \in Names |-> IF vm[n] = None THEN None ELSE vm[n].uid]
    /\ cVm' # cVm
    /\ UNCHANGED <<objects, cVmi, opaque, req, shared, faults>>

WatchVmis ==
    /\ cVmi' = {n \in Names : vmi[n] # None}
    /\ cVmi' # cVmi
    /\ UNCHANGED <<objects, cVm, opaque, req, shared, faults>>

\* A client creates a Vpc with the name of an SR-IOV network of VM n.
NetworkShadowed(n) ==
    /\ n \notin opaque
    /\ Charge("fail")
    /\ opaque' = opaque \union {n}
    /\ UNCHANGED <<objects, cVm, cVmi, req, shared>>

\* It is deleted, or the SR-IOV network is.
NetworkRestored(n) ==
    /\ n \in opaque
    /\ opaque' = opaque \ {n}
    /\ UNCHANGED <<objects, cVm, cVmi, req, shared, faults>>

\* KubeVirt: RunStrategyAlways keeps an instance for every VM.
StartVmi(n) ==
    /\ vm[n] # None /\ ~vm[n].del /\ vmi[n] = None
    /\ vmi' = [vmi EXCEPT ![n] = [vm |-> vm[n].uid, data |-> None]]
    /\ UNCHANGED <<vm, secret, caches, req, shared, faults>>

\* The launcher reads the Secret when the guest starts, and waits for it.
Boot(n) ==
    /\ vm[n] # None /\ vm[n].ud
    /\ vmi[n] # None /\ vmi[n].data = None
    /\ secret[n] # None
    /\ vmi' = [vmi EXCEPT ![n].data = secret[n]]
    /\ UNCHANGED <<vm, secret, caches, req, shared, faults>>

\* A node or a guest fails; StartVmi replaces the instance.
LoseVmi(n) ==
    /\ vmi[n] # None
    /\ Charge("fail")
    /\ vmi' = [vmi EXCEPT ![n] = None]
    /\ UNCHANGED <<vm, secret, caches, req, shared>>

\* The finalizer: the instance goes first, then the VM.
FinalizeVm(n) ==
    /\ vm[n] # None /\ vm[n].del
    /\ IF vmi[n] # None
       THEN vmi' = [vmi EXCEPT ![n] = None] /\ vm' = vm
       ELSE vm' = [vm EXCEPT ![n] = None] /\ vmi' = vmi
    /\ UNCHANGED <<secret, caches, req, shared, faults>>

\* kube-vim is killed and lists its caches afresh.
Crash ==
    /\ \E r \in Requests : Running(r)
    /\ Charge("fail")
    /\ req' = [r \in Requests |-> IF Running(r)
                THEN Ended(req[r], "crash") ELSE req[r]]
    /\ cVm' = [n \in Names |-> IF vm[n] = None THEN None ELSE vm[n].uid]
    /\ cVmi' = {n \in Names : vmi[n] # None}
    /\ UNCHANGED <<objects, opaque, shared>>

-----------------------------------------------------------------------------

Step(r) == \/ CreateSecret(r) \/ UpdateSecret(r) \/ Resolve(r) \/ CreateVm(r)
           \/ WaitForVmi(r) \/ Timeout(r)
           \/ FindVm(r) \/ FindVmi(r) \/ DeleteVm(r) \/ DeleteSecret(r)

Call(r) == \/ \E n \in Names, ud \in UserData : CallAllocate(r, n, ud)
           \/ Reject(r)
           \/ \E u \in Requests : CallTerminate(r, u)

Cluster(n) == StartVmi(n) \/ Boot(n) \/ LoseVmi(n) \/ FinalizeVm(n)

Next == \/ \E r \in Requests : Step(r) \/ Call(r)
        \/ \E n \in Names : Cluster(n) \/ NetworkShadowed(n) \/ NetworkRestored(n)
        \/ WatchVms \/ WatchVmis \/ Crash

Spec == Init /\ [][Next]_vars

\* Handlers run on; watches and KubeVirt catch up.  Clients owe nothing.
FairSpec ==
    /\ Spec
    /\ \A r \in Requests : WF_vars(Step(r))
    /\ WF_vars(WatchVms) /\ WF_vars(WatchVmis)
    /\ \A n \in Names : /\ WF_vars(StartVmi(n)) /\ WF_vars(Boot(n))
                        /\ WF_vars(FinalizeVm(n))

-----------------------------------------------------------------------------
(* Properties *)

(* As long as no two calls worked on a name at the same time, the VM of    *)
(* that name has the Secret it boots from, however its own and other calls *)
(* failed, were cut off or met a stale cache: DeleteComputeResource        *)
(* deletes the VM before the Secret, and AllocateComputeResource never     *)
(* takes a Secret back.                                                    *)
LiveVmHasSecret ==
    \A n \in Names \ shared :
        vm[n] # None /\ ~vm[n].del /\ vm[n].ud => secret[n] # None

(* When TerminateVirtualisedComputeResource reports success, the VM with   *)
(* the given id is gone or on its way, for good: the id was resolved in a  *)
(* cache that may be stale, and the VM deleted by name.                    *)
TerminatedVmIsGone ==
    \A r \in Requests, n \in Names :
        req[r].op = "terminate" /\ req[r].res = "ok" /\ vm[n] # None
            => vm[n].uid # req[r].uid \/ vm[n].del

\* Two terminations of one VM have been sent.
TerminatedTwice ==
    \E p, q \in Requests : /\ p # q /\ req[p].uid = req[q].uid
                           /\ req[p].op = "terminate" /\ req[q].op = "terminate"

(* DeleteComputeResource resolves an id to a name in the cache and deletes *)
(* what has that name at the API server.  If no VM is ever terminated      *)
(* twice, this is the VM that was meant, although names are reused.        *)
TerminateHitsItsOwn ==
    [][\A r \in Requests, n \in Names :
        /\ req'[r] # req[r] /\ ~TerminatedTwice
        /\ vm[n] # None /\ ~vm[n].del /\ vm'[n] # vm[n]
        => vm[n].uid = req[r].uid]_vars

(* Every call returns: an allocation does not wait for an instance that    *)
(* never comes because somebody deleted the VM.                            *)
EveryCallReturns == \A r \in Requests : Running(r) ~> req[r].pc = "done"

\* The names of the VMs that are there to stay.
LiveNames == {n \in Names : vm[n] # None /\ ~vm[n].del}

(* "VMI not present yet [...] Skip it; it will appear on a subsequent      *)
(* list": once requests stop, ListComputeResources reports exactly the VMs *)
(* that exist, for good, also those that wait for a Secret.  It fails only *)
(* while one of those cannot be converted, which then hides all of them.   *)
ListRecovers ==
    <>[](\/ \E r \in Requests : Running(r)
         \/ ListComputeResources =
                IF LiveNames \intersect opaque = {} THEN {vm[n].uid : n \in LiveNames}
                ELSE Failed)

(* "pass NoCloud / ConfigDrive user-data via Kubernetes Secret": a guest   *)
(* boots with the user data of the request that created its VM.  A second  *)
(* allocation of the name overwrites the Secret and only then finds that   *)
(* the VM exists.                                                          *)
BootsOwnUserData ==
    \A n \in Names : vmi[n] # None => vmi[n].data \in {None, vmi[n].vm}

=============================================================================
