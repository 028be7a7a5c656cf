--------------------------- MODULE KubeOvnNetwork ---------------------------
(***************************************************************************)
(* The kube-ovn network manager of kube-vim                                *)
(* (internal/kubevim/network/kubeovn/manager.go), as it is driven by the   *)
(* concurrent gRPC handlers AllocateVirtualisedNetworkResource and         *)
(* TerminateVirtualisedNetworkResource (server/grpc/vivnfm/server.go).     *)
(*                                                                         *)
(* kube-vim keeps no state of its own.  A network is a Vpc (overlay) or a  *)
(* Vlan (underlay) object, a subnet is a Subnet object plus a              *)
(* NetworkAttachmentDefinition (NAD).  Handlers write straight to the API  *)
(* server and read from informer caches that lag behind it; which subnets  *)
(* belong to a network is read from Status.Subnets, which the kube-ovn     *)
(* controller fills in asynchronously.  Every step below is one write to   *)
(* the API server or one cache lookup, so any two requests interleave      *)
(* between any two calls.                                                  *)
(***************************************************************************)
EXTENDS Naturals

CONSTANTS
    Requests,    \* the gRPC calls of a behaviour; each is issued at most once
    Names,       \* network names
    MaxL3,       \* bound: layer-3 attributes (subnets) in one network request
    MaxFaults,   \* bound: failed writes, lost replies, cancellations, crashes
    None         \* "no such object"

VARIABLES
    net,      \* API server: net[k][n], the Vpc (k = "vpc") or Vlan named n
    subnet,   \* API server: subnet[s], the Subnet named s
    nad,      \* API server: the subnet names whose NAD exists
    cNet,     \* informer caches of Vpcs and Vlans
    cSub,     \* informer cache of Subnets
    req,      \* req[r], the local state of handler r
    faults,   \* how many faults have happened
    tainted   \* history: subnets whose Create was applied but reported failed

vars == <<net, subnet, nad, cNet, cSub, req, faults, tainted>>
api == <<net, subnet, nad>>
caches == <<cNet, cSub>>

-----------------------------------------------------------------------------
(* Objects and requests *)

Kinds == {"vpc", "vlan"}

\* formatSubnetName: the L3 attribute i of network n becomes subnet <<n, i>>.
SubnetNames == Names \X (1..MaxL3)

(* A handler creates at most one network and at most MaxL3 subnets, so the *)
(* pair of the handler and the position of the object in its request is a  *)
(* UID no other object ever carries.                                       *)
Uids == Requests \X (0..MaxL3)
NetUid(r) == <<r, 0>>
SubUid(r, i) == <<r, i>>

\* Status.Subnets is the set of names the controller last wrote.
NetObj == [uid : Uids, subnets : SUBSET SubnetNames]

\* kind/net are Spec.Vpc or Spec.Vlan, netId the network-id label.
SubnetObj == [uid : Uids, kind : Kinds \union {None},
              net : Names \union {None}, netId : Uids \union {None}]

FoundNet == [kind : Kinds, name : Names, uid : Uids]

CsPcs == {"cs_vpc", "cs_vlan", "cs_nad", "cs_subnet", "cs_cleanup"}
DsPcs == {"dn_vpc", "dn_vlan", "dn_loop", "ds_subnet", "ds_nad"}
Pcs == {"idle", "create", "done"} \union CsPcs \union DsPcs

Ops == {"none", "createNet", "createSub", "terminate"}

(* op        the call, with its arguments kind, name, l3 (how many L3      *)
(*           attributes), bad (the index of an attribute that cannot be    *)
(*           converted, 0 if all can), sub (subnet name), uid (network id  *)
(*           of CreateSubnet or id to terminate)                           *)
(* idx       the L3 attribute being created                                *)
(* found     what GetNetwork returned                                      *)
(* todo      ids of subnets DeleteNetwork has still to delete              *)
(* seen      all ids DeleteNetwork or DeleteSubnet set out to delete       *)
(* fall      TerminateVirtualisedNetworkResource fell through to           *)
(*           DeleteSubnet                                                  *)
(* cancelled the request context is cancelled                              *)
Request == [pc : Pcs, op : Ops, kind : Kinds, name : Names \union {None},
            l3 : 0..MaxL3, bad : 0..MaxL3, idx : 0..MaxL3,
            sub : SubnetNames \union {None}, uid : Uids \union {None},
            found : FoundNet \union {None}, todo : SUBSET Uids,
            seen : SUBSET Uids, fall : BOOLEAN, cancelled : BOOLEAN,
            res : {"none", "ok", "err", "notfound", "lost"}]

Idle == [pc |-> "idle", op |-> "none", kind |-> "vpc", name |-> None,
         l3 |-> 0, bad |-> 0, idx |-> 0, sub |-> None, uid |-> None,
         found |-> None, todo |-> {}, seen |-> {}, fall |-> FALSE,
         cancelled |-> FALSE, res |-> "none"]

ASSUME ConstantsAssumption ==
    /\ MaxL3 \in Nat
    /\ MaxFaults \in Nat
    /\ None \notin NetObj \union SubnetObj \union FoundNet
    /\ None \notin Names \union SubnetNames \union Uids \union Kinds

TypeOK ==
    /\ net \in [Kinds -> [Names -> NetObj \union {None}]]
    /\ subnet \in [SubnetNames -> SubnetObj \union {None}]
    /\ nad \subseteq SubnetNames
    /\ cNet \in [Kinds -> [Names -> NetObj \union {None}]]
    /\ cSub \in [SubnetNames -> SubnetObj \union {None}]
    /\ req \in [Requests -> Request]
    /\ faults \in 0..MaxFaults
    /\ tainted \subseteq SubnetNames

Init ==
    /\ net = [k \in Kinds |-> [n \in Names |-> None]]
    /\ subnet = [s \in SubnetNames |-> None]
    /\ nad = {}
    /\ cNet = net
    /\ cSub = subnet
    /\ req = [r \in Requests |-> Idle]
    /\ faults = 0
    /\ tainted = {}

Running(r) == req[r].pc \notin {"idle", "done"}

-----------------------------------------------------------------------------
(* How a write to the API server may end for the caller                    *)

(* "ok" reached the API server and the caller learned the answer; "fail"   *)
(* did not reach it; "lost" was applied, but the caller got an error.      *)
(* A write made under a cancelled context fails; one that is under way     *)
(* when its context is cancelled is a "fail" or "lost" followed by Cancel. *)
Outcomes(cancelled) ==
    IF cancelled THEN {"fail"}
    ELSE {"ok"} \union (IF faults < MaxFaults THEN {"fail", "lost"} ELSE {})

\* A cancelled write spends no fault: the cancellation was counted.
Charge(o, cancelled) ==
    faults' = IF o = "ok" \/ cancelled THEN faults ELSE faults + 1

-----------------------------------------------------------------------------
(* How the procedures return to their callers *)

(* A handler that has returned keeps what the properties ask about: the    *)
(* answer, and what a termination was asked and set out to delete.         *)
Finish(q, res) ==
    [Idle EXCEPT !.pc = "done", !.op = q.op, !.res = res,
                 !.uid = IF q.op = "terminate" THEN q.uid ELSE None,
                 !.seen = IF q.op = "terminate" THEN q.seen ELSE {}]

(* CreateSubnet failed: a network request rolls back with DeleteNetwork by *)
(* name, a subnet request reports the error.                               *)
CreateSubnetFailed(q, res) ==
    IF q.op = "createNet"
    THEN [Idle EXCEPT !.pc = "dn_vpc", !.op = "createNet", !.name = q.name,
                      !.cancelled = q.cancelled]
    ELSE Finish(q, res)

\* Faulty variant: the loop runs one attribute too far.
NextL3OffByOne(q) ==
    IF q.op = "createNet" /\ q.idx <= q.l3
    THEN [q EXCEPT !.pc = "cs_vpc", !.idx = q.idx + 1, !.found = None,
                   !.sub = <<q.name, q.idx + 1>>]
    ELSE Finish(q, "ok")

\* allocateL3Attributes goes on to the next attribute, if there is one.
NextL3(q) ==
    IF q.op = "createNet" /\ q.idx < q.l3
    THEN [q EXCEPT !.pc = "cs_vpc", !.idx = q.idx + 1, !.found = None,
                   !.sub = <<q.name, q.idx + 1>>]
    ELSE Finish(q, "ok")

\* Faulty variant: a rollback skips what it cannot delete and goes on.
DeleteFailedKeepsGoing(q, res) ==
    IF q.op = "createNet" /\ q.found # None
    THEN [q EXCEPT !.pc = "dn_loop", !.sub = None]
    ELSE IF q.op # "createNet" /\ ~q.fall /\ res = "notfound"
    THEN [q EXCEPT !.pc = "dn_loop", !.fall = TRUE, !.found = None, !.sub = None,
                   !.todo = {q.uid}, !.seen = @ \union {q.uid}]
    ELSE Finish(q, res)

\* Faulty variant: the fall-through is tried again whenever it finds nothing.
DeleteFailedRetries(q, res) ==
    IF q.op = "createNet" THEN Finish(q, "err")
    ELSE IF res = "notfound"
    THEN [q EXCEPT !.pc = "dn_loop", !.fall = TRUE, !.found = None, !.sub = None,
                   !.todo = {q.uid}, !.seen = @ \union {q.uid}]
    ELSE Finish(q, res)

(* DeleteNetwork or DeleteSubnet failed.  A rollback ignores the error;    *)
(* Terminate tries the id as a subnet when the network was not found.      *)
DeleteFailed(q, res) ==
    IF q.op = "createNet" THEN Finish(q, "err")
    ELSE IF ~q.fall /\ res = "notfound"
    THEN [q EXCEPT !.pc = "dn_loop", !.fall = TRUE, !.found = None, !.sub = None,
                   !.todo = {q.uid}, !.seen = @ \union {q.uid}]
    ELSE Finish(q, res)

DeleteSubnetDone(q) ==
    IF q.fall THEN Finish(q, "ok") ELSE [q EXCEPT !.pc = "dn_loop", !.sub = None]

\* DeleteNetwork done: success for Terminate, the original error for a rollback.
DeleteNetworkDone(q) == Finish(q, IF q.op = "createNet" THEN "err" ELSE "ok")

-----------------------------------------------------------------------------
(* Requests arrive *)

\* The identifiers a client can hold: those of objects that exist.
NetIds == {u \in Uids : \E k \in Kinds, n \in Names :
                            net[k][n] # None /\ net[k][n].uid = u}
SubnetIds == {u \in Uids : \E s \in SubnetNames :
                            subnet[s] # None /\ subnet[s].uid = u}

(* An L3 attribute may name its network itself (uid); otherwise            *)
(* allocateL3Attributes fills in the name of the new network.              *)
CallCreateNetwork(r) ==
    /\ req[r].pc = "idle"
    /\ \E k \in Kinds, n \in Names, l3 \in 0..MaxL3, u \in NetIds \union {None} :
         \E bad \in 0..l3 :
            /\ l3 = 0 => u = None
            /\ req' = [req EXCEPT ![r] = [Idle EXCEPT !.pc = "create",
                        !.op = "createNet", !.kind = k, !.name = n,
                        !.l3 = l3, !.bad = bad, !.uid = u]]
    /\ UNCHANGED <<api, caches, faults, tainted>>

\* NetworkId holds a network's id, its name, or nothing at all.
CallCreateSubnet(r) ==
    /\ req[r].pc = "idle"
    /\ \E s \in SubnetNames, u \in NetIds \union {None}, n \in Names \union {None} :
        /\ u = None \/ n = None
        /\ req' = [req EXCEPT ![r] = [Idle EXCEPT
                     !.pc = IF u = None /\ n = None THEN "cs_nad" ELSE "cs_vpc",
                     !.op = "createSub", !.sub = s, !.name = n, !.idx = 1, !.uid = u]]
    /\ UNCHANGED <<api, caches, faults, tainted>>

CallTerminate(r) ==
    /\ req[r].pc = "idle"
    /\ \E u \in NetIds \union SubnetIds :
            req' = [req EXCEPT ![r] = [Idle EXCEPT
                        !.pc = "dn_vpc", !.op = "terminate", !.uid = u]]
    /\ UNCHANGED <<api, caches, faults, tainted>>

\* Arguments that are refused before any call to the API server.
Reject(r) ==
    /\ req[r].pc = "idle"
    /\ req' = [req EXCEPT ![r] = Finish(Idle, "err")]
    /\ UNCHANGED <<api, caches, faults, tainted>>

-----------------------------------------------------------------------------
(* CreateNetwork: client.Create of the Vpc or Vlan *)

CreateNetworkObject(r) ==
    LET q == req[r] IN
    /\ q.pc = "create"
    /\ \E o \in Outcomes(q.cancelled) :
        /\ Charge(o, q.cancelled)
        /\ IF net[q.kind][q.name] = None /\ o # "fail"
           THEN net' = [net EXCEPT ![q.kind][q.name] =
                                [uid |-> NetUid(r), subnets |-> {}]]
           ELSE net' = net
        /\ req' = [req EXCEPT ![r] =
                IF net[q.kind][q.name] = None /\ o = "ok"
                THEN NextL3(q) ELSE Finish(q, "err")]
    /\ UNCHANGED <<subnet, nad, caches, tainted>>

-----------------------------------------------------------------------------
(* GetNetwork: overlay first, then underlay, from the caches *)

\* The object named n in the cache of kind k is the one request q asks for.
Selected(q, k, n) ==
    /\ cNet[k][n] # None
    /\ IF q.uid = None
       THEN n = q.name
       ELSE cNet[k][n].uid = q.uid

\* Every name in Status.Subnets resolves in the subnet cache.
Resolves(k, n) == \A s \in cNet[k][n].subnets : cSub[s] # None

ResolvedIds(k, n) == {cSub[s].uid : s \in cNet[k][n].subnets}

(* What getOverlayNetwork or getUnderlayNetwork finds: a network that is   *)
(* missing, and one with an unresolved subnet, are both "not found".       *)
GetNetwork(q, k) == {n \in Names : Selected(q, k, n) /\ Resolves(k, n)}

FoundNetwork(k, n) == [kind |-> k, name |-> n, uid |-> cNet[k][n].uid]

\* CreateSubnet has its network; the attribute may still fail to convert.
CreateSubnetIn(q, k, n) ==
    IF q.op = "createNet" /\ q.idx = q.bad THEN CreateSubnetFailed(q, "err")
    ELSE [q EXCEPT !.pc = "cs_nad", !.found = FoundNetwork(k, n)]

\* Faulty variant: the subnets are reported and not deleted.
DeleteNetworkInSkipsSubnets(q, k, n) ==
    [q EXCEPT !.pc = "dn_loop", !.found = FoundNetwork(k, n),
              !.todo = {}, !.seen = ResolvedIds(k, n)]

\* DeleteNetwork has its network and the ids of its subnets.
DeleteNetworkIn(q, k, n) ==
    [q EXCEPT !.pc = "dn_loop", !.found = FoundNetwork(k, n),
              !.todo = ResolvedIds(k, n), !.seen = ResolvedIds(k, n)]

CreateSubnetGetOverlay(r) ==
    LET q == req[r] IN
    /\ q.pc = "cs_vpc"
    /\ \/ \E n \in GetNetwork(q, "vpc") :
             req' = [req EXCEPT ![r] = CreateSubnetIn(q, "vpc", n)]
       \/ /\ GetNetwork(q, "vpc") = {}
          /\ req' = [req EXCEPT ![r].pc = "cs_vlan"]
    /\ UNCHANGED <<api, caches, faults, tainted>>

CreateSubnetGetUnderlay(r) ==
    LET q == req[r] IN
    /\ q.pc = "cs_vlan"
    /\ \/ \E n \in GetNetwork(q, "vlan") :
             req' = [req EXCEPT ![r] = CreateSubnetIn(q, "vlan", n)]
       \/ /\ GetNetwork(q, "vlan") = {}
          /\ req' = [req EXCEPT ![r] = CreateSubnetFailed(q, "notfound")]
    /\ UNCHANGED <<api, caches, faults, tainted>>

DeleteNetworkGetOverlay(r) ==
    LET q == req[r] IN
    /\ q.pc = "dn_vpc"
    /\ \/ \E n \in GetNetwork(q, "vpc") :
             req' = [req EXCEPT ![r] = DeleteNetworkIn(q, "vpc", n)]
       \/ /\ GetNetwork(q, "vpc") = {}
          /\ req' = [req EXCEPT ![r].pc = "dn_vlan"]
    /\ UNCHANGED <<api, caches, faults, tainted>>

DeleteNetworkGetUnderlay(r) ==
    LET q == req[r] IN
    /\ q.pc = "dn_vlan"
    /\ \/ \E n \in GetNetwork(q, "vlan") :
             req' = [req EXCEPT ![r] = DeleteNetworkIn(q, "vlan", n)]
       \/ /\ GetNetwork(q, "vlan") = {}
          /\ req' = [req EXCEPT ![r] = DeleteFailed(q, "notfound")]
    /\ UNCHANGED <<api, caches, faults, tainted>>

-----------------------------------------------------------------------------
(* CreateSubnet: the NAD first, then the Subnet *)

\* Faulty variant: the cleanup also runs when the NAD was not created.
NetAttachRefusedCleansUp(q) == [q EXCEPT !.pc = "cs_cleanup"]

\* The NAD could not be created: return at once, there is nothing to clean up.
NetAttachRefused(q) == CreateSubnetFailed(q, "err")

CreateNetAttach(r) ==
    LET q == req[r] IN
    /\ q.pc = "cs_nad"
    /\ \E o \in Outcomes(q.cancelled) :
        /\ Charge(o, q.cancelled)
        /\ nad' = IF o = "fail" THEN nad ELSE nad \union {q.sub}
        /\ req' = [req EXCEPT ![r] =
                IF q.sub \notin nad /\ o = "ok"
                THEN [q EXCEPT !.pc = "cs_subnet"]
                ELSE NetAttachRefused(q)]
    /\ UNCHANGED <<net, subnet, caches, tainted>>

\* Spec.Vpc or Spec.Vlan and the labels come from what GetNetwork returned.
NewSubnet(r) ==
    LET q == req[r] IN
    IF q.found = None
    THEN [uid |-> SubUid(r, q.idx), kind |-> None, net |-> None, netId |-> None]
    ELSE [uid |-> SubUid(r, q.idx), kind |-> q.found.kind,
          net |-> q.found.name, netId |-> q.found.uid]

CreateSubnetObject(r) ==
    LET q == req[r] IN
    /\ q.pc = "cs_subnet"
    /\ \E o \in Outcomes(q.cancelled) :
        /\ Charge(o, q.cancelled)
        /\ IF subnet[q.sub] = None /\ o # "fail"
           THEN /\ subnet' = [subnet EXCEPT ![q.sub] = NewSubnet(r)]
                /\ tainted' = IF o = "lost" THEN tainted \union {q.sub}
                                            ELSE tainted
           ELSE UNCHANGED <<subnet, tainted>>
        /\ req' = [req EXCEPT ![r] =
                IF subnet[q.sub] = None /\ o = "ok"
                THEN NextL3(q) ELSE [q EXCEPT !.pc = "cs_cleanup"]]
    /\ UNCHANGED <<net, nad, caches>>

\* Runs under context.WithoutCancel, and its result is ignored.
CleanupNetAttach(r) ==
    LET q == req[r] IN
    /\ q.pc = "cs_cleanup"
    /\ \E o \in Outcomes(FALSE) :
        /\ Charge(o, FALSE)
        /\ nad' = IF o = "fail" THEN nad ELSE nad \ {q.sub}
        /\ req' = [req EXCEPT ![r] = CreateSubnetFailed(q, "err")]
    /\ UNCHANGED <<net, subnet, caches, tainted>>

-----------------------------------------------------------------------------
(* DeleteSubnet by id: look the name up in the cache, then delete by name  *)

\* GetSubnet by id; Status.Subnets has no order the code relies on.
DeleteSubnetGet(r) ==
    LET q == req[r] IN
    /\ q.pc = "dn_loop"
    /\ \E u \in q.todo :
        LET ss == {s \in SubnetNames : cSub[s] # None /\ cSub[s].uid = u} IN
        \/ \E s \in ss : req' = [req EXCEPT ![r] =
              [q EXCEPT !.pc = "ds_subnet", !.sub = s, !.todo = @ \ {u}]]
        \/ /\ ss = {}
           /\ req' = [req EXCEPT ![r] = DeleteFailed(q, "notfound")]
    /\ UNCHANGED <<api, caches, faults, tainted>>

\* Faulty variant: an absent object counts as deleted.
DeletedOrAbsent(o, exists) == o = "ok"

\* client.Delete returns no error: the object was there, the answer arrived.
Deleted(o, exists) == exists /\ o = "ok"

\* The class of a delete's error: the object was absent, or the call failed.
DeleteError(o) == IF o = "ok" THEN "notfound" ELSE "err"

\* Faulty variant: the NAD is forgotten.
SubnetDeletedForgetsNad(q) == DeleteSubnetDone(q)

\* The Subnet is deleted, its NAD is next.
SubnetDeleted(q) == [q EXCEPT !.pc = "ds_nad"]

DeleteSubnetObject(r) ==
    LET q == req[r] IN
    /\ q.pc = "ds_subnet"
    /\ \E o \in Outcomes(q.cancelled) :
        /\ Charge(o, q.cancelled)
        /\ subnet' = IF o = "fail" THEN subnet
                     ELSE [subnet EXCEPT ![q.sub] = None]
        /\ req' = [req EXCEPT ![r] =
                IF Deleted(o, subnet[q.sub] # None)
                THEN SubnetDeleted(q)
                ELSE DeleteFailed(q, DeleteError(o))]
    /\ UNCHANGED <<net, nad, caches, tainted>>

DeleteNetAttach(r) ==
    LET q == req[r] IN
    /\ q.pc = "ds_nad"
    /\ \E o \in Outcomes(q.cancelled) :
        /\ Charge(o, q.cancelled)
        /\ nad' = IF o = "fail" THEN nad ELSE nad \ {q.sub}
        /\ req' = [req EXCEPT ![r] =
                IF Deleted(o, q.sub \in nad)
                THEN DeleteSubnetDone(q) ELSE DeleteFailed(q, DeleteError(o))]
    /\ UNCHANGED <<net, subnet, caches, tainted>>

\* DeleteNetwork, last: the Vpc or Vlan, by the name GetNetwork returned.
DeleteNetworkObject(r) ==
    LET q == req[r] IN
    /\ q.pc = "dn_loop" /\ q.todo = {}
    /\ \E o \in Outcomes(q.cancelled) :
        /\ Charge(o, q.cancelled)
        /\ net' = IF o = "fail" THEN net
                  ELSE [net EXCEPT ![q.found.kind][q.found.name] = None]
        /\ req' = [req EXCEPT ![r] =
                IF Deleted(o, net[q.found.kind][q.found.name] # None)
                THEN DeleteNetworkDone(q)
                ELSE DeleteFailed(q, DeleteError(o))]
    /\ UNCHANGED <<subnet, nad, caches, tainted>>

-----------------------------------------------------------------------------
(* ListNetworks: all networks of the caches, or an error *)

\* One status that names a subnet the cache lacks fails the whole listing.
ListNetworks ==
    IF \A k \in Kinds, n \in Names : cNet[k][n] # None => Resolves(k, n)
    THEN {u \in Uids : \E k \in Kinds, n \in Names :
                            cNet[k][n] # None /\ cNet[k][n].uid = u}
    ELSE None

-----------------------------------------------------------------------------
(* The environment: watches, the kube-ovn controller, clients, crashes     *)

(* A cache moves to the API server's current state; delaying the step is   *)
(* all the lag a watch can have.                                           *)
WatchNetworks(k) ==
    /\ cNet[k] # net[k]
    /\ cNet' = [cNet EXCEPT ![k] = net[k]]
    /\ UNCHANGED <<api, cSub, req, faults, tainted>>

WatchSubnets ==
    /\ cSub # subnet
    /\ cSub' = subnet
    /\ UNCHANGED <<api, cNet, req, faults, tainted>>

\* The subnets whose Spec points at network n of kind k.
Attached(k, n) == {s \in SubnetNames :
    subnet[s] # None /\ subnet[s].kind = k /\ subnet[s].net = n}

\* kube-ovn brings Status.Subnets up to date.
Reconcile(k, n) ==
    /\ net[k][n] # None
    /\ net[k][n].subnets # Attached(k, n)
    /\ net' = [net EXCEPT ![k][n].subnets = Attached(k, n)]
    /\ UNCHANGED <<subnet, nad, caches, req, faults, tainted>>

\* The client gives up: the context is cancelled, the handler goes on.
Cancel(r) ==
    /\ Running(r) /\ ~req[r].cancelled
    /\ faults < MaxFaults
    /\ faults' = faults + 1
    /\ req' = [req EXCEPT ![r].cancelled = TRUE]
    /\ UNCHANGED <<api, caches, tainted>>

(* kube-vim crashes and restarts: every handler is gone where it stood,    *)
(* and the caches are listed afresh before the server starts.              *)
Crash ==
    /\ \E r \in Requests : Running(r)
    /\ faults < MaxFaults
    /\ faults' = faults + 1
    /\ req' = [r \in Requests |->
                 IF Running(r) THEN Finish(req[r], "lost") ELSE req[r]]
    /\ cNet' = net
    /\ cSub' = subnet
    /\ UNCHANGED <<api, tainted>>

-----------------------------------------------------------------------------

Call(r) == \/ CallCreateNetwork(r) \/ CallCreateSubnet(r)
           \/ CallTerminate(r) \/ Reject(r)

Step(r) == \/ CreateNetworkObject(r)
           \/ CreateSubnetGetOverlay(r) \/ CreateSubnetGetUnderlay(r)
           \/ CreateNetAttach(r) \/ CreateSubnetObject(r) \/ CleanupNetAttach(r)
           \/ DeleteNetworkGetOverlay(r) \/ DeleteNetworkGetUnderlay(r)
           \/ DeleteSubnetGet(r) \/ DeleteSubnetObject(r) \/ DeleteNetAttach(r)
           \/ DeleteNetworkObject(r)

Sync == \/ \E k \in Kinds : WatchNetworks(k)
        \/ WatchSubnets
        \/ \E k \in Kinds, n \in Names : Reconcile(k, n)

Next == \/ \E r \in Requests : Call(r) \/ Step(r) \/ Cancel(r)
        \/ Sync
        \/ Crash

Spec == Init /\ [][Next]_vars

-----------------------------------------------------------------------------
(* Safety *)

(* Which call a handler can be executing at each point, and what it then   *)
(* knows: the shape of the call tree of CreateNetwork, CreateSubnet and    *)
(* Terminate.                                                              *)
WellFormed(q) ==
    /\ q.pc = "create" => q.op = "createNet"
    /\ q.pc \in CsPcs => q.op \in {"createNet", "createSub"}
    /\ q.pc \in DsPcs => q.op \in {"createNet", "terminate"}
    /\ q.pc \in CsPcs \union {"ds_subnet", "ds_nad"} => q.sub \in SubnetNames
    /\ q.op = "createNet" /\ q.pc # "done" => q.name \in Names
    /\ q.op = "terminate" => q.uid \in Uids
    /\ q.fall => q.op = "terminate"
    /\ q.pc = "idle" => q.op = "none" /\ ~q.cancelled

CallTree == \A r \in Requests : WellFormed(req[r])

(* Handler r is responsible for the NAD of s: it has created it and not    *)
(* yet the Subnet, or has deleted the Subnet and not yet the NAD.          *)
HoldPcs == {"cs_subnet", "cs_cleanup", "ds_nad"}
Holds(r, s) ==
    req[r].pc \in HoldPcs /\ req[r].sub = s

(* No live subnet is without its NetworkAttachmentDefinition, whatever the *)
(* interleaving of CreateSubnet, its cleanup, DeleteSubnet, rollbacks and  *)
(* crashes - unless the API server applied the Subnet's Create and         *)
(* reported an error, which makes CreateSubnet remove the NAD under it.    *)
SubnetHasNad ==
    \A s \in SubnetNames \ tainted : subnet[s] # None => s \in nad

(* Create of the NAD is the lock on a subnet name: two handlers never both *)
(* believe they own the NAD of one name, and its owner finds no Subnet.    *)
NadIsLock ==
    \A s \in SubnetNames \ tainted, r \in Requests : Holds(r, s) =>
        /\ s \in nad
        /\ subnet[s] = None
        /\ \A p \in Requests : Holds(p, s) => p = r

(* CreateSubnet and DeleteSubnet leak no NAD by interleaving alone: one    *)
(* with neither Subnet nor owner exists only after a fault.                *)
NadLeaksOnlyByFault ==
    faults = 0 => \A s \in nad :
        subnet[s] # None \/ \E r \in Requests : Holds(r, s)

\* Lost replies and cancellations are faults.
FaultsCounted ==
    faults = 0 => tainted = {} /\ \A r \in Requests : ~req[r].cancelled

\* Inductive together with TypeOK and CallTree.
NadInv ==
    SubnetHasNad /\ NadIsLock /\ NadLeaksOnlyByFault /\ FaultsCounted

(* DeleteNetwork removes the Vpc or Vlan only after every subnet it had    *)
(* resolved: when a subnet cannot be deleted, the network stays as the     *)
(* handle for another attempt.  This holds for rollbacks too.              *)
NetworkOutlivesSubnets ==
    [][\A k \in Kinds, n \in Names, r \in Requests :
        /\ net[k][n] # None /\ net'[k][n] = None
        /\ req'[r] # req[r]
        => req[r].seen \intersect SubnetIds = {}]_vars

(* When TerminateVirtualisedNetworkResource reports success, the object    *)
(* with the given id is gone for good, and so is every subnet that         *)
(* DeleteNetwork had resolved for it.                                      *)
TerminatedIsGone ==
    \A r \in Requests :
        req[r].op = "terminate" /\ req[r].res = "ok" =>
            ({req[r].uid} \union req[r].seen) \intersect (NetIds \union SubnetIds) = {}

-----------------------------------------------------------------------------
(* What the code says of itself and does not do *)

\* The API server holds an object that handler r created.
LeftBy(r) == \E u \in NetIds \union SubnetIds : u[1] = r

(* "create vpc l3 attributes (resources cleaned up)": after a CreateNetwork *)
(* that reports an error nothing it created is left.  The rollback looks   *)
(* its own network up in a cache that need not have it yet, and by name,   *)
(* so that a network of the other kind may answer.                         *)
FailedCreateLeavesNothing ==
    \A r \in Requests :
        req[r].op = "createNet" /\ req[r].res = "err" => ~LeftBy(r)

-----------------------------------------------------------------------------
(* Liveness *)

\* Every handler that starts returns: loops end and nothing waits on nothing.
EveryCallReturns == \A r \in Requests : Running(r) ~> req[r].pc = "done"

=============================================================================
