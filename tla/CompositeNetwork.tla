-------------------------- MODULE CompositeNetwork --------------------------
(***************************************************************************)
(* The network manager kube-vim really runs: the composite manager         *)
(* (internal/kubevim/network/composite/manager.go) in front of the         *)
(* kube-ovn manager of KubeOvnNetwork and the SR-IOV manager               *)
(* (internal/kubevim/network/sriov).                                       *)
(*                                                                         *)
(* An SR-IOV network is one NetworkAttachmentDefinition (NAD) and has no   *)
(* subnets.  Nothing records which manager owns an id: the composite asks  *)
(* kube-ovn first and goes to SR-IOV when the error is an ErrNotFound, so  *)
(* a kube-ovn "not found" that only means "a subnet is not in the cache    *)
(* yet" also sends a request there.  The NADs of SR-IOV networks and of    *)
(* subnets never share a name here ("<network>" against                    *)
(* "<subnet>-netattach").                                                  *)
(***************************************************************************)
EXTENDS KubeOvnNetwork

CONSTANT
    Earlier   \* requests of before the restart: they may have left SR-IOV networks

ASSUME EarlierAssumption == Earlier \subseteq Requests

VARIABLES
    sriov,    \* API server: sriov[n], the UID of the SR-IOV NAD named n
    cSriov,   \* informer cache of those NADs
    at        \* at[r], where handler r is in the composite or SR-IOV code

compositeVars == <<vars, sriov, cSriov, at>>

(* "ovn"         inside the kube-ovn manager, or not running               *)
(* "create"      SR-IOV CreateNetwork, before its client.Create            *)
(* "get_*"       composite CreateSubnet, resolving the network by id       *)
(* "delete_get"  composite DeleteNetwork after kube-ovn's ErrNotFound      *)
(* "delete_nad"  SR-IOV DeleteNetwork, before its client.Delete            *)
Places == {"ovn", "create", "get_vpc", "get_vlan", "get_sriov",
           "delete_get", "delete_nad"}

CompositeTypeOK ==
    /\ TypeOK
    /\ sriov \in [Names -> Uids \union {None}]
    /\ cSriov \in [Names -> Uids \union {None}]
    /\ at \in [Requests -> Places]

\* The informers are synced before the first request.
CompositeInit ==
    /\ Init
    /\ sriov \in [Names -> {NetUid(r) : r \in Earlier} \union {None}]
    /\ \A m, n \in Names : sriov[m] = sriov[n] /\ m # n => sriov[m] = None
    /\ cSriov = sriov
    /\ at = [r \in Requests |-> "ovn"]

SriovIds == {u \in Uids : \E n \in Names : sriov[n] = u}

-----------------------------------------------------------------------------
(* Requests arrive *)

\* Calls the composite passes on without looking at them.
CallOvn(r) ==
    /\ CallCreateNetwork(r) \/ CallTerminate(r) \/ Reject(r)
    /\ UNCHANGED <<sriov, cSriov, at>>

(* CreateNetwork of an SR-IOV network.  A request without a provider       *)
(* network or with layer-3 attributes is a Reject.                         *)
CallCreateSriov(r) ==
    /\ req[r].pc = "idle"
    /\ \E n \in Names :
         req' = [req EXCEPT ![r] = [Idle EXCEPT !.pc = "create",
                                        !.op = "createNet", !.name = n]]
    /\ at' = [at EXCEPT ![r] = "create"]
    /\ UNCHANGED <<api, caches, faults, tainted, sriov, cSriov>>

(* CreateSubnet: with a NetworkId the composite resolves it first, always  *)
(* as an id, even where kube-ovn would take it for a name.                 *)
CallCompositeCreateSubnet(r) ==
    \/ /\ CallCreateSubnet(r)
       /\ at' = [at EXCEPT ![r] =
                    IF req'[r].pc = "cs_nad" THEN "ovn" ELSE "get_vpc"]
       /\ UNCHANGED <<sriov, cSriov>>
    \/ /\ req[r].pc = "idle"
       /\ \E s \in SubnetNames, u \in SriovIds :
            req' = [req EXCEPT ![r] = [Idle EXCEPT !.pc = "cs_vpc",
                        !.op = "createSub", !.sub = s, !.idx = 1, !.uid = u]]
       /\ at' = [at EXCEPT ![r] = "get_vpc"]
       /\ UNCHANGED <<api, caches, faults, tainted, sriov, cSriov>>

CallTerminateSriov(r) ==
    /\ req[r].pc = "idle"
    /\ \E u \in SriovIds :
         req' = [req EXCEPT ![r] = [Idle EXCEPT
                    !.pc = "dn_vpc", !.op = "terminate", !.uid = u]]
    /\ UNCHANGED <<api, caches, faults, tainted, sriov, cSriov, at>>

-----------------------------------------------------------------------------
(* SR-IOV CreateNetwork: one client.Create *)

CreateSriov(r) ==
    LET q == req[r] IN
    /\ at[r] = "create"
    /\ \E o \in Outcomes(q.cancelled) :
        /\ Charge(o, q.cancelled)
        /\ sriov' = IF sriov[q.name] = None /\ o # "fail"
                    THEN [sriov EXCEPT ![q.name] = NetUid(r)] ELSE sriov
        /\ req' = [req EXCEPT ![r] = Finish(q,
                IF sriov[q.name] = None /\ o = "ok" THEN "ok" ELSE "err")]
    /\ at' = [at EXCEPT ![r] = "ovn"]
    /\ UNCHANGED <<api, caches, tainted, cSriov>>

-----------------------------------------------------------------------------
(* CreateSubnet: GetNetwork by id over Vpcs, Vlans and SR-IOV NADs *)

\* A NetworkId that holds a name matches no UID.
ById(q, k) == {n \in Names : /\ cNet[k][n] # None /\ cNet[k][n].uid = q.uid
                             /\ Resolves(k, n)}

\* Found in kube-ovn: go on there, where the network is looked up again.
ResolveInOvn(r, k, here, next) ==
    /\ at[r] = here
    /\ at' = [at EXCEPT ![r] = IF ById(req[r], k) # {} THEN "ovn" ELSE next]
    /\ UNCHANGED <<vars, sriov, cSriov>>

(* Not in kube-ovn: an SR-IOV network is refused as unsupported, and what  *)
(* neither manager knows is not found.                                     *)
ResolveInSriov(r) ==
    /\ at[r] = "get_sriov"
    /\ req' = [req EXCEPT ![r] = Finish(req[r],
            IF \E n \in Names : cSriov[n] # None /\ cSriov[n] = req[r].uid
            THEN "err" ELSE "notfound")]
    /\ at' = [at EXCEPT ![r] = "ovn"]
    /\ UNCHANGED <<api, caches, faults, tainted, sriov, cSriov>>

-----------------------------------------------------------------------------
(* DeleteNetwork: kube-ovn first, then SR-IOV *)

(* The errors of kube-ovn's DeleteNetwork that are an ErrNotFound to       *)
(* errors.As: those of cache lookups.  The API server's "not found" to a   *)
(* delete is of another type; the composite returns it, and the RPC        *)
(* handler goes straight on to DeleteSubnet.                               *)
IsNotFound(q) == q.pc = "dn_vlan" \/ (q.pc = "dn_loop" /\ q.todo # {})

\* A step of the kube-ovn manager; a fall-through passes SR-IOV first.
OvnStep(r) ==
    /\ at[r] = "ovn"
    /\ Step(r)
    /\ at' = [at EXCEPT ![r] =
         IF ~req[r].fall /\ req'[r].fall /\ IsNotFound(req[r])
         THEN "delete_get" ELSE "ovn"]
    /\ UNCHANGED <<sriov, cSriov>>

\* Faulty variant: the first NAD of the list is taken.
SriovSelectedAny(q, n) == cSriov[n] # None

\* GetNetwork by id: the NAD with that UID in the cache.
SriovSelected(q, n) == cSriov[n] # None /\ cSriov[n] = q.uid

DeleteSriovGet(r) ==
    LET q == req[r] IN
    /\ at[r] = "delete_get"
    /\ \/ \E n \in Names : /\ SriovSelected(q, n)
                           /\ req' = [req EXCEPT ![r].name = n]
                           /\ at' = [at EXCEPT ![r] = "delete_nad"]
       \/ /\ \A n \in Names : ~SriovSelected(q, n)
          /\ req' = req
          /\ at' = [at EXCEPT ![r] = "ovn"]
    /\ UNCHANGED <<api, caches, faults, tainted, sriov, cSriov>>

\* Faulty variant: the error of client.Delete is dropped.
SriovDeletedIgnoresError(q, o, exists) == Finish(q, "ok")

(* What the caller does after client.Delete: an absent NAD is the API      *)
(* server's "not found", after which the id is tried as a subnet.          *)
SriovDeleted(q, o, exists) ==
    IF Deleted(o, exists) THEN Finish(q, "ok")
    ELSE IF o = "ok" THEN q
    ELSE Finish(q, "err")

\* By name: whatever NAD carries the name by now is deleted.
DeleteSriovNad(r) ==
    LET q == req[r] IN
    /\ at[r] = "delete_nad"
    /\ \E o \in Outcomes(q.cancelled) :
        /\ Charge(o, q.cancelled)
        /\ sriov' = IF o = "fail" THEN sriov ELSE [sriov EXCEPT ![q.name] = None]
        /\ req' = [req EXCEPT ![r] = SriovDeleted(q, o, sriov[q.name] # None)]
    /\ at' = [at EXCEPT ![r] = "ovn"]
    /\ UNCHANGED <<api, caches, tainted, cSriov>>

-----------------------------------------------------------------------------
(* ListNetworks: kube-ovn's answer, then the SR-IOV NADs of the cache *)

\* Faulty variant: one manager is enough.
CompositeListOvnOnly == ListNetworks

CompositeList ==
    IF ListNetworks = None THEN None
    ELSE ListNetworks \union {u \in Uids : \E n \in Names : cSriov[n] = u}

-----------------------------------------------------------------------------
(* The environment *)

WatchSriov ==
    /\ cSriov # sriov
    /\ cSriov' = sriov
    /\ UNCHANGED <<vars, sriov, at>>

CompositeCrash ==
    /\ Crash
    /\ cSriov' = sriov
    /\ at' = [r \in Requests |-> "ovn"]
    /\ UNCHANGED sriov

CompositeCall(r) == \/ CallOvn(r) \/ CallCreateSriov(r)
                    \/ CallCompositeCreateSubnet(r) \/ CallTerminateSriov(r)

CompositeStep(r) == \/ OvnStep(r)
                    \/ CreateSriov(r)
                    \/ ResolveInOvn(r, "vpc", "get_vpc", "get_vlan")
                    \/ ResolveInOvn(r, "vlan", "get_vlan", "get_sriov")
                    \/ ResolveInSriov(r)
                    \/ DeleteSriovGet(r) \/ DeleteSriovNad(r)

CompositeNext ==
    \/ \E r \in Requests \ Earlier : CompositeCall(r) \/ CompositeStep(r)
    \/ (Sync \/ \E r \in Requests : Cancel(r)) /\ UNCHANGED <<sriov, cSriov, at>>
    \/ WatchSriov
    \/ CompositeCrash

(* A handler is a goroutine that runs until it returns; informers and the  *)
(* kube-ovn controller keep catching up.  Calls and faults are not fair.   *)
CompositeSpec ==
    /\ CompositeInit /\ [][CompositeNext]_compositeVars
    /\ \A r \in Requests : WF_compositeVars(CompositeStep(r))
    /\ \A k \in Kinds : WF_compositeVars(WatchNetworks(k) /\ UNCHANGED <<sriov, cSriov, at>>)
    /\ WF_compositeVars(WatchSubnets /\ UNCHANGED <<sriov, cSriov, at>>)
    /\ WF_compositeVars(WatchSriov)
    /\ \A k \in Kinds, n \in Names :
         WF_compositeVars(Reconcile(k, n) /\ UNCHANGED <<sriov, cSriov, at>>)

-----------------------------------------------------------------------------
(* Properties *)

(* A termination that reports success has removed what it was asked for,   *)
(* whichever manager owned the id and however often it fell through, and   *)
(* every subnet it had set out to delete.                                  *)
TerminatedEverywhere ==
    \A r \in Requests :
        req[r].op = "terminate" /\ req[r].res = "ok" =>
            ({req[r].uid} \union req[r].seen)
                \intersect (NetIds \union SubnetIds \union SriovIds) = {}

(* Deleting is by name, after a lookup by id in a cache.  An SR-IOV        *)
(* network is nevertheless removed only by a termination of its own id,    *)
(* unless the network asked for had gone by then and another termination   *)
(* had freed the name: never by one for a kube-ovn network or a subnet     *)
(* that fell through to SR-IOV, and never by a rollback.                   *)
SriovRemovedById ==
    [][\A n \in Names, r \in Requests :
         sriov[n] # None /\ sriov'[n] = None /\ req'[r] # req[r] =>
            /\ req[r].op = "terminate"
            /\ \/ req[r].uid = sriov[n]
               \/ /\ req[r].uid \notin NetIds \union SubnetIds \union SriovIds
                  /\ \E p \in Requests \ {r} :
                       req[p].op = "terminate" /\ req[p].pc = "done"]_compositeVars

(* A query fails while a status names a subnet the cache does not have,    *)
(* but only while requests keep coming: once they stop, ListNetworks       *)
(* reports exactly the networks that exist, kube-ovn's and SR-IOV's.       *)
CompositeListRecovers ==
    <>[](\/ \E r \in Requests : Running(r)
         \/ CompositeList = NetIds \union SriovIds)

=============================================================================
