------------------------- MODULE TerminationProofs -------------------------
(***************************************************************************)
(* Machine-checked proofs of what a termination promises: first for        *)
(* KubeOvnNetwork alone, then for the composite manager around it, for any *)
(* sets of requests and names and any bounds.                              *)
(*                                                                         *)
(* Deleting is by name, after a lookup of the id in a cache that may be    *)
(* stale.  That the object asked for is nevertheless gone rests on UIDs:   *)
(* each is given out once, to one object with one name, so a cached pair   *)
(* of name and UID stays right about where the UID can be for ever.        *)
(***************************************************************************)
EXTENDS CompositeNetwork, NetworkProofs

-----------------------------------------------------------------------------
(* Where UIDs come from and where they are.  C is the set of requests that *)
(* are issued at all: the others have left what they have left.            *)

\* Request q may still create the object in position i of its request.
MayCreate(q, i) ==
    \/ q.pc \in {"idle", "create"}
    \/ /\ i # 0 /\ q.idx <= i
       /\ q.pc \in {"cs_vpc", "cs_vlan", "cs_nad", "cs_subnet"}

\* UID u has not been given to an object yet and may still be.
Unborn(C, u) == u[1] \in C /\ MayCreate(req[u[1]], u[2])

\* The network with UID u, if there still is one, is the one of kind k named n.
NetAt(C, k, n, u) ==
    /\ u \in Uids /\ u[2] = 0 /\ ~Unborn(C, u)
    /\ \A l \in Kinds, m \in Names :
         net[l][m] # None /\ net[l][m].uid = u => l = k /\ m = n

\* The subnet with UID u, if there still is one, is named s.
SubnetAt(C, s, u) ==
    /\ u \in Uids /\ u[2] # 0 /\ ~Unborn(C, u)
    /\ \A t \in SubnetNames : subnet[t] # None /\ subnet[t].uid = u => t = s

\* No network and no subnet has UID u, and none ever will.
Removed(C, u) == ~Unborn(C, u) /\ u \notin NetIds \union SubnetIds

\* Every object is where its UID is, and caches are right about the place.
ObjectsTraced(C) ==
    /\ \A k \in Kinds, n \in Names :
         /\ net[k][n] # None => NetAt(C, k, n, net[k][n].uid)
         /\ cNet[k][n] # None => NetAt(C, k, n, cNet[k][n].uid)
    /\ \A s \in SubnetNames :
         /\ subnet[s] # None => SubnetAt(C, s, subnet[s].uid)
         /\ cSub[s] # None => SubnetAt(C, s, cSub[s].uid)

DeletingPcs == {"dn_loop", "ds_subnet", "ds_nad"}

\* DeleteNetwork knows its network, and what it has dealt with is gone.
DeletesNetwork(C, q) ==
    /\ q.found \in FoundNet
    /\ NetAt(C, q.found.kind, q.found.name, q.found.uid)
    /\ q.op = "terminate" => q.found.uid = q.uid
    /\ \A u \in q.seen : u[2] # 0 /\ ~Unborn(C, u)
    /\ \A u \in q.seen \ q.todo :
         Removed(C, u) \/ (q.pc = "ds_subnet" /\ SubnetAt(C, q.sub, u))

(* Terminate has fallen through to DeleteSubnet.  It gets past the lookup  *)
(* only with the id of a subnet, and then it had found no network before.  *)
DeletesSubnet(C, q) ==
    /\ q.pc = "dn_loop" => q.todo = {q.uid}
    /\ q.pc = "ds_subnet" => SubnetAt(C, q.sub, q.uid)
    /\ q.pc = "ds_nad" => q.uid[2] # 0 /\ Removed(C, q.uid)
    /\ q.seen = {q.uid} \/ (q.uid[2] = 0 /\ q.pc = "dn_loop")

RequestTraced(C, q) ==
    /\ q.pc # "done" => q.res = "none"
    /\ q.pc \in CsPcs => q.idx # 0
    /\ q.op = "terminate" => ~Unborn(C, q.uid)
    /\ q.pc \in {"dn_vpc", "dn_vlan"} => q.seen = {} /\ ~q.fall
    /\ q.pc \in DeletingPcs /\ ~q.fall => DeletesNetwork(C, q)
    /\ q.pc \in DeletingPcs /\ q.fall => DeletesSubnet(C, q)
    /\ q.op = "terminate" /\ q.res = "ok" =>
         \A u \in {q.uid} \union q.seen : Removed(C, u)

\* Inductive together with TypeInv.
UidInv(C) == ObjectsTraced(C) /\ \A r \in Requests : RequestTraced(C, req[r])

-----------------------------------------------------------------------------
(* What a step can do to these facts *)

\* No UID becomes available again.
UidsRunOut(C) == \A u \in Uids : Unborn(C, u)' => Unborn(C, u)

\* No object appears, and caches take over only what is there.
NothingNew ==
    /\ \A k \in Kinds, n \in Names :
         /\ net'[k][n] # None =>
              net[k][n] # None /\ net'[k][n].uid = net[k][n].uid
         /\ cNet'[k][n] # None =>
              \/ cNet[k][n] # None /\ cNet'[k][n].uid = cNet[k][n].uid
              \/ net[k][n] # None /\ cNet'[k][n].uid = net[k][n].uid
    /\ \A s \in SubnetNames :
         /\ subnet'[s] # None =>
              subnet[s] # None /\ subnet'[s].uid = subnet[s].uid
         /\ cSub'[s] # None =>
              \/ cSub[s] # None /\ cSub'[s].uid = cSub[s].uid
              \/ subnet[s] # None /\ cSub'[s].uid = subnet[s].uid

\* What is known of a UID that has been given out stays known.
Persists(C) ==
    /\ \A u \in Uids : ~Unborn(C, u) => ~Unborn(C, u)'
    /\ \A k \in Kinds, n \in Names, u \in Uids :
         NetAt(C, k, n, u) => NetAt(C, k, n, u)'
    /\ \A s \in SubnetNames, u \in Uids :
         SubnetAt(C, s, u) => SubnetAt(C, s, u)'
    /\ \A u \in Uids : Removed(C, u) => Removed(C, u)'

\* What a step of the model does.
Traces(C) == Persists(C) /\ UidInv(C)'

(* Whatever is known of a UID persists if every new object has a UID that  *)
(* had not been given out.                                                 *)
LEMMA KnownPersists ==
    ASSUME NEW C, UidsRunOut(C),
           \A k \in Kinds, n \in Names : net'[k][n] # None =>
             \/ net[k][n] # None /\ net'[k][n].uid = net[k][n].uid
             \/ Unborn(C, net'[k][n].uid),
           \A s \in SubnetNames : subnet'[s] # None =>
             \/ subnet[s] # None /\ subnet'[s].uid = subnet[s].uid
             \/ Unborn(C, subnet'[s].uid)
    PROVE  Persists(C)
<1>1. \A u \in Uids : ~Unborn(C, u) => ~Unborn(C, u)'
  BY DEF UidsRunOut
<1>2. ASSUME NEW k \in Kinds, NEW n \in Names, NEW u \in Uids, NetAt(C, k, n, u)
      PROVE  NetAt(C, k, n, u)'
  BY <1>1, <1>2 DEF NetAt
<1>3. ASSUME NEW s \in SubnetNames, NEW u \in Uids, SubnetAt(C, s, u)
      PROVE  SubnetAt(C, s, u)'
  BY <1>1, <1>3 DEF SubnetAt
<1>4. ASSUME NEW u \in Uids, Removed(C, u)
      PROVE  Removed(C, u)'
  BY <1>1, <1>4 DEF Removed, NetIds, SubnetIds
<1> QED BY <1>1, <1>2, <1>3, <1>4 DEF Persists

\* A step that creates nothing keeps objects and caches traced.
LEMMA NothingNewTraced ==
    ASSUME NEW C, TypeInv, ObjectsTraced(C), UidsRunOut(C), NothingNew
    PROVE  Persists(C) /\ ObjectsTraced(C)'
<1>1. Persists(C)
  BY KnownPersists DEF NothingNew
<1>2. ASSUME NEW k \in Kinds, NEW n \in Names
      PROVE  /\ net'[k][n] # None => NetAt(C, k, n, net[k][n].uid)'
             /\ cNet'[k][n] # None => NetAt(C, k, n, cNet[k][n].uid)'
  <2>1. ASSUME net[k][n] # None
        PROVE  NetAt(C, k, n, net[k][n].uid) /\ net[k][n].uid \in Uids
    BY <2>1 DEF ObjectsTraced, NetAt
  <2>2. ASSUME cNet[k][n] # None
        PROVE  NetAt(C, k, n, cNet[k][n].uid) /\ cNet[k][n].uid \in Uids
    BY <2>2 DEF ObjectsTraced, NetAt
  <2>3. \A u \in Uids : NetAt(C, k, n, u) => NetAt(C, k, n, u)'
    BY <1>1 DEF Persists
  <2>4. ASSUME net'[k][n] # None PROVE NetAt(C, k, n, net[k][n].uid)'
    <3>1. PICK u : u = net'[k][n].uid
      OBVIOUS
    <3>2. u \in Uids /\ NetAt(C, k, n, u)
      BY <2>1, <2>4, <3>1 DEF NothingNew
    <3>3. NetAt(C, k, n, u)'
      BY <2>3, <3>2
    <3> QED BY <3>1, <3>3
  <2>5. ASSUME cNet'[k][n] # None PROVE NetAt(C, k, n, cNet[k][n].uid)'
    <3>1. PICK u : u = cNet'[k][n].uid
      OBVIOUS
    <3>2. u \in Uids /\ NetAt(C, k, n, u)
      BY <2>1, <2>2, <2>5, <3>1 DEF NothingNew
    <3>3. NetAt(C, k, n, u)'
      BY <2>3, <3>2
    <3> QED BY <3>1, <3>3
  <2> QED BY <2>4, <2>5
<1>3. ASSUME NEW s \in SubnetNames
      PROVE  /\ subnet'[s] # None => SubnetAt(C, s, subnet[s].uid)'
             /\ cSub'[s] # None => SubnetAt(C, s, cSub[s].uid)'
  <2>1. ASSUME subnet[s] # None
        PROVE  SubnetAt(C, s, subnet[s].uid) /\ subnet[s].uid \in Uids
    BY <2>1 DEF ObjectsTraced, SubnetAt
  <2>2. ASSUME cSub[s] # None
        PROVE  SubnetAt(C, s, cSub[s].uid) /\ cSub[s].uid \in Uids
    BY <2>2 DEF ObjectsTraced, SubnetAt
  <2>3. \A u \in Uids : SubnetAt(C, s, u) => SubnetAt(C, s, u)'
    BY <1>1 DEF Persists
  <2>4. ASSUME subnet'[s] # None PROVE SubnetAt(C, s, subnet[s].uid)'
    <3>1. PICK u : u = subnet'[s].uid
      OBVIOUS
    <3>2. u \in Uids /\ SubnetAt(C, s, u)
      BY <2>1, <2>4, <3>1 DEF NothingNew
    <3>3. SubnetAt(C, s, u)'
      BY <2>3, <3>2
    <3> QED BY <3>1, <3>3
  <2>5. ASSUME cSub'[s] # None PROVE SubnetAt(C, s, cSub[s].uid)'
    <3>1. PICK u : u = cSub'[s].uid
      OBVIOUS
    <3>2. u \in Uids /\ SubnetAt(C, s, u)
      BY <2>1, <2>2, <2>5, <3>1 DEF NothingNew
    <3>3. SubnetAt(C, s, u)'
      BY <2>3, <3>2
    <3> QED BY <3>1, <3>3
  <2> QED BY <2>4, <2>5
<1>4. ObjectsTraced(C)'
  BY <1>2, <1>3 DEF ObjectsTraced
<1> QED BY <1>1, <1>4

\* A request that does not change stays traced.
LEMMA UntouchedTraced ==
    ASSUME NEW C, NEW q \in GoodRequest, Persists(C), RequestTraced(C, q)
    PROVE  RequestTraced(C, q)'
<1>1. /\ q \in Request /\ q.seen \subseteq Uids
      /\ q.op = "terminate" => q.uid \in Uids
      /\ q.pc = "ds_subnet" => q.sub \in SubnetNames
      /\ q.fall => q.op = "terminate"
  BY DEF GoodRequest, Request, WellFormed
<1>2. q.op = "terminate" => ~Unborn(C, q.uid)'
  BY <1>1 DEF Persists, RequestTraced
<1>3. ASSUME q.pc \in DeletingPcs, ~q.fall PROVE DeletesNetwork(C, q)'
  <2>1. DeletesNetwork(C, q)
    BY <1>3 DEF RequestTraced
  <2>2. NetAt(C, q.found.kind, q.found.name, q.found.uid)'
    BY <2>1 DEF DeletesNetwork, FoundNet, Persists
  <2>3. \A u \in q.seen : u[2] # 0 /\ ~Unborn(C, u)'
    BY <1>1, <2>1 DEF DeletesNetwork, Persists
  <2>4. \A u \in q.seen \ q.todo :
          Removed(C, u)' \/ (q.pc = "ds_subnet" /\ SubnetAt(C, q.sub, u)')
    BY <1>1, <2>1 DEF DeletesNetwork, Persists
  <2> QED BY <2>1, <2>2, <2>3, <2>4 DEF DeletesNetwork
<1>4. ASSUME q.pc \in DeletingPcs, q.fall PROVE DeletesSubnet(C, q)'
  BY <1>1, <1>4 DEF RequestTraced, DeletesSubnet, Persists
<1>5. ASSUME q.op = "terminate", q.res = "ok"
      PROVE  \A u \in {q.uid} \union q.seen : Removed(C, u)'
  BY <1>1, <1>5 DEF RequestTraced, Persists
<1> QED BY <1>2, <1>3, <1>4, <1>5 DEF RequestTraced

-----------------------------------------------------------------------------
(* How the procedures return, and what is then known *)

\* A handler that returns ok from a termination leaves nothing it set out for.
LEMMA FinishTraced ==
    ASSUME NEW C, NEW q \in GoodRequest, NEW res \in Results,
           Persists(C), RequestTraced(C, q),
           q.op = "terminate" /\ res = "ok" =>
             \A u \in {q.uid} \union q.seen : Removed(C, u)'
    PROVE  RequestTraced(C, Finish(q, res))'
<1> DEFINE p == Finish(q, res)
<1>1. /\ p.pc = "done" /\ p.op = q.op /\ p.res = res /\ ~p.fall
      /\ q.op = "terminate" => p.uid = q.uid /\ p.seen = q.seen
  BY DEF Finish, Idle
<1>2. q.op = "terminate" => ~Unborn(C, q.uid)'
  BY DEF Persists, RequestTraced, GoodRequest, WellFormed
<1> HIDE DEF p
<1>3. RequestTraced(C, p)'
  BY <1>1, <1>2 DEF RequestTraced, DeletingPcs, CsPcs
<1> QED BY <1>3 DEF p

\* A failing CreateSubnet rolls back from scratch, or returns.
LEMMA CreateSubnetFailedTraced ==
    ASSUME NEW C, NEW q \in GoodRequest, NEW res \in Results, q.pc \in CsPcs,
           Persists(C), RequestTraced(C, q)
    PROVE  RequestTraced(C, CreateSubnetFailed(q, res))'
<1>1. q.op \in {"createNet", "createSub"}
  BY DEF GoodRequest, WellFormed
<1>2. CASE q.op = "createNet"
  <2> DEFINE p == CreateSubnetFailed(q, res)
  <2>1. /\ p.pc = "dn_vpc" /\ p.op = "createNet" /\ p.seen = {} /\ ~p.fall
        /\ p.res = "none"
    BY <1>2 DEF CreateSubnetFailed, Idle
  <2> HIDE DEF p
  <2>2. RequestTraced(C, p)'
    BY <2>1 DEF RequestTraced, DeletingPcs, CsPcs
  <2> QED BY <2>2 DEF p
<1>3. CASE q.op = "createSub"
  BY <1>3, FinishTraced DEF CreateSubnetFailed
<1> QED BY <1>1, <1>2, <1>3

\* allocateL3Attributes goes on with the next attribute, or returns.
LEMMA NextL3Traced ==
    ASSUME NEW C, NEW q \in GoodRequest, q.pc \in CsPcs \union {"create"},
           Persists(C), RequestTraced(C, q)
    PROVE  RequestTraced(C, NextL3(q))'
<1>1. q \in Request /\ q.op \in {"createNet", "createSub"}
  BY DEF GoodRequest, WellFormed, CsPcs
<1>2. CASE q.op = "createNet" /\ q.idx < q.l3
  <2> DEFINE p == NextL3(q)
  <2>1. /\ p.pc = "cs_vpc" /\ p.op = "createNet" /\ p.idx = q.idx + 1
        /\ p.res = "none"
    BY <1>1, <1>2 DEF NextL3, Request, RequestTraced, CsPcs
  <2>2. p.idx # 0
    BY <1>1, <2>1 DEF Request
  <2> HIDE DEF p
  <2>3. RequestTraced(C, p)'
    BY <2>1, <2>2 DEF RequestTraced, DeletingPcs, CsPcs
  <2> QED BY <2>3 DEF p
<1>3. CASE ~(q.op = "createNet" /\ q.idx < q.l3)
  BY <1>1, <1>3, FinishTraced DEF NextL3, Results
<1> QED BY <1>2, <1>3

(* A failing delete returns its error or falls through: to DeleteSubnet    *)
(* with an id for which no network was found, or with the id of a network. *)
LEMMA DeleteFailedTraced ==
    ASSUME NEW C, NEW q \in GoodRequest, NEW res \in Results \ {"ok"},
           q.pc \in DsPcs, Persists(C), RequestTraced(C, q)
    PROVE  RequestTraced(C, DeleteFailed(q, res))'
<1>1. /\ q \in Request /\ q.op \in {"createNet", "terminate"}
      /\ q.op = "terminate" => q.uid \in Uids
  BY DEF GoodRequest, WellFormed
<1>2. CASE q.op = "createNet"
  BY <1>2, FinishTraced DEF DeleteFailed, Results
<1>3. CASE q.op = "terminate" /\ ~q.fall /\ res = "notfound"
  <2> DEFINE p == DeleteFailed(q, res)
  <2>1. /\ p.pc = "dn_loop" /\ p.op = "terminate" /\ p.fall /\ p.uid = q.uid
        /\ p.todo = {q.uid} /\ p.seen = q.seen \union {q.uid} /\ p.res = q.res
    BY <1>1, <1>3 DEF DeleteFailed, Request
  <2>2. q.seen = {} \/ q.uid[2] = 0
    <3>1. CASE q.pc \in {"dn_vpc", "dn_vlan"}
      BY <3>1 DEF RequestTraced
    <3>2. CASE q.pc \in DeletingPcs
      BY <1>3, <3>2 DEF RequestTraced, DeletesNetwork, NetAt
    <3> QED BY <3>1, <3>2 DEF DsPcs, DeletingPcs
  <2>3. ~Unborn(C, q.uid)'
    BY <1>1, <1>3 DEF RequestTraced, Persists
  <2>4. q.res = "none"
    BY DEF RequestTraced, DsPcs
  <2> HIDE DEF p
  <2>5. DeletesSubnet(C, p)'
    BY <2>1, <2>2 DEF DeletesSubnet
  <2>6. RequestTraced(C, p)'
    BY <2>1, <2>3, <2>4, <2>5 DEF RequestTraced, DeletingPcs, CsPcs
  <2> QED BY <2>6 DEF p
<1>4. CASE q.op = "terminate" /\ ~(~q.fall /\ res = "notfound")
  BY <1>4, FinishTraced DEF DeleteFailed
<1> QED BY <1>1, <1>2, <1>3, <1>4

\* DeleteSubnet has removed the NAD too: return, or go on with the next one.
LEMMA DeleteSubnetDoneTraced ==
    ASSUME NEW C, NEW q \in GoodRequest, q.pc = "ds_nad",
           Persists(C), RequestTraced(C, q)
    PROVE  RequestTraced(C, DeleteSubnetDone(q))'
<1>1. /\ q \in Request /\ q.seen \subseteq Uids
      /\ q.op \in {"createNet", "terminate"}
      /\ q.op = "terminate" => q.uid \in Uids
      /\ q.fall => q.op = "terminate"
  BY DEF GoodRequest, Request, WellFormed, DsPcs
<1>2. CASE q.fall
  <2>1. q.seen = {q.uid} /\ Removed(C, q.uid)'
    BY <1>1, <1>2 DEF RequestTraced, DeletingPcs, DeletesSubnet, Persists
  <2> QED BY <1>2, <2>1, FinishTraced DEF DeleteSubnetDone, Results
<1>3. CASE ~q.fall
  <2> DEFINE p == DeleteSubnetDone(q)
  <2>1. /\ p.pc = "dn_loop" /\ p.op = q.op /\ p.fall = q.fall /\ p.uid = q.uid
        /\ p.found = q.found /\ p.todo = q.todo /\ p.seen = q.seen /\ p.res = q.res
    BY <1>1, <1>3 DEF DeleteSubnetDone, Request
  <2>2. RequestTraced(C, q)' /\ DeletesNetwork(C, q)'
    BY <1>3, UntouchedTraced DEF RequestTraced, DeletingPcs
  <2> HIDE DEF p
  <2>3. DeletesNetwork(C, p)'
    BY <2>1, <2>2 DEF DeletesNetwork
  <2> QED BY <1>3, <2>1, <2>2, <2>3 DEF RequestTraced, DeletingPcs, CsPcs, p
<1> QED BY <1>2, <1>3

-----------------------------------------------------------------------------
(* One handler's step *)

\* The UIDs that a handler may still give out only ever get fewer.
LEMMA UidsStep ==
    ASSUME NEW C, TypeInv, NEW r \in Requests, NEW p,
           req' = [req EXCEPT ![r] = p],
           \A i \in 0..MaxL3 : MayCreate(p, i) => MayCreate(req[r], i)
    PROVE  UidsRunOut(C)
<1> SUFFICES ASSUME NEW u \in Uids, Unborn(C, u)' PROVE Unborn(C, u)
  BY DEF UidsRunOut
<1>1. u[1] \in Requests /\ u[2] \in 0..MaxL3
  BY DEF Uids
<1>2. u[1] \in C /\ MayCreate(req'[u[1]], u[2])
  BY DEF Unborn, MayCreate
<1>3. req'[u[1]] = IF u[1] = r THEN p ELSE req[u[1]]
  BY <1>1 DEF TypeInv, TypeOK
<1>4. MayCreate(req[u[1]], u[2])
  BY <1>1, <1>2, <1>3
<1> QED BY <1>2, <1>4 DEF Unborn

\* It is enough to look at the handler that moves.
LEMMA OneRequestTraced ==
    ASSUME NEW C, TypeInv, UidInv(C), NEW r \in Requests, NEW p,
           req' = [req EXCEPT ![r] = p],
           Persists(C), ObjectsTraced(C)', RequestTraced(C, p)'
    PROVE  Traces(C)
<1>1. ASSUME NEW x \in Requests PROVE RequestTraced(C, req[x])'
  <2>1. PICK q : q = req[x]
    OBVIOUS
  <2>2. q \in GoodRequest /\ RequestTraced(C, q)
    BY <2>1, RequestsGood DEF UidInv
  <2>3. RequestTraced(C, q)'
    BY <2>2, UntouchedTraced
  <2>4. PICK y : y = req'[x]
    OBVIOUS
  <2>5. y = q \/ y = p
    BY <2>1, <2>4 DEF TypeInv, TypeOK
  <2>6. RequestTraced(C, y)'
    BY <2>3, <2>5
  <2> QED BY <2>4, <2>6
<1> QED BY <1>1 DEF UidInv, Traces

\* A handler's step that creates no object.
LEMMA PlainStep ==
    ASSUME NEW C, TypeInv, UidInv(C), NEW r \in Requests, NEW p,
           req' = [req EXCEPT ![r] = p],
           \A i \in 0..MaxL3 : MayCreate(p, i) => MayCreate(req[r], i),
           NothingNew
    PROVE  /\ Persists(C) /\ ObjectsTraced(C)'
           /\ RequestTraced(C, p)' => Traces(C)
<1>1. Persists(C) /\ ObjectsTraced(C)'
  BY UidsStep, NothingNewTraced DEF UidInv
<1>2. ASSUME RequestTraced(C, p)' PROVE Traces(C)
  BY <1>1, <1>2, OneRequestTraced
<1> QED BY <1>1, <1>2

\* Steps that leave the store and the caches alone create nothing.
LEMMA UnchangedIsNothingNew ==
    ASSUME UNCHANGED <<net, subnet, cNet, cSub>>
    PROVE  NothingNew
BY DEF NothingNew

\* Requests start with nothing found, and terminations with an id that exists.
LEMMA CallTraced ==
    ASSUME NEW C, TypeInv, UidInv(C), NEW r \in Requests, Call(r)
    PROVE  Traces(C)
<1>0. PICK q : q = req[r]
  OBVIOUS
<1>1. /\ q \in GoodRequest /\ q.pc = "idle"
      /\ req \in [Requests -> Request]
      /\ \A i : MayCreate(q, i)
  BY <1>0, RequestsGood DEF Call, CallCreateNetwork, CallCreateSubnet,
     CallTerminate, Reject, MayCreate, TypeInv, TypeOK
<1>2. NothingNew
  BY UnchangedIsNothingNew DEF Call, CallCreateNetwork, CallCreateSubnet,
     CallTerminate, Reject, api, caches
<1>3. PICK p : p = req'[r]
  OBVIOUS
<1>4. req' = [req EXCEPT ![r] = p]
  BY <1>1, <1>3 DEF Call, CallCreateNetwork, CallCreateSubnet, CallTerminate,
     Reject
<1>5. Persists(C) /\ (RequestTraced(C, p)' => Traces(C))
  BY <1>0, <1>1, <1>2, <1>4, PlainStep
<1>6. CASE CallCreateNetwork(r)
  <2>1. p.pc = "create" /\ p.op = "createNet" /\ ~p.fall /\ p.res = "none"
    BY <1>1, <1>3, <1>6 DEF CallCreateNetwork, Idle
  <2>2. RequestTraced(C, p)'
    BY <2>1 DEF RequestTraced, DeletingPcs, CsPcs
  <2> QED BY <1>5, <2>2
<1>7. CASE CallCreateSubnet(r)
  <2>1. /\ p.pc \in {"cs_nad", "cs_vpc"} /\ p.op = "createSub" /\ ~p.fall
        /\ p.res = "none" /\ p.idx = 1
    BY <1>1, <1>3, <1>7 DEF CallCreateSubnet, Idle
  <2>2. RequestTraced(C, p)'
    BY <2>1 DEF RequestTraced, DeletingPcs, CsPcs
  <2> QED BY <1>5, <2>2
<1>8. CASE CallTerminate(r)
  <2>1. PICK u \in NetIds \union SubnetIds :
            req' = [req EXCEPT ![r] = [Idle EXCEPT
                        !.pc = "dn_vpc", !.op = "terminate", !.uid = u]]
    BY <1>8 DEF CallTerminate
  <2>2. /\ p.pc = "dn_vpc" /\ p.op = "terminate" /\ ~p.fall /\ p.uid = u
        /\ p.seen = {} /\ p.res = "none"
    BY <1>1, <1>3, <2>1 DEF Idle
  <2>3. u \in Uids /\ ~Unborn(C, u)
    BY DEF UidInv, ObjectsTraced, NetAt, SubnetAt, NetIds, SubnetIds
  <2>4. ~Unborn(C, u)'
    BY <1>5, <2>3 DEF Persists
  <2>5. RequestTraced(C, p)'
    BY <2>2, <2>4 DEF RequestTraced, DeletingPcs, CsPcs
  <2> QED BY <1>5, <2>5
<1>9. CASE Reject(r)
  <2>1. p.pc = "done" /\ p.op = "none" /\ ~p.fall
    BY <1>1, <1>3, <1>9 DEF Reject, Finish, Idle
  <2>2. RequestTraced(C, p)'
    BY <2>1 DEF RequestTraced, DeletingPcs, CsPcs
  <2> QED BY <1>5, <2>2
<1> QED BY <1>6, <1>7, <1>8, <1>9 DEF Call

\* A handler that returns or starts to delete creates nothing any more.
LEMMA ReturnsCreateNothing ==
    ASSUME NEW q \in Request, NEW res, NEW i
    PROVE  /\ ~MayCreate(Finish(q, res), i)
           /\ ~MayCreate(CreateSubnetFailed(q, res), i)
           /\ ~MayCreate(DeleteFailed(q, res), i)
           /\ ~MayCreate(DeleteSubnetDone(q), i)
           /\ ~MayCreate(DeleteNetworkDone(q), i)
<1>1. /\ Finish(q, res).pc = "done"
      /\ CreateSubnetFailed(q, res).pc \in {"done", "dn_vpc"}
      /\ DeleteFailed(q, res).pc \in {"done", "dn_loop"}
      /\ DeleteSubnetDone(q).pc \in {"done", "dn_loop"}
      /\ DeleteNetworkDone(q).pc = "done"
  BY DEF Finish, Idle, CreateSubnetFailed, DeleteFailed, DeleteSubnetDone,
     DeleteNetworkDone, Request
<1> QED BY <1>1 DEF MayCreate

\* The next attribute is not one that has been created.
LEMMA NextL3Creates ==
    ASSUME NEW q \in Request, q.pc \in {"create", "cs_subnet"},
           NEW i \in 0..MaxL3, MayCreate(NextL3(q), i)
    PROVE  MayCreate(q, i) /\ i # 0 /\ i # q.idx
<1>1. MaxL3 \in Nat /\ q.idx \in Nat /\ i \in Nat
  BY ConstantsAssumption DEF Request
<1>2. q.op = "createNet" /\ q.idx < q.l3
  BY ReturnsCreateNothing DEF NextL3
<1>3. NextL3(q).pc = "cs_vpc" /\ NextL3(q).idx = q.idx + 1
  BY <1>1, <1>2 DEF NextL3, Request
<1> QED BY <1>1, <1>3 DEF MayCreate

\* CreateNetwork gives its network a UID that nothing had before.
LEMMA CreateNetworkObjectTraced ==
    ASSUME NEW C, TypeInv, UidInv(C), NEW r \in Requests, r \in C,
           CreateNetworkObject(r)
    PROVE  Traces(C)
<1>0. PICK q : q = req[r]
  OBVIOUS
<1>1. /\ q \in GoodRequest /\ q \in Request /\ q.pc = "create"
      /\ RequestTraced(C, q) /\ req \in [Requests -> Request]
      /\ q.kind \in Kinds /\ q.name \in Names
  BY <1>0, RequestsGood DEF CreateNetworkObject, UidInv, TypeInv, TypeOK,
     GoodRequest, WellFormed, Request
<1>2. PICK p : p = req'[r]
  OBVIOUS
<1>3. req' = [req EXCEPT ![r] = p] /\ (p = NextL3(q) \/ p = Finish(q, "err"))
  BY <1>0, <1>1, <1>2 DEF CreateNetworkObject
<1>4. /\ \A i \in 0..MaxL3 : MayCreate(p, i) => MayCreate(q, i)
      /\ ~MayCreate(p, 0)
  <2>1. 0 \in 0..MaxL3
    BY ConstantsAssumption
  <2> QED BY <1>1, <1>3, <2>1, ReturnsCreateNothing, NextL3Creates
<1>5. UidsRunOut(C)
  BY <1>0, <1>1, <1>3, <1>4, UidsStep
<1>6. PICK u : u = NetUid(r)
  OBVIOUS
<1>7. /\ u \in Uids /\ u[1] = r /\ u[2] = 0
      /\ Unborn(C, u) /\ ~Unborn(C, u)'
  BY <1>0, <1>1, <1>2, <1>4, <1>6, ConstantsAssumption
     DEF Uids, NetUid, Unborn, MayCreate
<1>8. /\ \A k \in Kinds, n \in Names :
           net'[k][n] = net[k][n] \/ (k = q.kind /\ n = q.name
                                      /\ net'[k][n] # None /\ net'[k][n].uid = u)
      /\ UNCHANGED <<subnet, cNet, cSub>>
  BY <1>0, <1>1, <1>6, ConstantsAssumption
     DEF CreateNetworkObject, caches, TypeInv, TypeOK, NetObj, NetUid
<1>9. Persists(C)
  BY <1>5, <1>7, <1>8, KnownPersists
<1>10. RequestTraced(C, p)'
  BY <1>1, <1>3, <1>9, NextL3Traced, FinishTraced DEF Results
<1>11. ObjectsTraced(C)'
  <2>1. ASSUME NEW k \in Kinds, NEW n \in Names
        PROVE  /\ net'[k][n] # None => NetAt(C, k, n, net[k][n].uid)'
               /\ cNet'[k][n] # None => NetAt(C, k, n, cNet[k][n].uid)'
    <3>1. ASSUME NEW v, NetAt(C, k, n, v) PROVE NetAt(C, k, n, v)'
      BY <1>9, <3>1 DEF Persists, NetAt
    <3>2. ASSUME cNet'[k][n] # None PROVE NetAt(C, k, n, cNet[k][n].uid)'
      <4>1. PICK v : v = cNet[k][n].uid
        OBVIOUS
      <4>2. NetAt(C, k, n, v)'
        BY <1>8, <3>1, <3>2, <4>1 DEF UidInv, ObjectsTraced
      <4> QED BY <1>8, <4>1, <4>2
    <3>3. ASSUME net'[k][n] # None, net'[k][n] = net[k][n]
          PROVE  NetAt(C, k, n, net[k][n].uid)'
      <4>1. PICK v : v = net[k][n].uid
        OBVIOUS
      <4>2. NetAt(C, k, n, v)'
        BY <3>1, <3>3, <4>1 DEF UidInv, ObjectsTraced
      <4> QED BY <3>3, <4>1, <4>2
    <3>4. ASSUME net'[k][n] # net[k][n] PROVE NetAt(C, k, n, net[k][n].uid)'
      <4>1. k = q.kind /\ n = q.name /\ net'[k][n].uid = u
        BY <1>8, <3>4
      <4>2. ASSUME NEW l \in Kinds, NEW m \in Names,
                   net'[l][m] # None, net'[l][m].uid = u, ~(l = k /\ m = n)
            PROVE  FALSE
        <5>1. net[l][m] # None /\ net[l][m].uid = u
          BY <1>8, <4>1, <4>2
        <5> QED BY <1>7, <5>1 DEF UidInv, ObjectsTraced, NetAt
      <4>3. NetAt(C, k, n, u)'
        BY <1>7, <4>2 DEF NetAt
      <4> QED BY <4>1, <4>3
    <3> QED BY <3>2, <3>3, <3>4
  <2>2. ASSUME NEW s \in SubnetNames
        PROVE  /\ subnet'[s] # None => SubnetAt(C, s, subnet[s].uid)'
               /\ cSub'[s] # None => SubnetAt(C, s, cSub[s].uid)'
    <3>1. ASSUME NEW v, SubnetAt(C, s, v) PROVE SubnetAt(C, s, v)'
      BY <1>9, <3>1 DEF Persists, SubnetAt
    <3>2. PICK v, w : v = subnet[s].uid /\ w = cSub[s].uid
      OBVIOUS
    <3>3. /\ subnet[s] # None => SubnetAt(C, s, v)'
          /\ cSub[s] # None => SubnetAt(C, s, w)'
      BY <3>1, <3>2 DEF UidInv, ObjectsTraced
    <3> QED BY <1>8, <3>2, <3>3
  <2> QED BY <2>1, <2>2 DEF ObjectsTraced
<1> QED BY <1>3, <1>9, <1>10, <1>11, OneRequestTraced

\* CreateSubnet gives its subnet a UID that nothing had before.
LEMMA CreateSubnetObjectTraced ==
    ASSUME NEW C, TypeInv, UidInv(C), NEW r \in Requests, r \in C,
           CreateSubnetObject(r)
    PROVE  Traces(C)
<1>0. PICK q : q = req[r]
  OBVIOUS
<1>1. /\ q \in GoodRequest /\ q \in Request /\ q.pc = "cs_subnet"
      /\ RequestTraced(C, q) /\ req \in [Requests -> Request]
      /\ q.sub \in SubnetNames /\ q.idx \in 0..MaxL3 /\ q.idx # 0
  BY <1>0, RequestsGood DEF CreateSubnetObject, UidInv, TypeInv, TypeOK,
     GoodRequest, WellFormed, Request, CsPcs, RequestTraced
<1>2. PICK p : p = req'[r]
  OBVIOUS
<1>3. /\ req' = [req EXCEPT ![r] = p]
      /\ p = NextL3(q) \/ p = [q EXCEPT !.pc = "cs_cleanup"]
  BY <1>0, <1>1, <1>2 DEF CreateSubnetObject
<1>4. /\ \A i \in 0..MaxL3 : MayCreate(p, i) => MayCreate(q, i)
      /\ ~MayCreate(p, q.idx)
  <2>1. CASE p = NextL3(q)
    BY <1>1, <2>1, NextL3Creates
  <2>2. CASE p = [q EXCEPT !.pc = "cs_cleanup"]
    <3>1. p.pc = "cs_cleanup"
      BY <1>1, <2>2 DEF Request
    <3> QED BY <3>1 DEF MayCreate
  <2> QED BY <1>3, <2>1, <2>2
<1>5. UidsRunOut(C)
  BY <1>0, <1>1, <1>3, <1>4, UidsStep
<1>6. PICK u : u = SubUid(r, q.idx)
  OBVIOUS
<1>7. /\ u \in Uids /\ u[1] = r /\ u[2] = q.idx
      /\ Unborn(C, u) /\ ~Unborn(C, u)'
  <2>1. u \in Uids /\ u[1] = r /\ u[2] = q.idx
    BY <1>1, <1>6 DEF Uids, SubUid
  <2>2. MayCreate(q, q.idx)
    BY <1>1, ConstantsAssumption DEF MayCreate
  <2>3. Unborn(C, u)
    BY <1>0, <2>1, <2>2 DEF Unborn
  <2>4. ~Unborn(C, u)'
    BY <1>2, <1>4, <2>1 DEF Unborn, MayCreate
  <2> QED BY <2>1, <2>3, <2>4
<1>8. /\ \A s \in SubnetNames :
           subnet'[s] = subnet[s] \/ (s = q.sub /\ subnet'[s] # None
                                      /\ subnet'[s].uid = u)
      /\ UNCHANGED <<net, cNet, cSub>>
  <2>1. NewSubnet(r) # None /\ NewSubnet(r).uid = u
    <3>1. q.found = None \/ q.found \in FoundNet
      BY <1>1 DEF Request
    <3>2. NewSubnet(r).uid = u
      BY <1>0, <1>6 DEF NewSubnet
    <3>3. NewSubnet(r) \in SubnetObj
      BY <1>0, <1>1, <1>6, <1>7, <3>1 DEF NewSubnet, SubnetObj, FoundNet
    <3> QED BY <3>2, <3>3, ConstantsAssumption
  <2> QED BY <1>0, <1>1, <2>1 DEF CreateSubnetObject, caches, TypeInv, TypeOK
<1>9. Persists(C)
  BY <1>5, <1>7, <1>8, KnownPersists
<1>10. RequestTraced(C, p)'
  <2>1. CASE p = NextL3(q)
    BY <1>1, <1>9, <2>1, NextL3Traced DEF CsPcs
  <2>2. CASE p = [q EXCEPT !.pc = "cs_cleanup"]
    <3>1. /\ p.pc = "cs_cleanup" /\ p.idx # 0 /\ p.op = q.op /\ p.res = "none"
      BY <1>1, <2>2 DEF Request, RequestTraced
    <3>2. p.op # "terminate"
      BY <1>1, <3>1 DEF GoodRequest, WellFormed, CsPcs
    <3> QED BY <3>1, <3>2 DEF RequestTraced, DeletingPcs, CsPcs
  <2> QED BY <1>3, <2>1, <2>2
<1>11. ObjectsTraced(C)'
  <2>1. ASSUME NEW k \in Kinds, NEW n \in Names
        PROVE  /\ net'[k][n] # None => NetAt(C, k, n, net[k][n].uid)'
               /\ cNet'[k][n] # None => NetAt(C, k, n, cNet[k][n].uid)'
    <3>1. ASSUME NEW v, NetAt(C, k, n, v) PROVE NetAt(C, k, n, v)'
      BY <1>9, <3>1 DEF Persists, NetAt
    <3>2. PICK v, w : v = net[k][n].uid /\ w = cNet[k][n].uid
      OBVIOUS
    <3>3. /\ net[k][n] # None => NetAt(C, k, n, v)'
          /\ cNet[k][n] # None => NetAt(C, k, n, w)'
      BY <3>1, <3>2 DEF UidInv, ObjectsTraced
    <3> QED BY <1>8, <3>2, <3>3
  <2>2. ASSUME NEW s \in SubnetNames
        PROVE  /\ subnet'[s] # None => SubnetAt(C, s, subnet[s].uid)'
               /\ cSub'[s] # None => SubnetAt(C, s, cSub[s].uid)'
    <3>1. ASSUME NEW v, SubnetAt(C, s, v) PROVE SubnetAt(C, s, v)'
      BY <1>9, <3>1 DEF Persists, SubnetAt
    <3>2. ASSUME cSub'[s] # None PROVE SubnetAt(C, s, cSub[s].uid)'
      <4>1. PICK v : v = cSub[s].uid
        OBVIOUS
      <4>2. SubnetAt(C, s, v)'
        BY <1>8, <3>1, <3>2, <4>1 DEF UidInv, ObjectsTraced
      <4> QED BY <1>8, <4>1, <4>2
    <3>3. ASSUME subnet'[s] # None, subnet'[s] = subnet[s]
          PROVE  SubnetAt(C, s, subnet[s].uid)'
      <4>1. PICK v : v = subnet[s].uid
        OBVIOUS
      <4>2. SubnetAt(C, s, v)'
        BY <3>1, <3>3, <4>1 DEF UidInv, ObjectsTraced
      <4> QED BY <3>3, <4>1, <4>2
    <3>4. ASSUME subnet'[s] # subnet[s] PROVE SubnetAt(C, s, subnet[s].uid)'
      <4>1. s = q.sub /\ subnet'[s].uid = u
        BY <1>8, <3>4
      <4>2. ASSUME NEW t \in SubnetNames,
                   subnet'[t] # None, subnet'[t].uid = u, t # s
            PROVE  FALSE
        <5>1. subnet[t] # None /\ subnet[t].uid = u
          BY <1>8, <4>1, <4>2
        <5> QED BY <1>7, <5>1 DEF UidInv, ObjectsTraced, SubnetAt
      <4>3. SubnetAt(C, s, u)'
        BY <1>1, <1>7, <4>2 DEF SubnetAt
      <4> QED BY <4>1, <4>3
    <3> QED BY <3>2, <3>3, <3>4
  <2> QED BY <2>1, <2>2 DEF ObjectsTraced
<1> QED BY <1>3, <1>9, <1>10, <1>11, OneRequestTraced

\* CreateSubnet goes on to its next call.
LEMMA CreatingStep ==
    ASSUME NEW C, TypeInv, UidInv(C), NEW r \in Requests, NEW q, q = req[r],
           NEW p, req' = [req EXCEPT ![r] = p], NothingNew,
           q.pc \in CsPcs \ {"cs_cleanup"}, p.pc \in CsPcs,
           p.op = q.op, p.idx = q.idx, p.res = q.res
    PROVE  Traces(C)
<1>1. /\ q \in GoodRequest /\ RequestTraced(C, q)
  BY RequestsGood DEF UidInv
<1>2. \A i \in 0..MaxL3 : MayCreate(p, i) => MayCreate(q, i)
  BY DEF MayCreate, CsPcs
<1>3. q.op # "terminate" /\ q.res = "none" /\ q.idx # 0
  BY <1>1 DEF GoodRequest, WellFormed, RequestTraced, CsPcs
<1>4. RequestTraced(C, p)'
  BY <1>3 DEF RequestTraced, CsPcs, DeletingPcs
<1> QED BY <1>2, <1>4, PlainStep

\* CreateSubnet fails.
LEMMA FailingStep ==
    ASSUME NEW C, TypeInv, UidInv(C), NEW r \in Requests, NEW q, q = req[r],
           NEW res \in Results, NothingNew, q.pc \in CsPcs,
           req' = [req EXCEPT ![r] = CreateSubnetFailed(q, res)]
    PROVE  Traces(C)
<1>1. /\ q \in GoodRequest /\ q \in Request /\ RequestTraced(C, q)
  BY RequestsGood DEF UidInv, GoodRequest
<1>2. PICK p : p = CreateSubnetFailed(q, res)
  OBVIOUS
<1>3. \A i \in 0..MaxL3 : MayCreate(p, i) => MayCreate(q, i)
  BY <1>1, <1>2, ReturnsCreateNothing
<1>4. Persists(C) /\ (RequestTraced(C, p)' => Traces(C))
  BY <1>2, <1>3, PlainStep
<1>5. RequestTraced(C, p)'
  BY <1>1, <1>2, <1>4, CreateSubnetFailedTraced
<1> QED BY <1>4, <1>5

\* DeleteNetwork or DeleteSubnet fails.
LEMMA DeleteFailingStep ==
    ASSUME NEW C, TypeInv, UidInv(C), NEW r \in Requests, NEW q, q = req[r],
           NEW res \in Results \ {"ok"}, NothingNew, q.pc \in DsPcs,
           req' = [req EXCEPT ![r] = DeleteFailed(q, res)]
    PROVE  Traces(C)
<1>1. /\ q \in GoodRequest /\ q \in Request /\ RequestTraced(C, q)
  BY RequestsGood DEF UidInv, GoodRequest
<1>2. PICK p : p = DeleteFailed(q, res)
  OBVIOUS
<1>3. \A i \in 0..MaxL3 : MayCreate(p, i) => MayCreate(q, i)
  BY <1>1, <1>2, ReturnsCreateNothing
<1>4. Persists(C) /\ (RequestTraced(C, p)' => Traces(C))
  BY <1>2, <1>3, PlainStep
<1>5. RequestTraced(C, p)'
  BY <1>1, <1>2, <1>4, DeleteFailedTraced
<1> QED BY <1>4, <1>5

\* CreateSubnet looks its network up.
LEMMA CreateSubnetGetTraced ==
    ASSUME NEW C, TypeInv, UidInv(C), NEW r \in Requests,
           CreateSubnetGetOverlay(r) \/ CreateSubnetGetUnderlay(r)
    PROVE  Traces(C)
<1>0. PICK q : q = req[r]
  OBVIOUS
<1>1. q \in Request /\ q.pc \in {"cs_vpc", "cs_vlan"}
  BY <1>0 DEF CreateSubnetGetOverlay, CreateSubnetGetUnderlay, TypeInv, TypeOK
<1>2. NothingNew
  BY UnchangedIsNothingNew DEF CreateSubnetGetOverlay, CreateSubnetGetUnderlay,
     api, caches
<1>3. PICK p : /\ req' = [req EXCEPT ![r] = p]
               /\ \/ \E k \in Kinds, n \in Names : p = CreateSubnetIn(q, k, n)
                  \/ p = [q EXCEPT !.pc = "cs_vlan"]
                  \/ p = CreateSubnetFailed(q, "notfound")
  BY <1>0 DEF CreateSubnetGetOverlay, CreateSubnetGetUnderlay, GetNetwork, Kinds
<1>4. CASE \E res \in Results : p = CreateSubnetFailed(q, res)
  BY <1>0, <1>1, <1>2, <1>3, <1>4, FailingStep DEF CsPcs
<1>5. ASSUME NEW k \in Kinds, NEW n \in Names, p = CreateSubnetIn(q, k, n)
      PROVE  Traces(C)
  <2>1. CASE p = CreateSubnetFailed(q, "err")
    BY <1>4, <2>1 DEF Results
  <2>2. CASE p = [q EXCEPT !.pc = "cs_nad", !.found = FoundNetwork(k, n)]
    <3>1. /\ p.pc = "cs_nad" /\ p.op = q.op /\ p.idx = q.idx /\ p.res = q.res
      BY <1>1, <2>2 DEF Request
    <3> QED BY <1>0, <1>1, <1>2, <1>3, <3>1, CreatingStep DEF CsPcs
  <2> QED BY <1>5, <2>1, <2>2 DEF CreateSubnetIn
<1>6. CASE p = [q EXCEPT !.pc = "cs_vlan"]
  <2>1. /\ p.pc = "cs_vlan" /\ p.op = q.op /\ p.idx = q.idx /\ p.res = q.res
    BY <1>1, <1>6 DEF Request
  <2> QED BY <1>0, <1>1, <1>2, <1>3, <2>1, CreatingStep DEF CsPcs
<1> QED BY <1>3, <1>4, <1>5, <1>6 DEF Results

\* The NAD of a new subnet is created, or cleaned up.
LEMMA NetAttachTraced ==
    ASSUME NEW C, TypeInv, UidInv(C), NEW r \in Requests,
           CreateNetAttach(r) \/ CleanupNetAttach(r)
    PROVE  Traces(C)
<1>0. PICK q : q = req[r]
  OBVIOUS
<1>1. q \in Request /\ q.pc \in CsPcs
  BY <1>0 DEF CreateNetAttach, CleanupNetAttach, TypeInv, TypeOK, CsPcs
<1>2. NothingNew
  BY UnchangedIsNothingNew DEF CreateNetAttach, CleanupNetAttach, caches
<1>3. PICK p : /\ req' = [req EXCEPT ![r] = p]
               /\ \/ q.pc = "cs_nad" /\ p = [q EXCEPT !.pc = "cs_subnet"]
                  \/ p = CreateSubnetFailed(q, "err")
  BY <1>0 DEF CreateNetAttach, CleanupNetAttach, NetAttachRefused
<1>4. CASE q.pc = "cs_nad" /\ p = [q EXCEPT !.pc = "cs_subnet"]
  <2>1. /\ p.pc = "cs_subnet" /\ p.op = q.op /\ p.idx = q.idx /\ p.res = q.res
    BY <1>1, <1>4 DEF Request
  <2>2. q.pc \in CsPcs \ {"cs_cleanup"} /\ p.pc \in CsPcs
    BY <1>4, <2>1 DEF CsPcs
  <2>3. req' = [req EXCEPT ![r] = p]
    BY <1>3
  <2> QED BY <1>0, <1>2, <2>1, <2>2, <2>3, CreatingStep
<1>5. CASE p = CreateSubnetFailed(q, "err")
  BY <1>0, <1>1, <1>2, <1>3, <1>5, FailingStep DEF Results
<1> QED BY <1>3, <1>4, <1>5

\* What GetNetwork finds is where the caches say, whatever has happened since.
LEMMA FoundTraced ==
    ASSUME NEW C, TypeInv, ObjectsTraced(C), NEW q \in GoodRequest,
           q.pc \in {"dn_vpc", "dn_vlan"}, NEW k \in Kinds,
           NEW n \in GetNetwork(q, k)
    PROVE  /\ FoundNetwork(k, n) \in FoundNet
           /\ NetAt(C, k, n, FoundNetwork(k, n).uid)
           /\ q.op = "terminate" => FoundNetwork(k, n).uid = q.uid
           /\ ResolvedIds(k, n) \subseteq Uids
           /\ \A u \in ResolvedIds(k, n) : u[2] # 0 /\ ~Unborn(C, u)
<1>1. /\ n \in Names /\ cNet[k][n] # None /\ cNet[k][n] \in NetObj
      /\ \A s \in cNet[k][n].subnets : cSub[s] # None /\ s \in SubnetNames
  BY DEF GetNetwork, Selected, Resolves, TypeInv, TypeOK, NetObj
<1>2. FoundNetwork(k, n) \in FoundNet
  BY <1>1 DEF FoundNetwork, FoundNet, NetObj
<1>3. NetAt(C, k, n, FoundNetwork(k, n).uid)
  BY <1>1 DEF ObjectsTraced, FoundNetwork
<1>4. q.op = "terminate" => FoundNetwork(k, n).uid = q.uid
  BY ConstantsAssumption DEF GetNetwork, Selected, FoundNetwork, GoodRequest,
     WellFormed
<1>5. \A u \in ResolvedIds(k, n) : u \in Uids /\ u[2] # 0 /\ ~Unborn(C, u)
  BY <1>1 DEF ResolvedIds, ObjectsTraced, SubnetAt
<1> QED BY <1>2, <1>3, <1>4, <1>5

\* DeleteNetwork looks its network up.
LEMMA DeleteNetworkGetTraced ==
    ASSUME NEW C, TypeInv, UidInv(C), NEW r \in Requests,
           DeleteNetworkGetOverlay(r) \/ DeleteNetworkGetUnderlay(r)
    PROVE  Traces(C)
<1>0. PICK q : q = req[r]
  OBVIOUS
<1>1. /\ q \in GoodRequest /\ q \in Request /\ q.pc \in {"dn_vpc", "dn_vlan"}
      /\ RequestTraced(C, q) /\ q.seen = {} /\ ~q.fall /\ q.res = "none"
  BY <1>0, RequestsGood DEF DeleteNetworkGetOverlay, DeleteNetworkGetUnderlay,
     GoodRequest, UidInv, RequestTraced
<1>2. NothingNew
  BY UnchangedIsNothingNew DEF DeleteNetworkGetOverlay,
     DeleteNetworkGetUnderlay, api, caches
<1>3. PICK p : /\ req' = [req EXCEPT ![r] = p]
               /\ \/ \E k \in Kinds : \E n \in GetNetwork(q, k) :
                        p = DeleteNetworkIn(q, k, n)
                  \/ p = [q EXCEPT !.pc = "dn_vlan"]
                  \/ p = DeleteFailed(q, "notfound")
  BY <1>0 DEF DeleteNetworkGetOverlay, DeleteNetworkGetUnderlay, Kinds
<1>4. CASE p = DeleteFailed(q, "notfound")
  BY <1>0, <1>1, <1>2, <1>3, <1>4, DeleteFailingStep DEF Results, DsPcs
<1>5. ASSUME NEW k \in Kinds, NEW n \in GetNetwork(q, k),
             p = DeleteNetworkIn(q, k, n)
      PROVE  Traces(C)
  <2>1. PICK f, ids : f = FoundNetwork(k, n) /\ ids = ResolvedIds(k, n)
    OBVIOUS
  <2>2. /\ f \in FoundNet /\ NetAt(C, k, n, f.uid) /\ ids \subseteq Uids
        /\ q.op = "terminate" => f.uid = q.uid
        /\ \A u \in ids : u[2] # 0 /\ ~Unborn(C, u)
    BY <1>1, <1>5, <2>1, FoundTraced DEF UidInv
  <2>3. /\ p.pc = "dn_loop" /\ p.op = q.op /\ p.fall = q.fall /\ p.uid = q.uid
        /\ p.found = f /\ p.todo = ids /\ p.seen = ids /\ p.res = q.res
    BY <1>1, <1>5, <2>1 DEF DeleteNetworkIn, Request
  <2>4. \A i \in 0..MaxL3 : MayCreate(p, i) => MayCreate(q, i)
    BY <2>3 DEF MayCreate
  <2>5. Persists(C) /\ (RequestTraced(C, p)' => Traces(C))
    BY <1>0, <1>2, <1>3, <2>4, PlainStep
  <2>6. DeletesNetwork(C, p)'
    <3>1. f.kind = k /\ f.name = n
      BY <2>1 DEF FoundNetwork
    <3>2. NetAt(C, f.kind, f.name, f.uid)'
      BY <2>2, <2>5, <3>1 DEF Persists, NetAt, FoundNet
    <3>3. \A u \in ids : ~Unborn(C, u)'
      BY <2>2, <2>5 DEF Persists
    <3> QED BY <2>2, <2>3, <3>2, <3>3 DEF DeletesNetwork
  <2>7. q.op = "terminate" => ~Unborn(C, q.uid)'
    BY <1>1, <2>5 DEF RequestTraced, Persists, GoodRequest, WellFormed
  <2>8. RequestTraced(C, p)'
    BY <1>1, <2>3, <2>6, <2>7 DEF RequestTraced, DeletingPcs, CsPcs
  <2> QED BY <2>5, <2>8
<1>6. CASE p = [q EXCEPT !.pc = "dn_vlan"]
  <2>1. /\ p.pc = "dn_vlan" /\ p.op = q.op /\ p.fall = q.fall /\ p.uid = q.uid
        /\ p.seen = q.seen /\ p.res = q.res
    BY <1>1, <1>6 DEF Request
  <2>2. \A i \in 0..MaxL3 : MayCreate(p, i) => MayCreate(q, i)
    BY <2>1 DEF MayCreate
  <2>3. Persists(C) /\ (RequestTraced(C, p)' => Traces(C))
    BY <1>0, <1>2, <1>3, <2>2, PlainStep
  <2>4. q.op = "terminate" => ~Unborn(C, q.uid)'
    BY <1>1, <2>3 DEF RequestTraced, Persists, GoodRequest, WellFormed
  <2>5. RequestTraced(C, p)'
    BY <1>1, <2>1, <2>4 DEF RequestTraced, DeletingPcs, CsPcs
  <2> QED BY <2>3, <2>5
<1> QED BY <1>3, <1>4, <1>5, <1>6

\* DeleteSubnet looks its subnet up.
LEMMA DeleteSubnetGetTraced ==
    ASSUME NEW C, TypeInv, UidInv(C), NEW r \in Requests, DeleteSubnetGet(r)
    PROVE  Traces(C)
<1>0. PICK q : q = req[r]
  OBVIOUS
<1>1. /\ q \in GoodRequest /\ q \in Request /\ q.pc = "dn_loop"
      /\ RequestTraced(C, q) /\ q.res = "none" /\ q.todo \subseteq Uids
      /\ q.seen \subseteq Uids /\ (q.fall => q.op = "terminate")
      /\ q.op = "terminate" => q.uid \in Uids
  BY <1>0, RequestsGood DEF DeleteSubnetGet, GoodRequest, UidInv,
     RequestTraced, Request, WellFormed
<1>2. NothingNew
  BY UnchangedIsNothingNew DEF DeleteSubnetGet, api, caches
<1>3. PICK u, p :
          /\ u \in q.todo
          /\ req' = [req EXCEPT ![r] = p]
          /\ \/ \E s \in SubnetNames :
                  /\ cSub[s] # None /\ cSub[s].uid = u
                  /\ p = [q EXCEPT !.pc = "ds_subnet", !.sub = s,
                                   !.todo = q.todo \ {u}]
             \/ p = DeleteFailed(q, "notfound")
  BY <1>0 DEF DeleteSubnetGet
<1>4. CASE p = DeleteFailed(q, "notfound")
  BY <1>0, <1>1, <1>2, <1>3, <1>4, DeleteFailingStep DEF Results, DsPcs
<1>5. ASSUME NEW s \in SubnetNames, cSub[s] # None, cSub[s].uid = u,
             p = [q EXCEPT !.pc = "ds_subnet", !.sub = s, !.todo = q.todo \ {u}]
      PROVE  Traces(C)
  <2>1. SubnetAt(C, s, u) /\ u \in Uids /\ u[2] # 0
    BY <1>1, <1>5 DEF UidInv, ObjectsTraced, SubnetAt
  <2>2. /\ p.pc = "ds_subnet" /\ p.op = q.op /\ p.fall = q.fall
        /\ p.uid = q.uid /\ p.sub = s /\ p.found = q.found
        /\ p.todo = q.todo \ {u} /\ p.seen = q.seen /\ p.res = q.res
    BY <1>1, <1>5 DEF Request
  <2>3. \A i \in 0..MaxL3 : MayCreate(p, i) => MayCreate(q, i)
    BY <2>2 DEF MayCreate
  <2>4. Persists(C) /\ (RequestTraced(C, p)' => Traces(C))
    BY <1>0, <1>2, <1>3, <2>3, PlainStep
  <2>5. RequestTraced(C, q)'
    BY <1>1, <2>4, UntouchedTraced
  <2>6. SubnetAt(C, s, u)'
    BY <2>1, <2>4 DEF Persists
  <2>7. ASSUME ~p.fall PROVE DeletesNetwork(C, p)'
    <3>1. DeletesNetwork(C, q)'
      BY <1>1, <2>2, <2>5, <2>7 DEF RequestTraced, DeletingPcs
    <3> QED BY <1>1, <2>2, <2>6, <3>1 DEF DeletesNetwork
  <2>8. ASSUME p.fall PROVE DeletesSubnet(C, p)'
    <3>1. DeletesSubnet(C, q)
      BY <1>1, <2>2, <2>8 DEF RequestTraced, DeletingPcs
    <3>2. q.uid = u /\ q.seen = {q.uid}
      BY <1>1, <1>3, <2>1, <3>1 DEF DeletesSubnet
    <3> QED BY <2>2, <2>6, <3>2 DEF DeletesSubnet
  <2>9. RequestTraced(C, p)'
    BY <1>1, <2>2, <2>5, <2>7, <2>8 DEF RequestTraced, DeletingPcs, CsPcs
  <2> QED BY <2>4, <2>9
<1> QED BY <1>3, <1>4, <1>5

\* Deleting the object under a name removes every UID that is known to be there.
LEMMA SubnetGone ==
    ASSUME NEW C, Persists(C), ObjectsTraced(C)', NEW s \in SubnetNames,
           NEW u \in Uids, SubnetAt(C, s, u), subnet'[s] = None
    PROVE  Removed(C, u)'
<1>1. SubnetAt(C, s, u)'
  BY DEF Persists
<1>2. u[2] # 0 /\ ~Unborn(C, u)'
  BY <1>1 DEF SubnetAt
<1>3. u \notin SubnetIds'
  BY <1>1 DEF SubnetAt, SubnetIds
<1>4. u \notin NetIds'
  BY <1>2 DEF NetIds, ObjectsTraced, NetAt
<1> QED BY <1>2, <1>3, <1>4 DEF Removed

\* The same for a Vpc or Vlan.
LEMMA NetworkGone ==
    ASSUME NEW C, Persists(C), ObjectsTraced(C)', NEW k \in Kinds,
           NEW n \in Names, NEW u \in Uids, NetAt(C, k, n, u),
           net'[k][n] = None
    PROVE  Removed(C, u)'
<1>1. NetAt(C, k, n, u)'
  BY DEF Persists
<1>2. u[2] = 0 /\ ~Unborn(C, u)'
  BY <1>1 DEF NetAt
<1>3. u \notin NetIds'
  BY <1>1 DEF NetAt, NetIds
<1>4. u \notin SubnetIds'
  BY <1>2 DEF SubnetIds, ObjectsTraced, SubnetAt
<1> QED BY <1>2, <1>3, <1>4 DEF Removed

\* DeleteSubnet deletes its Subnet.
LEMMA DeleteSubnetObjectTraced ==
    ASSUME NEW C, TypeInv, UidInv(C), NEW r \in Requests, DeleteSubnetObject(r)
    PROVE  Traces(C)
<1>0. PICK q : q = req[r]
  OBVIOUS
<1>1. /\ q \in GoodRequest /\ q \in Request /\ q.pc = "ds_subnet"
      /\ RequestTraced(C, q) /\ q.res = "none" /\ q.sub \in SubnetNames
      /\ q.seen \subseteq Uids /\ (q.fall => q.op = "terminate")
      /\ q.op = "terminate" => q.uid \in Uids
  BY <1>0, RequestsGood DEF DeleteSubnetObject, GoodRequest, UidInv,
     RequestTraced, Request, WellFormed
<1>2. NothingNew
  BY <1>0, <1>1 DEF DeleteSubnetObject, caches, NothingNew, TypeInv, TypeOK
<1>3. PICK o, p :
          /\ req' = [req EXCEPT ![r] = p]
          /\ \/ subnet'[q.sub] = None /\ p = [q EXCEPT !.pc = "ds_nad"]
             \/ p = DeleteFailed(q, DeleteError(o))
  BY <1>0, <1>1 DEF DeleteSubnetObject, Deleted, SubnetDeleted, TypeInv, TypeOK
<1>4. CASE p = DeleteFailed(q, DeleteError(o))
  <2>1. DeleteError(o) \in Results \ {"ok"} /\ q.pc \in DsPcs
    BY <1>1 DEF DeleteError, Results, DsPcs
  <2> QED BY <1>0, <1>2, <1>3, <1>4, <2>1, DeleteFailingStep
<1>5. CASE subnet'[q.sub] = None /\ p = [q EXCEPT !.pc = "ds_nad"]
  <2>1. /\ p.pc = "ds_nad" /\ p.op = q.op /\ p.fall = q.fall
        /\ p.uid = q.uid /\ p.sub = q.sub /\ p.found = q.found
        /\ p.todo = q.todo /\ p.seen = q.seen /\ p.res = q.res
    BY <1>1, <1>5 DEF Request
  <2>2. \A i \in 0..MaxL3 : MayCreate(p, i) => MayCreate(q, i)
    BY <2>1 DEF MayCreate
  <2>3. /\ Persists(C) /\ ObjectsTraced(C)'
        /\ RequestTraced(C, p)' => Traces(C)
    BY <1>0, <1>2, <1>3, <2>2, PlainStep
  <2>4. RequestTraced(C, q)'
    BY <1>1, <2>3, UntouchedTraced
  <2>5. ASSUME NEW u \in Uids, SubnetAt(C, q.sub, u) PROVE Removed(C, u)'
    BY <1>1, <1>5, <2>3, <2>5, SubnetGone
  <2>6. ASSUME ~p.fall PROVE DeletesNetwork(C, p)'
    <3>1. DeletesNetwork(C, q) /\ DeletesNetwork(C, q)'
      BY <1>1, <2>1, <2>4, <2>6 DEF RequestTraced, DeletingPcs
    <3>2. \A u \in q.seen \ q.todo : Removed(C, u)'
      BY <1>1, <2>3, <2>5, <3>1 DEF DeletesNetwork, Persists
    <3> QED BY <2>1, <3>1, <3>2 DEF DeletesNetwork
  <2>7. ASSUME p.fall PROVE DeletesSubnet(C, p)'
    <3>1. DeletesSubnet(C, q)
      BY <1>1, <2>1, <2>7 DEF RequestTraced, DeletingPcs
    <3>2. q.seen = {q.uid} /\ q.uid[2] # 0 /\ Removed(C, q.uid)'
      BY <1>1, <2>1, <2>5, <2>7, <3>1 DEF DeletesSubnet, SubnetAt
    <3> QED BY <2>1, <3>2 DEF DeletesSubnet
  <2>8. RequestTraced(C, p)'
    BY <1>1, <2>1, <2>4, <2>6, <2>7 DEF RequestTraced, DeletingPcs, CsPcs
  <2> QED BY <2>3, <2>8
<1> QED BY <1>3, <1>4, <1>5

\* DeleteSubnet deletes the NAD.
LEMMA DeleteNetAttachTraced ==
    ASSUME NEW C, TypeInv, UidInv(C), NEW r \in Requests, DeleteNetAttach(r)
    PROVE  Traces(C)
<1>0. PICK q : q = req[r]
  OBVIOUS
<1>1. /\ q \in GoodRequest /\ q \in Request /\ q.pc = "ds_nad"
      /\ RequestTraced(C, q)
  BY <1>0, RequestsGood DEF DeleteNetAttach, GoodRequest, UidInv
<1>2. NothingNew
  BY UnchangedIsNothingNew DEF DeleteNetAttach, caches
<1>3. PICK o, p : /\ req' = [req EXCEPT ![r] = p]
                  /\ \/ p = DeleteSubnetDone(q)
                     \/ p = DeleteFailed(q, DeleteError(o))
  BY <1>0 DEF DeleteNetAttach
<1>4. CASE p = DeleteFailed(q, DeleteError(o))
  <2>1. DeleteError(o) \in Results \ {"ok"} /\ q.pc \in DsPcs
    BY <1>1 DEF DeleteError, Results, DsPcs
  <2> QED BY <1>0, <1>2, <1>3, <1>4, <2>1, DeleteFailingStep
<1>5. CASE p = DeleteSubnetDone(q)
  <2>1. \A i \in 0..MaxL3 : MayCreate(p, i) => MayCreate(q, i)
    BY <1>1, <1>5, ReturnsCreateNothing
  <2>2. Persists(C) /\ (RequestTraced(C, p)' => Traces(C))
    BY <1>0, <1>2, <1>3, <2>1, PlainStep
  <2>3. RequestTraced(C, p)'
    BY <1>1, <1>5, <2>2, DeleteSubnetDoneTraced
  <2> QED BY <2>2, <2>3
<1> QED BY <1>3, <1>4, <1>5

(* A handler that is about to delete its Vpc or Vlan knows the network,    *)
(* and every subnet it had resolved is gone already.                       *)
LEMMA NetworkIsLast ==
    ASSUME NEW C, NEW q \in GoodRequest, RequestTraced(C, q),
           q.pc = "dn_loop", q.todo = {}
    PROVE  DeletesNetwork(C, q) /\ \A u \in q.seen : Removed(C, u)
<1>1. ~q.fall
  BY DEF RequestTraced, DeletingPcs, DeletesSubnet
<1>2. DeletesNetwork(C, q)
  BY <1>1 DEF RequestTraced, DeletingPcs
<1> QED BY <1>2 DEF DeletesNetwork

\* DeleteNetwork deletes its Vpc or Vlan.
LEMMA DeleteNetworkObjectTraced ==
    ASSUME NEW C, TypeInv, UidInv(C), NEW r \in Requests, DeleteNetworkObject(r)
    PROVE  Traces(C)
<1>0. PICK q : q = req[r]
  OBVIOUS
<1>1. /\ q \in GoodRequest /\ q \in Request /\ q.pc = "dn_loop" /\ q.todo = {}
      /\ RequestTraced(C, q) /\ q.seen \subseteq Uids
      /\ q.op = "terminate" => q.uid \in Uids
  BY <1>0, RequestsGood DEF DeleteNetworkObject, GoodRequest, UidInv, Request,
     WellFormed
<1>2. /\ DeletesNetwork(C, q) /\ q.found.kind \in Kinds
      /\ q.found.name \in Names /\ \A u \in q.seen : Removed(C, u)
  BY <1>1, NetworkIsLast DEF DeletesNetwork, FoundNet
<1>3. NothingNew
  BY <1>0, <1>2 DEF DeleteNetworkObject, caches, NothingNew, TypeInv, TypeOK
<1>4. PICK o, p :
          /\ req' = [req EXCEPT ![r] = p]
          /\ \/ /\ net'[q.found.kind][q.found.name] = None
                /\ p = DeleteNetworkDone(q)
             \/ p = DeleteFailed(q, DeleteError(o))
  <2>1. PICK o \in Outcomes(q.cancelled) :
            /\ net' = IF o = "fail" THEN net
                      ELSE [net EXCEPT ![q.found.kind][q.found.name] = None]
            /\ req' = [req EXCEPT ![r] =
                    IF Deleted(o, net[q.found.kind][q.found.name] # None)
                    THEN DeleteNetworkDone(q)
                    ELSE DeleteFailed(q, DeleteError(o))]
    BY <1>0 DEF DeleteNetworkObject
  <2>2. CASE Deleted(o, net[q.found.kind][q.found.name] # None)
    <3>1. net'[q.found.kind][q.found.name] = None
      BY <1>2, <2>1, <2>2 DEF Deleted, TypeInv, TypeOK
    <3> QED BY <2>1, <2>2, <3>1
  <2>3. CASE ~Deleted(o, net[q.found.kind][q.found.name] # None)
    BY <2>1, <2>3
  <2> QED BY <2>2, <2>3
<1>5. CASE p = DeleteFailed(q, DeleteError(o))
  <2>1. DeleteError(o) \in Results \ {"ok"} /\ q.pc \in DsPcs
    BY <1>1 DEF DeleteError, Results, DsPcs
  <2> QED BY <1>0, <1>3, <1>4, <1>5, <2>1, DeleteFailingStep
<1>6. CASE /\ net'[q.found.kind][q.found.name] = None
           /\ p = DeleteNetworkDone(q)
  <2>1. \A i \in 0..MaxL3 : MayCreate(p, i) => MayCreate(q, i)
    BY <1>1, <1>6, ReturnsCreateNothing
  <2>2. /\ Persists(C) /\ ObjectsTraced(C)'
        /\ RequestTraced(C, p)' => Traces(C)
    BY <1>0, <1>3, <1>4, <2>1, PlainStep
  <2>3. PICK v : v = q.found.uid
    OBVIOUS
  <2>4. NetAt(C, q.found.kind, q.found.name, v) /\ v \in Uids
    BY <1>2, <2>3 DEF DeletesNetwork, NetAt
  <2>5. Removed(C, v)'
    BY <1>2, <1>6, <2>2, <2>4, NetworkGone
  <2>6. \A u \in q.seen : Removed(C, u)'
    BY <1>1, <1>2, <2>2 DEF Persists
  <2>7. q.op = "terminate" => \A u \in {q.uid} \union q.seen : Removed(C, u)'
    BY <1>2, <2>3, <2>5, <2>6 DEF DeletesNetwork
  <2>8. RequestTraced(C, p)'
    BY <1>1, <1>6, <2>2, <2>7, FinishTraced DEF DeleteNetworkDone, Results
  <2> QED BY <2>2, <2>8
<1> QED BY <1>4, <1>5, <1>6

\* A handler's step keeps UIDs traced.
LEMMA StepTraced ==
    ASSUME NEW C, TypeInv, UidInv(C), NEW r \in Requests, r \in C, Step(r)
    PROVE  Traces(C)
BY CreateNetworkObjectTraced, CreateSubnetGetTraced, NetAttachTraced,
   CreateSubnetObjectTraced, DeleteNetworkGetTraced, DeleteSubnetGetTraced,
   DeleteSubnetObjectTraced, DeleteNetAttachTraced, DeleteNetworkObjectTraced
   DEF Step

\* A step that moves no handler and creates nothing keeps UIDs traced.
LEMMA NoRequestMoves ==
    ASSUME NEW C, TypeInv, UidInv(C), NothingNew, req' = req
    PROVE  Traces(C)
<1>1. UidsRunOut(C)
  BY DEF UidsRunOut, Unborn, MayCreate
<1>2. Persists(C) /\ ObjectsTraced(C)'
  BY <1>1, NothingNewTraced DEF UidInv
<1>3. ASSUME NEW x \in Requests PROVE RequestTraced(C, req[x])'
  <2>1. PICK q : q = req[x]
    OBVIOUS
  <2>2. q \in GoodRequest /\ RequestTraced(C, q)
    BY <2>1, RequestsGood DEF UidInv
  <2>3. RequestTraced(C, q)'
    BY <1>2, <2>2, UntouchedTraced
  <2> QED BY <2>1, <2>3
<1> QED BY <1>2, <1>3 DEF UidInv, Traces

\* Watches and the kube-ovn controller keep UIDs traced.
LEMMA SyncTraced ==
    ASSUME NEW C, TypeInv, UidInv(C), Sync
    PROVE  Traces(C)
<1>1. NothingNew /\ req' = req
  <2>1. ASSUME NEW k \in Kinds, WatchNetworks(k) PROVE NothingNew /\ req' = req
    BY <2>1 DEF WatchNetworks, api, NothingNew, TypeInv, TypeOK
  <2>2. ASSUME WatchSubnets PROVE NothingNew /\ req' = req
    BY <2>2 DEF WatchSubnets, api, NothingNew
  <2>3. ASSUME NEW k \in Kinds, NEW n \in Names, Reconcile(k, n)
        PROVE  NothingNew /\ req' = req
    <3>1. net[k][n] \in NetObj /\ net \in [Kinds -> [Names -> NetObj \union {None}]]
      BY <2>3 DEF Reconcile, TypeInv, TypeOK
    <3>2. ASSUME NEW l \in Kinds, NEW m \in Names, net'[l][m] # None
          PROVE  net[l][m] # None /\ net'[l][m].uid = net[l][m].uid
      <4>1. CASE l = k /\ m = n
        BY <2>3, <3>1, <4>1 DEF Reconcile, NetObj
      <4>2. CASE ~(l = k /\ m = n)
        BY <2>3, <3>1, <3>2, <4>2 DEF Reconcile
      <4> QED BY <4>1, <4>2
    <3> QED BY <2>3, <3>2 DEF Reconcile, caches, NothingNew
  <2> QED BY <2>1, <2>2, <2>3 DEF Sync
<1> QED BY <1>1, NoRequestMoves

\* A cancellation changes nothing that is known.
LEMMA CancelTraced ==
    ASSUME NEW C, TypeInv, UidInv(C), NEW r \in Requests, Cancel(r)
    PROVE  Traces(C)
<1>0. PICK q : q = req[r]
  OBVIOUS
<1>1. q \in GoodRequest /\ q \in Request /\ RequestTraced(C, q)
  BY <1>0, RequestsGood DEF UidInv, GoodRequest
<1>2. PICK p : p = [q EXCEPT !.cancelled = TRUE]
  OBVIOUS
<1>3. req' = [req EXCEPT ![r] = p]
  BY <1>0, <1>2 DEF Cancel
<1>4. NothingNew
  BY UnchangedIsNothingNew DEF Cancel, api, caches
<1>5. /\ p.pc = q.pc /\ p.op = q.op /\ p.idx = q.idx /\ p.fall = q.fall
      /\ p.uid = q.uid /\ p.sub = q.sub /\ p.found = q.found
      /\ p.todo = q.todo /\ p.seen = q.seen /\ p.res = q.res
  BY <1>1, <1>2 DEF Request
<1>6. \A i \in 0..MaxL3 : MayCreate(p, i) => MayCreate(q, i)
  BY <1>5 DEF MayCreate
<1>7. Persists(C) /\ (RequestTraced(C, p)' => Traces(C))
  BY <1>0, <1>3, <1>4, <1>6, PlainStep
<1>8. RequestTraced(C, q)'
  BY <1>1, <1>7, UntouchedTraced
<1>9. RequestTraced(C, p)'
  BY <1>5, <1>8 DEF RequestTraced, DeletesNetwork, DeletesSubnet
<1> QED BY <1>7, <1>9

\* After a crash every handler that was running has returned with no answer.
LEMMA CrashTraced ==
    ASSUME NEW C, TypeInv, UidInv(C), Crash
    PROVE  Traces(C)
<1>1. NothingNew
  BY DEF Crash, api, NothingNew
<1>2. ASSUME NEW x \in Requests
      PROVE  req'[x] = IF Running(x) THEN Finish(req[x], "lost") ELSE req[x]
  BY DEF Crash
<1>3. UidsRunOut(C)
  <2> SUFFICES ASSUME NEW u \in Uids, Unborn(C, u)' PROVE Unborn(C, u)
    BY DEF UidsRunOut
  <2>1. u[1] \in C /\ u[1] \in Requests /\ MayCreate(req'[u[1]], u[2])
    BY DEF Unborn, MayCreate, Uids
  <2>2. req[u[1]] \in Request
    BY <2>1 DEF TypeInv, TypeOK
  <2>3. req'[u[1]] = req[u[1]]
    BY <1>2, <2>1, <2>2, ReturnsCreateNothing
  <2> QED BY <2>1, <2>3 DEF Unborn
<1>4. Persists(C) /\ ObjectsTraced(C)'
  BY <1>1, <1>3, NothingNewTraced DEF UidInv
<1>5. ASSUME NEW x \in Requests PROVE RequestTraced(C, req[x])'
  <2>1. PICK q, y : q = req[x] /\ y = req'[x]
    OBVIOUS
  <2>2. q \in GoodRequest /\ RequestTraced(C, q)
    BY <2>1, RequestsGood DEF UidInv
  <2>3. RequestTraced(C, q)'
    BY <1>4, <2>2, UntouchedTraced
  <2>4. RequestTraced(C, Finish(q, "lost"))'
    BY <1>4, <2>2, FinishTraced DEF Results
  <2>5. y = q \/ y = Finish(q, "lost")
    BY <1>2, <2>1
  <2>6. RequestTraced(C, y)'
    BY <2>3, <2>4, <2>5
  <2> QED BY <2>1, <2>6
<1> QED BY <1>4, <1>5 DEF UidInv, Traces

-----------------------------------------------------------------------------
(* The kube-ovn manager alone *)

\* Initially there are no objects and no requests.
LEMMA InitTraced ==
    ASSUME NEW C, Init
    PROVE  UidInv(C)
<1>1. ObjectsTraced(C)
  BY DEF Init, ObjectsTraced
<1>2. RequestTraced(C, Idle)
  BY DEF RequestTraced, Idle, DeletingPcs, CsPcs
<1>3. \A r \in Requests : req[r] = Idle
  BY DEF Init
<1> QED BY <1>1, <1>2, <1>3 DEF UidInv

\* UIDs are traced in every reachable state.
LEMMA UidInvariant == Spec => [](TypeInv /\ UidInv(Requests))
<1>1. Init => UidInv(Requests)
  BY InitTraced
<1>2. TypeInv /\ UidInv(Requests) /\ [Next]_vars => UidInv(Requests)'
  <2> SUFFICES ASSUME TypeInv, UidInv(Requests), [Next]_vars
               PROVE  UidInv(Requests)'
    OBVIOUS
  <2>1. ASSUME NEW r \in Requests, Call(r) \/ Step(r) \/ Cancel(r)
        PROVE  UidInv(Requests)'
    BY <2>1, CallTraced, StepTraced, CancelTraced DEF Traces
  <2>2. CASE Sync
    BY <2>2, SyncTraced DEF Traces
  <2>3. CASE Crash
    BY <2>3, CrashTraced DEF Traces
  <2>4. CASE UNCHANGED vars
    BY <2>4, UnchangedIsNothingNew, NoRequestMoves DEF vars, Traces
  <2> QED BY <2>1, <2>2, <2>3, <2>4 DEF Next
<1> QED BY <1>1, <1>2, TypeCorrect, PTL DEF Spec, TypeInv

(* A TerminateVirtualisedNetworkResource that reports success leaves       *)
(* neither the object with the id it was given nor any subnet DeleteNetwork *)
(* had resolved for it, however stale the caches were it looked them up in. *)
THEOREM TerminationLeavesNothing == Spec => []TerminatedIsGone
<1>1. UidInv(Requests) => TerminatedIsGone
  BY DEF UidInv, RequestTraced, Removed, TerminatedIsGone
<1> QED BY <1>1, UidInvariant, PTL

(* Only DeleteNetwork removes a Vpc or Vlan, and only after every subnet   *)
(* it had resolved for it, also when it runs as a rollback.                *)
THEOREM SubnetsGoFirst == Spec => NetworkOutlivesSubnets
<1>1. ASSUME TypeInv, UidInv(Requests), Next, NEW r \in Requests,
             NEW k \in Kinds, NEW n \in Names, req'[r] # req[r],
             net[k][n] # None, net'[k][n] = None
      PROVE  req[r].seen \intersect SubnetIds = {}
  <2>1. ASSUME NEW p \in Requests, Step(p), net' # net
        PROVE  CreateNetworkObject(p) \/ DeleteNetworkObject(p)
    BY <2>1 DEF Step, CreateSubnetGetOverlay, CreateSubnetGetUnderlay,
       CreateNetAttach, CreateSubnetObject, CleanupNetAttach,
       DeleteNetworkGetOverlay, DeleteNetworkGetUnderlay, DeleteSubnetGet,
       DeleteSubnetObject, DeleteNetAttach, api
  <2>2. PICK p \in Requests : CreateNetworkObject(p) \/ DeleteNetworkObject(p)
    <3>1. \A p \in Requests : ~Call(p) /\ ~Cancel(p)
      BY <1>1 DEF Call, CallCreateNetwork, CallCreateSubnet, CallTerminate,
         Reject, Cancel, api
    <3>2. ~Sync /\ ~Crash
      BY <1>1 DEF Sync, WatchNetworks, WatchSubnets, Reconcile, Crash, api
    <3> QED BY <1>1, <2>1, <3>1, <3>2 DEF Next
  <2>3. ~CreateNetworkObject(p)
    <3>1. SUFFICES ASSUME CreateNetworkObject(p) PROVE FALSE
      OBVIOUS
    <3>2. net'[k][n] = net[k][n] \/ net'[k][n] \in NetObj
      <4>1. req[p].kind \in Kinds /\ req[p].name \in Names
        BY <1>1, <3>1, RequestsGood DEF CreateNetworkObject, GoodRequest,
           WellFormed, Request
      <4>2. [uid |-> NetUid(p), subnets |-> {}] \in NetObj
        BY ConstantsAssumption DEF NetObj, NetUid, Uids
      <4> QED BY <1>1, <3>1, <4>1, <4>2 DEF CreateNetworkObject, TypeInv, TypeOK
    <3> QED BY <1>1, <3>2, ConstantsAssumption
  <2>4. DeleteNetworkObject(p) /\ p = r
    BY <1>1, <2>2, <2>3 DEF DeleteNetworkObject, TypeInv, TypeOK
  <2>5. PICK q : q = req[r]
    OBVIOUS
  <2>6. /\ q \in GoodRequest /\ RequestTraced(Requests, q)
        /\ q.pc = "dn_loop" /\ q.todo = {}
    BY <1>1, <2>4, <2>5, RequestsGood DEF UidInv, DeleteNetworkObject
  <2>7. \A u \in q.seen : Removed(Requests, u)
    BY <2>6, NetworkIsLast
  <2> QED BY <2>5, <2>7 DEF Removed
<1>2. TypeInv /\ UidInv(Requests) /\ [Next]_vars =>
        [\A k \in Kinds, n \in Names, r \in Requests :
            /\ net[k][n] # None /\ net'[k][n] = None
            /\ req'[r] # req[r]
            => req[r].seen \intersect SubnetIds = {}]_vars
  BY <1>1
<1> QED BY <1>2, UidInvariant, PTL DEF Spec, NetworkOutlivesSubnets

-----------------------------------------------------------------------------
(* The composite manager: UIDs of SR-IOV networks *)

\* The requests that are issued; the earlier ones have only left networks.
Issued == Requests \ Earlier

(* The SR-IOV network with UID u, if there still is one, is named n; no    *)
(* kube-ovn object ever has that UID.                                      *)
SriovAt(n, u) ==
    /\ u \in Uids /\ u[2] = 0 /\ Removed(Issued, u)
    /\ \A m \in Names : sriov[m] = u => m = n

\* No SR-IOV network has ever had UID u, and none ever will.
NeverSriov(u) ==
    ~Unborn(Issued, u) /\ \A n \in Names : sriov[n] # u /\ cSriov[n] # u

\* No SR-IOV network has UID u, and none ever will.
SriovGone(u) == ~Unborn(Issued, u) /\ \A n \in Names : sriov[n] # u

\* The two managers never have a UID in common, not even in their caches.
SriovTraced ==
    /\ \A n \in Names : /\ sriov[n] # None => SriovAt(n, sriov[n])
                        /\ cSriov[n] # None => SriovAt(n, cSriov[n])
    /\ \A k \in Kinds, n \in Names :
         /\ net[k][n] # None => NeverSriov(net[k][n].uid)
         /\ cNet[k][n] # None => NeverSriov(cNet[k][n].uid)

(* What request q has done when it is at place a of the composite code.  A *)
(* termination that found a kube-ovn network, and then falls through, does *)
(* not get past the lookup of its id among the SR-IOV networks.            *)
PlaceTraced(q, a) ==
    /\ a = "create" => q.pc = "create"
    /\ a \in {"get_vpc", "get_vlan", "get_sriov"} =>
         q.pc = "cs_vpc" /\ q.op = "createSub"
    /\ a \in {"delete_get", "delete_nad"} => q.pc = "dn_loop" /\ q.fall
    /\ a = "delete_nad" =>
         q.name \in Names /\ SriovAt(q.name, q.uid) /\ q.seen = {q.uid}
    /\ q.pc \in DeletingPcs /\ ~q.fall => NeverSriov(q.found.uid)
    /\ q.pc \in DeletingPcs /\ q.fall /\ q.seen # {q.uid} => NeverSriov(q.uid)
    /\ q.op = "terminate" /\ q.res = "ok" =>
         \A u \in {q.uid} \union q.seen : SriovGone(u)

CompositeTypes ==
    /\ sriov \in [Names -> Uids \union {None}]
    /\ cSriov \in [Names -> Uids \union {None}]
    /\ at \in [Requests -> Places]

\* Inductive together with TypeInv and UidInv(Issued).
CompositeInv ==
    /\ CompositeTypes /\ SriovTraced
    /\ \A r \in Requests : PlaceTraced(req[r], at[r])

\* Some termination has ended, whatever its answer.
SomeTerminated ==
    \E p \in Requests : req[p].op = "terminate" /\ req[p].pc = "done"

\* An SR-IOV network that was looked up exists, or a termination has ended.
KnownSriov ==
    /\ \A n \in Names : cSriov[n] # None => cSriov[n] \in SriovIds \/ SomeTerminated
    /\ \A r \in Requests : at[r] = "delete_nad" =>
         req[r].uid \in SriovIds \/ SomeTerminated

-----------------------------------------------------------------------------
(* What a step of the kube-ovn manager does to a request q, now p, as far  *)
(* as terminations are concerned: it starts, fails or has nothing to do    *)
(* with one; it finds a network; it goes on; it falls through; it ends.    *)
StepShape(q, p) ==
    \/ p.pc \notin DeletingPcs /\ ~p.fall /\ ~(p.op = "terminate" /\ p.res = "ok")
    \/ \E k \in Kinds, n \in Names :
         /\ cNet[k][n] # None /\ p.found.uid = cNet[k][n].uid
         /\ p.pc = "dn_loop" /\ ~p.fall /\ p.res = "none"
    \/ /\ q.pc \in DeletingPcs /\ p.pc \in DeletingPcs /\ p.fall = q.fall
       /\ p.uid = q.uid /\ p.seen = q.seen /\ p.found = q.found
       /\ p.res = "none"
    \/ /\ q.pc \in DsPcs /\ ~q.fall /\ p.fall /\ p.pc = "dn_loop"
       /\ q.op = "terminate" /\ p.uid = q.uid /\ p.res = "none"
       /\ p.seen = q.seen \union {q.uid}
    \/ /\ p.pc = "done" /\ ~p.fall /\ p.uid = q.uid /\ p.seen = q.seen
       /\ q.op = "terminate"
       /\ (q.pc = "ds_nad" /\ q.fall) \/ (q.pc = "dn_loop" /\ q.todo = {})

\* Returning without success.
LEMMA FailShape ==
    ASSUME NEW C, NEW q \in GoodRequest, RequestTraced(C, q), NEW res,
           res # "ok" \/ q.op # "terminate"
    PROVE  StepShape(q, Finish(q, res))
<1> DEFINE p == Finish(q, res)
<1>1. p.pc = "done" /\ ~p.fall /\ p.op = q.op /\ p.res = res
  BY DEF Finish, Idle
<1> HIDE DEF p
<1>2. StepShape(q, p)
  BY <1>1 DEF StepShape, DeletingPcs
<1> QED BY <1>2 DEF p

\* A failing CreateSubnet and allocateL3Attributes are not terminations.
LEMMA CreateShape ==
    ASSUME NEW C, NEW q \in GoodRequest, RequestTraced(C, q), NEW res,
           q.pc \in CsPcs \union {"create"}
    PROVE  StepShape(q, CreateSubnetFailed(q, res)) /\ StepShape(q, NextL3(q))
<1>1. q.op # "terminate" /\ ~q.fall /\ q \in Request
  BY DEF GoodRequest, WellFormed, CsPcs
<1>2. StepShape(q, Finish(q, res)) /\ StepShape(q, Finish(q, "ok"))
  BY <1>1, FailShape
<1>3. CASE q.op = "createNet"
  <2> DEFINE p == CreateSubnetFailed(q, res)
  <2>1. p.pc = "dn_vpc" /\ ~p.fall /\ p.op = "createNet"
    BY <1>3 DEF CreateSubnetFailed, Idle
  <2> HIDE DEF p
  <2>2. StepShape(q, p)
    BY <2>1 DEF StepShape, DeletingPcs
  <2>3. CASE q.idx < q.l3
    <3> DEFINE y == NextL3(q)
    <3>1. y.pc = "cs_vpc" /\ y.fall = q.fall /\ y.op = q.op
      BY <1>1, <1>3, <2>3 DEF NextL3, Request
    <3> HIDE DEF y
    <3>2. StepShape(q, y)
      BY <1>1, <3>1 DEF StepShape, DeletingPcs
    <3> QED BY <2>2, <3>2 DEF p, y
  <2>4. CASE ~(q.idx < q.l3)
    BY <1>2, <2>2, <2>4 DEF NextL3, p
  <2> QED BY <2>3, <2>4
<1>4. CASE q.op # "createNet"
  BY <1>2, <1>4 DEF CreateSubnetFailed, NextL3
<1> QED BY <1>3, <1>4

\* A failing delete returns or falls through.
LEMMA DeleteFailedShape ==
    ASSUME NEW C, NEW q \in GoodRequest, RequestTraced(C, q), NEW res,
           res # "ok", q.pc \in DsPcs
    PROVE  StepShape(q, DeleteFailed(q, res))
<1>1. /\ q \in Request /\ q.op \in {"createNet", "terminate"} /\ q.res = "none"
  BY DEF GoodRequest, WellFormed, RequestTraced, DsPcs
<1>2. StepShape(q, Finish(q, res)) /\ StepShape(q, Finish(q, "err"))
  BY FailShape
<1>3. CASE q.op = "terminate" /\ ~q.fall /\ res = "notfound"
  <2> DEFINE p == DeleteFailed(q, res)
  <2>1. /\ p.pc = "dn_loop" /\ p.fall /\ p.uid = q.uid /\ p.res = q.res
        /\ p.seen = q.seen \union {q.uid}
    BY <1>1, <1>3 DEF DeleteFailed, Request
  <2> HIDE DEF p
  <2>2. StepShape(q, p)
    BY <1>1, <1>3, <2>1 DEF StepShape
  <2> QED BY <2>2 DEF p
<1>4. CASE ~(q.op = "terminate" /\ ~q.fall /\ res = "notfound")
  BY <1>1, <1>2, <1>4 DEF DeleteFailed
<1> QED BY <1>3, <1>4

\* Goes on with the same deletion.
LEMMA GoesOnShape ==
    ASSUME NEW C, NEW q \in GoodRequest, RequestTraced(C, q), NEW p,
           q.pc \in DeletingPcs, p.pc \in DeletingPcs, p.fall = q.fall,
           p.uid = q.uid, p.seen = q.seen, p.found = q.found, p.res = q.res
    PROVE  StepShape(q, p)
<1>1. q.res = "none"
  BY DEF RequestTraced, DeletingPcs
<1> QED BY <1>1 DEF StepShape

\* Ends a termination with success.
LEMMA EndShape ==
    ASSUME NEW q \in GoodRequest, q.op = "terminate",
           (q.pc = "ds_nad" /\ q.fall) \/ (q.pc = "dn_loop" /\ q.todo = {})
    PROVE  StepShape(q, Finish(q, "ok"))
<1> DEFINE p == Finish(q, "ok")
<1>1. p.pc = "done" /\ ~p.fall /\ p.uid = q.uid /\ p.seen = q.seen
  BY DEF Finish, Idle
<1> HIDE DEF p
<1>2. StepShape(q, p)
  BY <1>1 DEF StepShape
<1> QED BY <1>2 DEF p

\* Every step of the kube-ovn manager has this shape, and leaves caches alone.
LEMMA StepHasShape ==
    ASSUME NEW C, TypeInv, UidInv(C), NEW r \in Requests, Step(r), NEW q,
           q = req[r]
    PROVE  /\ UNCHANGED caches
           /\ \E p : req' = [req EXCEPT ![r] = p] /\ StepShape(q, p)
<1>1. /\ q \in GoodRequest /\ q \in Request /\ RequestTraced(C, q)
      /\ req \in [Requests -> Request]
  BY RequestsGood DEF UidInv, GoodRequest, TypeInv, TypeOK
<1>2. CASE CreateNetworkObject(r)
  <2>1. q.pc = "create" /\ q.op # "terminate"
    BY <1>1, <1>2 DEF CreateNetworkObject, GoodRequest, WellFormed
  <2>2. StepShape(q, NextL3(q)) /\ StepShape(q, Finish(q, "err"))
    BY <1>1, <2>1, CreateShape, FailShape
  <2> QED BY <1>2, <2>2 DEF CreateNetworkObject
<1>3. CASE CreateSubnetGetOverlay(r) \/ CreateSubnetGetUnderlay(r)
  <2>1. q.pc \in CsPcs /\ q.op # "terminate" /\ ~q.fall
    BY <1>1, <1>3 DEF CreateSubnetGetOverlay, CreateSubnetGetUnderlay,
       GoodRequest, WellFormed, CsPcs
  <2>2. \A res : StepShape(q, CreateSubnetFailed(q, res))
    BY <1>1, <2>1, CreateShape
  <2>3. ASSUME NEW k, NEW n PROVE StepShape(q, CreateSubnetIn(q, k, n))
    <3> DEFINE p == [q EXCEPT !.pc = "cs_nad", !.found = FoundNetwork(k, n)]
    <3>1. p.pc = "cs_nad" /\ p.fall = q.fall /\ p.op = q.op
      BY <1>1 DEF Request
    <3> HIDE DEF p
    <3>2. StepShape(q, p)
      BY <2>1, <3>1 DEF StepShape, DeletingPcs
    <3> QED BY <2>2, <3>2 DEF CreateSubnetIn, p
  <2>4. StepShape(q, [q EXCEPT !.pc = "cs_vlan"])
    <3> DEFINE p == [q EXCEPT !.pc = "cs_vlan"]
    <3>1. p.pc = "cs_vlan" /\ p.fall = q.fall /\ p.op = q.op
      BY <1>1 DEF Request
    <3> HIDE DEF p
    <3>2. StepShape(q, p)
      BY <2>1, <3>1 DEF StepShape, DeletingPcs
    <3> QED BY <3>2 DEF p
  <2> QED BY <1>3, <2>2, <2>3, <2>4
          DEF CreateSubnetGetOverlay, CreateSubnetGetUnderlay
<1>4. CASE CreateNetAttach(r) \/ CreateSubnetObject(r) \/ CleanupNetAttach(r)
  <2>1. q.pc \in CsPcs /\ q.op # "terminate" /\ ~q.fall
    BY <1>1, <1>4 DEF CreateNetAttach, CreateSubnetObject, CleanupNetAttach,
       GoodRequest, WellFormed, CsPcs
  <2>2. /\ StepShape(q, CreateSubnetFailed(q, "err"))
        /\ StepShape(q, NextL3(q))
    BY <1>1, <2>1, CreateShape
  <2>3. ASSUME NEW pc \in {"cs_subnet", "cs_cleanup"}
        PROVE  StepShape(q, [q EXCEPT !.pc = pc])
    <3> DEFINE p == [q EXCEPT !.pc = pc]
    <3>1. p.pc = pc /\ p.fall = q.fall /\ p.op = q.op
      BY <1>1 DEF Request
    <3> HIDE DEF p
    <3>2. StepShape(q, p)
      BY <2>1, <3>1 DEF StepShape, DeletingPcs
    <3> QED BY <3>2 DEF p
  <2> QED BY <1>4, <2>2, <2>3 DEF CreateNetAttach, CreateSubnetObject,
             CleanupNetAttach, NetAttachRefused, caches
<1>5. CASE DeleteNetworkGetOverlay(r) \/ DeleteNetworkGetUnderlay(r)
  <2>1. /\ q.pc \in {"dn_vpc", "dn_vlan"} /\ q.pc \in DsPcs /\ ~q.fall
        /\ q.res = "none"
    BY <1>1, <1>5 DEF DeleteNetworkGetOverlay, DeleteNetworkGetUnderlay,
       RequestTraced, DsPcs
  <2>2. StepShape(q, DeleteFailed(q, "notfound"))
    BY <1>1, <2>1, DeleteFailedShape
  <2>3. ASSUME NEW k \in Kinds, NEW n \in GetNetwork(q, k)
        PROVE  StepShape(q, DeleteNetworkIn(q, k, n))
    <3> DEFINE p == DeleteNetworkIn(q, k, n)
    <3>1. /\ p.pc = "dn_loop" /\ p.fall = q.fall /\ p.res = q.res
          /\ p.found.uid = cNet[k][n].uid
      BY <1>1 DEF DeleteNetworkIn, FoundNetwork, Request
    <3>2. n \in Names /\ cNet[k][n] # None
      BY <2>3 DEF GetNetwork, Selected
    <3> HIDE DEF p
    <3>3. StepShape(q, p)
      BY <2>1, <3>1, <3>2 DEF StepShape
    <3> QED BY <3>3 DEF p
  <2>4. StepShape(q, [q EXCEPT !.pc = "dn_vlan"])
    <3> DEFINE p == [q EXCEPT !.pc = "dn_vlan"]
    <3>1. p.pc = "dn_vlan" /\ p.fall = q.fall /\ p.res = q.res
      BY <1>1 DEF Request
    <3> HIDE DEF p
    <3>2. StepShape(q, p)
      BY <2>1, <3>1 DEF StepShape, DeletingPcs
    <3> QED BY <3>2 DEF p
  <2> QED BY <1>5, <2>2, <2>3, <2>4 DEF DeleteNetworkGetOverlay,
             DeleteNetworkGetUnderlay, Kinds
<1>6. CASE DeleteSubnetGet(r)
  <2>1. q.pc = "dn_loop" /\ q.pc \in DsPcs
    BY <1>6 DEF DeleteSubnetGet, DsPcs
  <2>2. StepShape(q, DeleteFailed(q, "notfound"))
    BY <1>1, <2>1, DeleteFailedShape
  <2>3. ASSUME NEW s, NEW todo
        PROVE  StepShape(q, [q EXCEPT !.pc = "ds_subnet", !.sub = s,
                                      !.todo = todo])
    <3> DEFINE p == [q EXCEPT !.pc = "ds_subnet", !.sub = s, !.todo = todo]
    <3>1. /\ p.pc = "ds_subnet" /\ p.fall = q.fall /\ p.res = q.res
          /\ p.uid = q.uid /\ p.seen = q.seen /\ p.found = q.found
      BY <1>1 DEF Request
    <3> HIDE DEF p
    <3>2. p.pc \in DeletingPcs /\ q.pc \in DeletingPcs
      BY <2>1, <3>1 DEF DeletingPcs
    <3>3. StepShape(q, p)
      BY <1>1, <3>1, <3>2, GoesOnShape
    <3> QED BY <3>3 DEF p
  <2> QED BY <1>6, <2>2, <2>3 DEF DeleteSubnetGet
<1>7. CASE DeleteSubnetObject(r)
  <2>1. q.pc = "ds_subnet" /\ q.pc \in DsPcs
    BY <1>7 DEF DeleteSubnetObject, DsPcs
  <2>2. \A o : StepShape(q, DeleteFailed(q, DeleteError(o)))
    BY <1>1, <2>1, DeleteFailedShape DEF DeleteError
  <2>3. StepShape(q, SubnetDeleted(q))
    <3> DEFINE p == SubnetDeleted(q)
    <3>1. /\ p.pc = "ds_nad" /\ p.fall = q.fall /\ p.res = q.res
          /\ p.uid = q.uid /\ p.seen = q.seen /\ p.found = q.found
      BY <1>1 DEF Request, SubnetDeleted
    <3> HIDE DEF p
    <3>2. p.pc \in DeletingPcs /\ q.pc \in DeletingPcs
      BY <2>1, <3>1 DEF DeletingPcs
    <3>3. StepShape(q, p)
      BY <1>1, <3>1, <3>2, GoesOnShape
    <3> QED BY <3>3 DEF p
  <2> QED BY <1>7, <2>2, <2>3 DEF DeleteSubnetObject, caches
<1>8. CASE DeleteNetAttach(r)
  <2>1. q.pc = "ds_nad" /\ q.pc \in DsPcs
    BY <1>8 DEF DeleteNetAttach, DsPcs
  <2>2. \A o : StepShape(q, DeleteFailed(q, DeleteError(o)))
    BY <1>1, <2>1, DeleteFailedShape DEF DeleteError
  <2>3. StepShape(q, DeleteSubnetDone(q))
    <3>1. CASE q.fall
      <4>1. q.op = "terminate"
        BY <1>1, <3>1 DEF GoodRequest, WellFormed
      <4> QED BY <1>1, <2>1, <3>1, <4>1, EndShape DEF DeleteSubnetDone
    <3>2. CASE ~q.fall
      <4> DEFINE p == DeleteSubnetDone(q)
      <4>1. /\ p.pc = "dn_loop" /\ p.fall = q.fall /\ p.res = q.res
            /\ p.uid = q.uid /\ p.seen = q.seen /\ p.found = q.found
        BY <1>1, <3>2 DEF Request, DeleteSubnetDone
      <4> HIDE DEF p
      <4>2. p.pc \in DeletingPcs /\ q.pc \in DeletingPcs
        BY <2>1, <4>1 DEF DeletingPcs
      <4>3. StepShape(q, p)
        BY <1>1, <4>1, <4>2, GoesOnShape
      <4> QED BY <4>3 DEF p
    <3> QED BY <3>1, <3>2
  <2> QED BY <1>8, <2>2, <2>3 DEF DeleteNetAttach, caches
<1>9. CASE DeleteNetworkObject(r)
  <2>1. q.pc = "dn_loop" /\ q.pc \in DsPcs /\ q.todo = {}
    BY <1>9 DEF DeleteNetworkObject, DsPcs
  <2>2. \A o : StepShape(q, DeleteFailed(q, DeleteError(o)))
    BY <1>1, <2>1, DeleteFailedShape DEF DeleteError
  <2>3. StepShape(q, DeleteNetworkDone(q))
    <3>1. CASE q.op = "terminate"
      BY <1>1, <2>1, <3>1, EndShape DEF DeleteNetworkDone
    <3>2. CASE q.op # "terminate"
      BY <1>1, <3>2, FailShape DEF DeleteNetworkDone
    <3> QED BY <3>1, <3>2
  <2> QED BY <1>9, <2>2, <2>3 DEF DeleteNetworkObject, caches
<1> QED BY <1>2, <1>3, <1>4, <1>5, <1>6, <1>7, <1>8, <1>9 DEF Step

-----------------------------------------------------------------------------
(* What a step of the composite manager does to these facts *)

FullInv == TypeInv /\ UidInv(Issued) /\ CompositeInv

\* A new SR-IOV network has a new UID, and the cache takes over what is there.
SriovFrame ==
    \A n \in Names :
        /\ sriov'[n] # None =>
             sriov'[n] = sriov[n] \/ Unborn(Issued, sriov'[n])
        /\ cSriov'[n] # None =>
             cSriov'[n] = cSriov[n] \/ cSriov'[n] = sriov[n]

\* What is known of UIDs of SR-IOV networks stays known.
SriovPersists ==
    /\ \A n \in Names, u \in Uids : SriovAt(n, u) => SriovAt(n, u)'
    /\ \A u \in Uids : NeverSriov(u) => NeverSriov(u)'
    /\ \A u \in Uids : SriovGone(u) => SriovGone(u)'

\* What is known of SR-IOV UIDs persists, as for the others.
LEMMA SriovKnownPersists ==
    ASSUME Persists(Issued), SriovFrame
    PROVE  SriovPersists
<1>1. \A u \in Uids : u # None
  BY ConstantsAssumption
<1>2. ASSUME NEW n \in Names, NEW u \in Uids, SriovAt(n, u)
      PROVE  SriovAt(n, u)'
  <2>1. Removed(Issued, u)' /\ ~Unborn(Issued, u)
    BY <1>2 DEF SriovAt, Persists, Removed
  <2>2. \A m \in Names : sriov'[m] = u => m = n
    BY <1>1, <1>2, <2>1 DEF SriovFrame, SriovAt
  <2> QED BY <1>2, <2>1, <2>2 DEF SriovAt
<1>3. ASSUME NEW u \in Uids, NeverSriov(u) PROVE NeverSriov(u)'
  BY <1>1, <1>3 DEF NeverSriov, Persists, SriovFrame
<1>4. ASSUME NEW u \in Uids, SriovGone(u) PROVE SriovGone(u)'
  BY <1>1, <1>4 DEF SriovGone, Persists, SriovFrame
<1> QED BY <1>2, <1>3, <1>4 DEF SriovPersists

\* If new SR-IOV networks are where their UIDs are, the managers stay apart.
LEMMA SriovTracedKept ==
    ASSUME FullInv, Traces(Issued), SriovPersists, SriovFrame,
           \A n \in Names : sriov'[n] # None =>
             sriov'[n] = sriov[n] \/ SriovAt(n, sriov[n])',
           \A k \in Kinds, n \in Names : cNet'[k][n] # None =>
             \/ cNet[k][n] # None /\ cNet'[k][n].uid = cNet[k][n].uid
             \/ net[k][n] # None /\ cNet'[k][n].uid = net[k][n].uid
    PROVE  SriovTraced'
<1>0. SriovTraced /\ ObjectsTraced(Issued) /\ ObjectsTraced(Issued)'
  BY DEF FullInv, CompositeInv, UidInv, Traces
<1>1. ASSUME NEW n \in Names, NEW u, SriovAt(n, u) PROVE SriovAt(n, u)'
  BY <1>1 DEF SriovPersists, SriovAt
<1>2. ASSUME NEW n \in Names, sriov'[n] # None PROVE SriovAt(n, sriov[n])'
  <2>1. CASE sriov'[n] = sriov[n]
    <3>1. PICK u : u = sriov[n]
      OBVIOUS
    <3>2. SriovAt(n, u)'
      BY <1>0, <1>1, <1>2, <2>1, <3>1 DEF SriovTraced
    <3> QED BY <2>1, <3>1, <3>2
  <2> QED BY <1>2, <2>1
<1>3. ASSUME NEW n \in Names, cSriov'[n] # None PROVE SriovAt(n, cSriov[n])'
  <2>1. PICK u : u = cSriov'[n]
    OBVIOUS
  <2>2. SriovAt(n, u)
    BY <1>0, <1>3, <2>1 DEF SriovFrame, SriovTraced
  <2>3. SriovAt(n, u)'
    BY <1>1, <2>2
  <2> QED BY <2>1, <2>3
<1>4. ASSUME NEW k \in Kinds, NEW n \in Names, net'[k][n] # None
      PROVE  NeverSriov(net[k][n].uid)'
  <2>1. PICK u : u = net'[k][n].uid
    OBVIOUS
  <2>2. NetAt(Issued, k, n, u)'
    BY <1>0, <1>4, <2>1 DEF ObjectsTraced
  <2>3. u \in Uids /\ ~Unborn(Issued, u)' /\ u \in NetIds'
    BY <1>4, <2>1, <2>2 DEF NetAt, NetIds
  <2>4. u # None /\ \A m \in Names : ~SriovAt(m, u)'
    BY <2>3, ConstantsAssumption DEF SriovAt, Removed
  <2>5. ASSUME NEW m \in Names PROVE sriov'[m] # u /\ cSriov'[m] # u
    BY <1>2, <1>3, <2>4
  <2>6. NeverSriov(u)'
    BY <2>3, <2>5 DEF NeverSriov
  <2> QED BY <2>1, <2>6
<1>5. ASSUME NEW k \in Kinds, NEW n \in Names, cNet'[k][n] # None
      PROVE  NeverSriov(cNet[k][n].uid)'
  <2>1. PICK u : u = cNet'[k][n].uid
    OBVIOUS
  <2>2. u \in Uids
    <3>1. NetAt(Issued, k, n, u)'
      BY <1>0, <1>5, <2>1 DEF ObjectsTraced
    <3> QED BY <3>1 DEF NetAt
  <2>3. NeverSriov(u)
    BY <1>0, <1>5, <2>1 DEF SriovTraced
  <2>4. NeverSriov(u)'
    BY <2>2, <2>3 DEF SriovPersists
  <2> QED BY <2>1, <2>4
<1> QED BY <1>2, <1>3, <1>4, <1>5 DEF SriovTraced

\* A request that does not move keeps what it has done.
LEMMA PlaceKept ==
    ASSUME SriovPersists, NEW q \in GoodRequest, RequestTraced(Issued, q),
           NEW a, PlaceTraced(q, a)
    PROVE  PlaceTraced(q, a)'
<1>1. q.seen \subseteq Uids /\ (q.op = "terminate" => q.uid \in Uids)
  BY DEF GoodRequest, Request, WellFormed
<1>2. q.fall => q.op = "terminate"
  BY DEF GoodRequest, WellFormed
<1>3. ASSUME a = "delete_nad"
      PROVE  q.name \in Names /\ SriovAt(q.name, q.uid)' /\ q.seen = {q.uid}
  BY <1>3 DEF PlaceTraced, SriovPersists, SriovAt
<1>4. ASSUME q.pc \in DeletingPcs, ~q.fall PROVE NeverSriov(q.found.uid)'
  <2>1. q.found.uid \in Uids
    BY <1>4 DEF RequestTraced, DeletesNetwork, NetAt
  <2> QED BY <1>4, <2>1 DEF PlaceTraced, SriovPersists
<1>5. ASSUME q.pc \in DeletingPcs, q.fall, q.seen # {q.uid}
      PROVE  NeverSriov(q.uid)'
  BY <1>1, <1>2, <1>5 DEF PlaceTraced, SriovPersists
<1>6. ASSUME q.op = "terminate", q.res = "ok"
      PROVE  \A u \in {q.uid} \union q.seen : SriovGone(u)'
  <2>1. q.seen \subseteq Uids /\ q.uid \in Uids
    BY <1>1, <1>6 DEF GoodRequest, Request
  <2> QED BY <1>6, <2>1 DEF PlaceTraced, SriovPersists
<1> QED BY <1>3, <1>4, <1>5, <1>6 DEF PlaceTraced

\* It is enough to look at the handler that moves.
LEMMA OnePlaceTraced ==
    ASSUME FullInv, CompositeTypes', SriovPersists, SriovTraced',
           NEW r \in Requests, NEW p, NEW a, req' = [req EXCEPT ![r] = p],
           at' = [at EXCEPT ![r] = a], PlaceTraced(p, a)'
    PROVE  CompositeInv'
<1>1. ASSUME NEW x \in Requests PROVE PlaceTraced(req[x], at[x])'
  <2>1. PICK q, b, y, c : q = req[x] /\ b = at[x] /\ y = req'[x] /\ c = at'[x]
    OBVIOUS
  <2>2. q \in GoodRequest /\ RequestTraced(Issued, q) /\ PlaceTraced(q, b)
    BY <2>1, RequestsGood DEF UidInv, FullInv, CompositeInv
  <2>3. PlaceTraced(q, b)'
    BY <2>2, PlaceKept
  <2>4. (y = q /\ c = b) \/ (y = p /\ c = a)
    BY <2>1 DEF FullInv, TypeInv, TypeOK, CompositeInv, CompositeTypes
  <2>5. PlaceTraced(y, c)'
    BY <2>3, <2>4
  <2> QED BY <2>1, <2>5
<1> QED BY <1>1 DEF CompositeInv

\* A step of the kube-ovn manager.
LEMMA OvnStepKeeps ==
    ASSUME FullInv, NEW r \in Issued, OvnStep(r)
    PROVE  TypeInv' /\ Traces(Issued) /\ CompositeInv'
<1>0. PICK q : q = req[r]
  OBVIOUS
<1>1. /\ r \in Requests /\ q \in GoodRequest /\ RequestTraced(Issued, q)
      /\ PlaceTraced(q, "ovn") /\ TypeInv /\ UidInv(Issued) /\ SriovTraced
      /\ at \in [Requests -> Places]
  BY <1>0, RequestsGood DEF FullInv, UidInv, Issued, CompositeInv, OvnStep,
     CompositeTypes
<1>2. TypeInv' /\ Traces(Issued)
  BY <1>1, StepTyped, StepTraced DEF OvnStep
<1>3. UNCHANGED <<caches, sriov, cSriov>>
  BY <1>0, <1>1, StepHasShape DEF OvnStep
<1>4. PICK p : req' = [req EXCEPT ![r] = p] /\ StepShape(q, p)
  BY <1>0, <1>1, StepHasShape DEF OvnStep
<1>5. PICK a : /\ at' = [at EXCEPT ![r] = a]
               /\ a = "ovn" \/ (a = "delete_get" /\ ~q.fall /\ p.fall)
  BY <1>0, <1>1, <1>4 DEF OvnStep, TypeInv, TypeOK
<1>6. CompositeTypes'
  BY <1>1, <1>3, <1>5 DEF FullInv, CompositeInv, CompositeTypes, Places
<1>7. SriovFrame
  BY <1>3 DEF SriovFrame
<1>8. SriovPersists
  BY <1>2, <1>7, SriovKnownPersists DEF Traces
<1>9. SriovTraced'
  BY <1>2, <1>3, <1>7, <1>8, SriovTracedKept DEF caches
<1>10. \A u \in Uids : NeverSriov(u) => NeverSriov(u)' /\ SriovGone(u)'
  BY <1>8 DEF SriovPersists, NeverSriov, SriovGone
<1>11. ASSUME NEW u \in Uids, u[2] # 0, ~Unborn(Issued, u)' PROVE SriovGone(u)'
  BY <1>9, <1>11, ConstantsAssumption DEF SriovTraced, SriovAt, SriovGone
<1>12. RequestTraced(Issued, p)'
  <2>1. p = req'[r]
    BY <1>1, <1>4 DEF TypeInv, TypeOK
  <2> QED BY <1>1, <1>2, <2>1 DEF UidInv, Traces
<1>13. PlaceTraced(p, a)'
  <2>1. CASE /\ p.pc \notin DeletingPcs /\ ~p.fall
             /\ ~(p.op = "terminate" /\ p.res = "ok")
    BY <1>5, <2>1 DEF PlaceTraced
  <2>2. ASSUME NEW k \in Kinds, NEW n \in Names, cNet[k][n] # None,
               p.found.uid = cNet[k][n].uid, p.pc = "dn_loop", ~p.fall,
               p.res = "none"
        PROVE  PlaceTraced(p, a)'
    <3>1. PICK u : u = cNet[k][n].uid
      OBVIOUS
    <3>2. u \in Uids /\ NeverSriov(u)
      BY <1>1, <2>2, <3>1 DEF SriovTraced, UidInv, ObjectsTraced, NetAt
    <3>3. NeverSriov(u)'
      BY <1>10, <3>2
    <3> QED BY <1>5, <2>2, <3>1, <3>3 DEF PlaceTraced
  <2>3. CASE /\ q.pc \in DeletingPcs /\ p.pc \in DeletingPcs
             /\ p.fall = q.fall /\ p.uid = q.uid /\ p.seen = q.seen
             /\ p.found = q.found /\ p.res = "none"
    <3>1. PlaceTraced(q, "ovn")'
      BY <1>1, <1>8, PlaceKept
    <3> QED BY <1>5, <2>3, <3>1 DEF PlaceTraced
  <2>4. CASE /\ q.pc \in DsPcs /\ ~q.fall /\ p.fall /\ p.pc = "dn_loop"
             /\ q.op = "terminate" /\ p.uid = q.uid /\ p.res = "none"
             /\ p.seen = q.seen \union {q.uid}
    <3>1. ASSUME p.seen # {p.uid} PROVE NeverSriov(p.uid)'
      <4>1. q.seen # {}
        BY <2>4, <3>1
      <4>2. q.pc \in DeletingPcs
        BY <1>1, <2>4, <4>1 DEF RequestTraced, DsPcs, DeletingPcs
      <4>3. q.found.uid = q.uid /\ q.uid \in Uids
        BY <1>1, <2>4, <4>2 DEF RequestTraced, DeletesNetwork, NetAt
      <4>4. NeverSriov(q.uid)
        BY <1>1, <2>4, <4>2, <4>3 DEF PlaceTraced
      <4> QED BY <1>10, <2>4, <4>3, <4>4
    <3> QED BY <1>5, <2>4, <3>1 DEF PlaceTraced, DeletingPcs
  <2>5. CASE /\ p.pc = "done" /\ ~p.fall /\ p.uid = q.uid /\ p.seen = q.seen
             /\ q.op = "terminate"
             /\ (q.pc = "ds_nad" /\ q.fall) \/ (q.pc = "dn_loop" /\ q.todo = {})
    <3>1. q.uid \in Uids /\ q.seen \subseteq Uids
      BY <1>1, <2>5 DEF GoodRequest, Request, WellFormed
    <3>2. CASE q.pc = "ds_nad" /\ q.fall
      <4>1. q.seen = {q.uid}
        BY <1>1, <3>2 DEF RequestTraced, DeletingPcs, DeletesSubnet
      <4>2. ASSUME p.op = "terminate", p.res = "ok" PROVE SriovGone(q.uid)'
        <5>1. ~Unborn(Issued, q.uid)'
          BY <1>12, <2>5, <4>2 DEF RequestTraced
        <5>2. q.uid[2] # 0
          BY <1>1, <3>2 DEF RequestTraced, DeletingPcs, DeletesSubnet
        <5> QED BY <1>11, <3>1, <5>1, <5>2
      <4> QED BY <1>5, <2>5, <4>1, <4>2 DEF PlaceTraced, DeletingPcs
    <3>3. CASE q.pc = "dn_loop" /\ q.todo = {}
      <4>1. DeletesNetwork(Issued, q) /\ ~q.fall
        BY <1>1, <3>3, NetworkIsLast DEF RequestTraced, DeletingPcs, DeletesSubnet
      <4>2. q.found.uid = q.uid /\ \A u \in q.seen : u[2] # 0 /\ ~Unborn(Issued, u)
        BY <2>5, <4>1 DEF DeletesNetwork
      <4>3. SriovGone(q.uid)'
        BY <1>1, <1>10, <3>1, <3>3, <4>1, <4>2 DEF PlaceTraced, DeletingPcs
      <4>4. \A u \in q.seen : SriovGone(u)'
        BY <1>2, <1>11, <3>1, <4>2 DEF Traces, Persists
      <4> QED BY <1>5, <2>5, <4>3, <4>4 DEF PlaceTraced, DeletingPcs
    <3> QED BY <2>5, <3>2, <3>3
  <2> QED BY <1>4, <2>1, <2>2, <2>3, <2>4, <2>5 DEF StepShape
<1>14. CompositeInv'
  BY <1>1, <1>4, <1>5, <1>6, <1>8, <1>9, <1>13, OnePlaceTraced
<1> QED BY <1>2, <1>14

\* A handler writes nothing but at most an SR-IOV network.
LEMMA HandlerTyped ==
    ASSUME TypeInv, NEW r \in Requests, NEW p \in GoodRequest,
           req' = [req EXCEPT ![r] = p], UNCHANGED <<api, caches, tainted>>,
           faults' \in 0..MaxFaults
    PROVE  TypeInv'
BY UpdateGood DEF TypeInv, TypeOK, api, caches

\* What remains to be shown of a step outside kube-ovn's code.
LEMMA CompositeHandlerStep ==
    ASSUME FullInv, NEW r \in Requests, NEW p \in GoodRequest, NEW a \in Places,
           req' = [req EXCEPT ![r] = p], at' = [at EXCEPT ![r] = a],
           UNCHANGED <<api, caches, tainted>>, faults' \in 0..MaxFaults,
           sriov' \in [Names -> Uids \union {None}], cSriov' = cSriov,
           SriovFrame,
           \A i \in 0..MaxL3 : MayCreate(p, i) => MayCreate(req[r], i)
    PROVE  /\ TypeInv' /\ Persists(Issued) /\ SriovPersists
           /\ RequestTraced(Issued, p)' => Traces(Issued)
           /\ RequestTraced(Issued, p)' /\ PlaceTraced(p, a)'
                /\ (\A n \in Names : sriov'[n] # None =>
                      sriov'[n] = sriov[n] \/ SriovAt(n, sriov[n])')
              => CompositeInv'
<1>1. TypeInv /\ UidInv(Issued)
  BY DEF FullInv
<1>2. TypeInv'
  BY <1>1, HandlerTyped
<1>3. NothingNew
  BY UnchangedIsNothingNew DEF api, caches
<1>4. /\ Persists(Issued) /\ (RequestTraced(Issued, p)' => Traces(Issued))
  BY <1>1, <1>3, PlainStep
<1>5. SriovPersists
  BY <1>4, SriovKnownPersists
<1>6. CompositeTypes'
  BY DEF FullInv, CompositeInv, CompositeTypes
<1>7. ASSUME RequestTraced(Issued, p)', PlaceTraced(p, a)',
             \A n \in Names : sriov'[n] # None =>
               sriov'[n] = sriov[n] \/ SriovAt(n, sriov[n])'
      PROVE  CompositeInv'
  <2>1. SriovTraced'
    BY <1>4, <1>5, <1>7, SriovTracedKept DEF caches
  <2> QED BY <1>5, <1>6, <1>7, <2>1, OnePlaceTraced
<1> QED BY <1>2, <1>4, <1>5, <1>7

\* A request that has not been issued is nowhere in the composite code.
LEMMA IdleInOvn ==
    ASSUME FullInv, NEW r \in Requests, req[r].pc = "idle"
    PROVE  at[r] = "ovn"
BY DEF FullInv, CompositeInv, CompositeTypes, PlaceTraced, Places

\* A request starts with nothing found.
LEMMA FreshPlace ==
    ASSUME NEW p, NEW a, p.pc \notin DeletingPcs,
           ~(p.op = "terminate" /\ p.res = "ok"),
           a \in {"ovn", "create", "get_vpc"},
           a = "create" => p.pc = "create",
           a = "get_vpc" => p.pc = "cs_vpc" /\ p.op = "createSub"
    PROVE  PlaceTraced(p, a)'
BY DEF PlaceTraced

\* Calls that reach kube-ovn's code, and CreateSubnet, which is resolved first.
LEMMA CallOvnKeeps ==
    ASSUME FullInv, NEW r \in Issued, NEW a, Call(r),
           UNCHANGED <<sriov, cSriov>>, at' = [at EXCEPT ![r] = a],
           a = "ovn" \/ (CallCreateSubnet(r) /\ a = "get_vpc"
                           /\ req'[r].pc # "cs_nad")
    PROVE  TypeInv' /\ Traces(Issued) /\ CompositeInv'
<1>1. /\ r \in Requests /\ TypeInv /\ UidInv(Issued)
      /\ req \in [Requests -> Request]
  BY DEF FullInv, Issued, TypeInv, TypeOK
<1>2. TypeInv' /\ Traces(Issued)
  BY <1>1, CallTyped, CallTraced
<1>3. PICK p : p = req'[r]
  OBVIOUS
<1>4. /\ req' = [req EXCEPT ![r] = p] /\ UNCHANGED caches
      /\ p.pc \notin DeletingPcs /\ ~(p.op = "terminate" /\ p.res = "ok")
      /\ a = "get_vpc" => p.pc = "cs_vpc" /\ p.op = "createSub"
  <2>1. req' = [req EXCEPT ![r] = p] /\ UNCHANGED caches
    BY <1>1, <1>3 DEF Call, CallCreateNetwork, CallCreateSubnet, CallTerminate,
       Reject
  <2>2. CallCreateNetwork(r) => p.pc = "create" /\ p.op = "createNet"
    BY <1>1, <1>3 DEF CallCreateNetwork, Idle
  <2>3. ASSUME CallCreateSubnet(r)
        PROVE  p.pc \in {"cs_nad", "cs_vpc"} /\ p.op = "createSub"
    <3>1. PICK s \in SubnetNames, u \in NetIds \union {None},
               n \in Names \union {None} :
            req' = [req EXCEPT ![r] = [Idle EXCEPT
                     !.pc = IF u = None /\ n = None THEN "cs_nad" ELSE "cs_vpc",
                     !.op = "createSub", !.sub = s, !.name = n, !.idx = 1,
                     !.uid = u]]
      BY <2>3 DEF CallCreateSubnet
    <3> QED BY <1>1, <1>3, <3>1 DEF Idle
  <2>4. CallTerminate(r) => p.pc = "dn_vpc" /\ p.res = "none"
    BY <1>1, <1>3 DEF CallTerminate, Idle
  <2>5. Reject(r) => p.pc = "done" /\ p.op = "none"
    BY <1>1, <1>3 DEF Reject, Finish, Idle
  <2>6. p.pc \notin DeletingPcs /\ ~(p.op = "terminate" /\ p.res = "ok")
    BY <2>2, <2>3, <2>4, <2>5 DEF Call, DeletingPcs
  <2>7. a = "get_vpc" => p.pc = "cs_vpc" /\ p.op = "createSub"
    BY <1>3, <2>3
  <2> QED BY <2>1, <2>6, <2>7
<1>5. PlaceTraced(p, a)'
  BY <1>4, FreshPlace
<1>6. SriovFrame
  BY DEF SriovFrame
<1>7. SriovPersists
  BY <1>2, <1>6, SriovKnownPersists DEF Traces
<1>8. SriovTraced'
  BY <1>2, <1>4, <1>6, <1>7, SriovTracedKept DEF caches
<1>9. CompositeTypes'
  BY <1>1 DEF FullInv, CompositeInv, CompositeTypes, Places
<1> QED BY <1>1, <1>2, <1>4, <1>5, <1>7, <1>8, <1>9, OnePlaceTraced

\* Calls that concern SR-IOV networks.
LEMMA CallSriovKeeps ==
    ASSUME FullInv, NEW r \in Issued, NEW p \in GoodRequest, NEW a,
           req[r].pc = "idle", req' = [req EXCEPT ![r] = p],
           at' = [at EXCEPT ![r] = a],
           UNCHANGED <<api, caches, faults, tainted, sriov, cSriov>>,
           \/ a = "create" /\ p.pc = "create" /\ p.op = "createNet"
           \/ a = "get_vpc" /\ p.pc = "cs_vpc" /\ p.op = "createSub" /\ p.idx # 0
           \/ a = "ovn" /\ p.pc = "dn_vpc" /\ p.op = "terminate"
                /\ p.uid \in SriovIds,
           p.seen = {}, ~p.fall, p.res = "none"
    PROVE  TypeInv' /\ Traces(Issued) /\ CompositeInv'
<1>1. /\ r \in Requests /\ TypeInv /\ SriovTraced /\ faults' \in 0..MaxFaults
      /\ sriov \in [Names -> Uids \union {None}]
  BY DEF FullInv, Issued, TypeInv, TypeOK, CompositeInv, CompositeTypes
<1>2. SriovFrame /\ a \in Places
  BY DEF SriovFrame, Places
<1>3. \A i \in 0..MaxL3 : MayCreate(p, i) => MayCreate(req[r], i)
  BY DEF MayCreate
<1>4. /\ TypeInv' /\ Persists(Issued)
      /\ RequestTraced(Issued, p)' => Traces(Issued)
      /\ RequestTraced(Issued, p)' /\ PlaceTraced(p, a)' => CompositeInv'
  BY <1>1, <1>2, <1>3, CompositeHandlerStep
<1>5. p.op = "terminate" => ~Unborn(Issued, p.uid)'
  <2>1. \A u \in SriovIds : u \in Uids /\ ~Unborn(Issued, u)
    BY <1>1, ConstantsAssumption DEF SriovIds, SriovTraced, SriovAt, Removed
  <2> QED BY <1>4, <2>1 DEF Persists
<1>6. RequestTraced(Issued, p)'
  BY <1>5 DEF RequestTraced, DeletingPcs, CsPcs
<1>7. PlaceTraced(p, a)'
  BY FreshPlace DEF DeletingPcs
<1> QED BY <1>4, <1>6, <1>7

\* Every call of the composite manager.
LEMMA CompositeCallKeeps ==
    ASSUME FullInv, NEW r \in Issued, CompositeCall(r)
    PROVE  TypeInv' /\ Traces(Issued) /\ CompositeInv'
<1>1. /\ r \in Requests /\ Idle \in Request /\ at \in [Requests -> Places]
      /\ at[r] = "ovn" => at = [at EXCEPT ![r] = "ovn"]
  BY IdleGood DEF Issued, GoodRequest, FullInv, CompositeInv, CompositeTypes
<1>2. CASE CallOvn(r)
  <2>1. req[r].pc = "idle" /\ Call(r) /\ UNCHANGED <<sriov, cSriov, at>>
    BY <1>2 DEF CallOvn, CallCreateNetwork, CallTerminate, Reject, Call
  <2>2. at' = [at EXCEPT ![r] = "ovn"]
    BY <1>1, <2>1, IdleInOvn
  <2> QED BY <2>1, <2>2, CallOvnKeeps
<1>3. CASE CallCreateSriov(r)
  <2>1. PICK n \in Names :
          req' = [req EXCEPT ![r] = [Idle EXCEPT !.pc = "create",
                                        !.op = "createNet", !.name = n]]
    BY <1>3 DEF CallCreateSriov
  <2> DEFINE p == [Idle EXCEPT !.pc = "create", !.op = "createNet", !.name = n]
  <2>2. p \in Request
    BY <1>1, Zenon DEF Request, Pcs, Ops
  <2>3. WellFormed(p)
    BY <1>1 DEF Request, Idle, WellFormed, CsPcs, DsPcs
  <2>4. /\ p \in GoodRequest /\ p.pc = "create" /\ p.op = "createNet"
        /\ p.seen = {} /\ ~p.fall /\ p.res = "none"
    BY <2>2, <2>3 DEF GoodRequest, Idle
  <2>5. req' = [req EXCEPT ![r] = p]
    BY <2>1
  <2> HIDE DEF p
  <2> QED BY <1>3, <2>4, <2>5, CallSriovKeeps DEF CallCreateSriov
<1>4. CASE /\ CallCreateSubnet(r)
           /\ at' = [at EXCEPT ![r] =
                        IF req'[r].pc = "cs_nad" THEN "ovn" ELSE "get_vpc"]
           /\ UNCHANGED <<sriov, cSriov>>
  <2>1. CASE req'[r].pc = "cs_nad"
    BY <1>4, <2>1, CallOvnKeeps DEF Call
  <2>2. CASE req'[r].pc # "cs_nad"
    BY <1>4, <2>2, CallOvnKeeps DEF Call
  <2> QED BY <2>1, <2>2
<1>5. CASE /\ req[r].pc = "idle"
           /\ \E s \in SubnetNames, u \in SriovIds :
                req' = [req EXCEPT ![r] = [Idle EXCEPT !.pc = "cs_vpc",
                        !.op = "createSub", !.sub = s, !.idx = 1, !.uid = u]]
           /\ at' = [at EXCEPT ![r] = "get_vpc"]
           /\ UNCHANGED <<api, caches, faults, tainted, sriov, cSriov>>
  <2>1. PICK s \in SubnetNames, u \in SriovIds :
          req' = [req EXCEPT ![r] = [Idle EXCEPT !.pc = "cs_vpc",
                        !.op = "createSub", !.sub = s, !.idx = 1, !.uid = u]]
    BY <1>5
  <2> DEFINE p == [Idle EXCEPT !.pc = "cs_vpc", !.op = "createSub", !.sub = s,
                               !.idx = 1, !.uid = u]
  <2>2. u \in Uids /\ 1 \in 0..MaxL3
    BY ConstantsAssumption DEF SriovIds, SubnetNames
  <2>3. p \in Request
    BY <1>1, <2>2, Zenon DEF Request, Pcs, CsPcs, Ops
  <2>4. WellFormed(p)
    BY <1>1 DEF Request, Idle, WellFormed, CsPcs, DsPcs
  <2>5. /\ p \in GoodRequest /\ p.pc = "cs_vpc" /\ p.op = "createSub"
        /\ p.idx # 0 /\ p.seen = {} /\ ~p.fall /\ p.res = "none"
    BY <2>3, <2>4 DEF GoodRequest, Idle
  <2>6. req' = [req EXCEPT ![r] = p]
    BY <2>1
  <2> HIDE DEF p
  <2> QED BY <1>5, <2>5, <2>6, CallSriovKeeps
<1>6. CASE CallTerminateSriov(r)
  <2>1. PICK u \in SriovIds :
          req' = [req EXCEPT ![r] = [Idle EXCEPT
                    !.pc = "dn_vpc", !.op = "terminate", !.uid = u]]
    BY <1>6 DEF CallTerminateSriov
  <2> DEFINE p == [Idle EXCEPT !.pc = "dn_vpc", !.op = "terminate", !.uid = u]
  <2>2. u \in Uids
    BY DEF SriovIds
  <2>3. p \in Request
    BY <1>1, <2>2, Zenon DEF Request, Pcs, DsPcs, Ops
  <2>4. WellFormed(p)
    BY <1>1, <2>2 DEF Request, Idle, WellFormed, CsPcs, DsPcs
  <2>5. /\ p \in GoodRequest /\ p.pc = "dn_vpc" /\ p.op = "terminate"
        /\ p.uid = u /\ p.seen = {} /\ ~p.fall /\ p.res = "none"
    BY <2>3, <2>4 DEF GoodRequest, Idle
  <2>6. req' = [req EXCEPT ![r] = p]
    BY <2>1
  <2>7. at' = [at EXCEPT ![r] = "ovn"]
    BY <1>1, <1>6, IdleInOvn DEF CallTerminateSriov
  <2> HIDE DEF p
  <2> QED BY <1>6, <2>5, <2>6, <2>7, CallSriovKeeps DEF CallTerminateSriov
<1> QED BY <1>2, <1>3, <1>4, <1>5, <1>6 DEF CompositeCall,
           CallCompositeCreateSubnet

\* SR-IOV CreateNetwork gives its network a UID that nothing had before.
LEMMA CreateSriovKeeps ==
    ASSUME FullInv, NEW r \in Issued, CreateSriov(r)
    PROVE  TypeInv' /\ Traces(Issued) /\ CompositeInv'
<1>0. PICK q : q = req[r]
  OBVIOUS
<1>1. /\ r \in Requests /\ TypeInv /\ TypeOK /\ SriovTraced
      /\ ObjectsTraced(Issued) /\ sriov \in [Names -> Uids \union {None}]
      /\ q \in GoodRequest /\ RequestTraced(Issued, q) /\ q.pc = "create"
  BY <1>0, RequestsGood DEF FullInv, Issued, TypeInv, UidInv, CompositeInv,
     CompositeTypes, CreateSriov, PlaceTraced
<1>2. q \in Request /\ q.op = "createNet" /\ q.name \in Names
  BY <1>1 DEF GoodRequest, WellFormed
<1>3. PICK o \in Outcomes(q.cancelled) :
          /\ Charge(o, q.cancelled)
          /\ sriov' = IF sriov[q.name] = None /\ o # "fail"
                      THEN [sriov EXCEPT ![q.name] = NetUid(r)] ELSE sriov
          /\ req' = [req EXCEPT ![r] = Finish(q,
                  IF sriov[q.name] = None /\ o = "ok" THEN "ok" ELSE "err")]
  BY <1>0 DEF CreateSriov
<1>4. PICK res \in Results : req' = [req EXCEPT ![r] = Finish(q, res)]
  BY <1>3 DEF Results
<1>5. PICK p : p = Finish(q, res)
  OBVIOUS
<1>6. p \in GoodRequest /\ p.pc = "done" /\ p.op = "createNet"
  BY <1>1, <1>2, <1>5, FinishGood DEF Finish, Idle
<1>7. faults' \in 0..MaxFaults
  BY <1>1, <1>3, ChargeTyped
<1>8. PICK u : u = NetUid(r)
  OBVIOUS
<1>9. u \in Uids /\ u[1] = r /\ u[2] = 0 /\ Unborn(Issued, u)
  BY <1>0, <1>1, <1>8, ConstantsAssumption DEF Uids, NetUid, Unborn, MayCreate
<1>10. /\ \A n \in Names : sriov'[n] = sriov[n] \/ (n = q.name /\ sriov'[n] = u)
       /\ sriov' \in [Names -> Uids \union {None}]
  BY <1>1, <1>2, <1>3, <1>8, <1>9
<1>11. SriovFrame /\ "ovn" \in Places
  BY <1>9, <1>10 DEF SriovFrame, Places, CreateSriov
<1>12. \A i \in 0..MaxL3 : MayCreate(p, i) => MayCreate(req[r], i)
  BY <1>6 DEF MayCreate
<1>13. UNCHANGED <<api, caches, tainted>> /\ cSriov' = cSriov
         /\ at' = [at EXCEPT ![r] = "ovn"]
  BY DEF CreateSriov
<1>14. /\ TypeInv' /\ Persists(Issued)
       /\ RequestTraced(Issued, p)' => Traces(Issued)
       /\ RequestTraced(Issued, p)' /\ PlaceTraced(p, "ovn")'
            /\ (\A n \in Names : sriov'[n] # None =>
                  sriov'[n] = sriov[n] \/ SriovAt(n, sriov[n])')
          => CompositeInv'
  BY <1>1, <1>4, <1>5, <1>6, <1>7, <1>10, <1>11, <1>12, <1>13,
     CompositeHandlerStep
<1>15. RequestTraced(Issued, p)'
  BY <1>1, <1>2, <1>5, <1>14, FinishTraced
<1>16. PlaceTraced(p, "ovn")'
  BY <1>6, FreshPlace DEF DeletingPcs
<1>17. ASSUME NEW n \in Names, sriov'[n] # sriov[n] PROVE SriovAt(n, sriov[n])'
  <2>1. n = q.name /\ sriov'[n] = u
    BY <1>10, <1>17
  <2>2. ~Unborn(Issued, u)'
    <3>1. req'[r] = p
      BY <1>1, <1>4, <1>5 DEF TypeOK
    <3> QED BY <1>6, <1>9, <3>1 DEF Unborn, MayCreate
  <2>3. u \notin NetIds' /\ u \notin SubnetIds'
    <3>1. UNCHANGED <<net, subnet>>
      BY <1>13 DEF api
    <3>2. u \notin NetIds /\ u \notin SubnetIds
      BY <1>1, <1>9 DEF ObjectsTraced, NetAt, SubnetAt, NetIds, SubnetIds
    <3> QED BY <3>1, <3>2 DEF NetIds, SubnetIds
  <2>4. ASSUME NEW m \in Names, sriov'[m] = u PROVE m = n
    <3>1. sriov[m] # u
      BY <1>1, <1>9, ConstantsAssumption DEF SriovTraced, SriovAt, Removed
    <3> QED BY <1>10, <2>1, <2>4, <3>1
  <2>5. SriovAt(n, u)'
    BY <1>9, <2>2, <2>3, <2>4 DEF SriovAt, Removed
  <2> QED BY <2>1, <2>5
<1> QED BY <1>14, <1>15, <1>16, <1>17

\* CreateSubnet finds its network in kube-ovn, or asks the next manager.
LEMMA ResolveInOvnKeeps ==
    ASSUME FullInv, NEW r \in Issued,
           \/ ResolveInOvn(r, "vpc", "get_vpc", "get_vlan")
           \/ ResolveInOvn(r, "vlan", "get_vlan", "get_sriov")
    PROVE  TypeInv' /\ Traces(Issued) /\ CompositeInv'
<1>0. PICK q : q = req[r]
  OBVIOUS
<1>1. PICK a \in {"ovn", "get_vlan", "get_sriov"} : at' = [at EXCEPT ![r] = a]
  BY DEF ResolveInOvn
<1>2. /\ r \in Requests /\ TypeInv /\ TypeOK /\ UidInv(Issued)
      /\ sriov \in [Names -> Uids \union {None}]
      /\ q \in GoodRequest /\ RequestTraced(Issued, q)
      /\ q.pc = "cs_vpc" /\ q.op = "createSub"
  BY <1>0, RequestsGood DEF FullInv, Issued, TypeInv, UidInv, CompositeInv,
     CompositeTypes, ResolveInOvn, PlaceTraced
<1>3. UNCHANGED <<api, caches, tainted, faults, req, sriov, cSriov>>
  BY DEF ResolveInOvn, vars, api, caches
<1>4. req' = [req EXCEPT ![r] = q]
  BY <1>0, <1>2, <1>3 DEF TypeOK
<1>5. SriovFrame /\ a \in Places /\ faults' \in 0..MaxFaults
  BY <1>2, <1>3 DEF SriovFrame, Places, TypeOK
<1>6. \A i \in 0..MaxL3 : MayCreate(q, i) => MayCreate(req[r], i)
  BY <1>0
<1>7. /\ TypeInv' /\ Persists(Issued)
      /\ RequestTraced(Issued, q)' => Traces(Issued)
      /\ RequestTraced(Issued, q)' /\ PlaceTraced(q, a)' => CompositeInv'
  BY <1>1, <1>2, <1>3, <1>4, <1>5, <1>6, CompositeHandlerStep
<1>8. RequestTraced(Issued, q)'
  BY <1>2, <1>7, UntouchedTraced
<1>9. PlaceTraced(q, a)'
  BY <1>2 DEF PlaceTraced, DeletingPcs
<1> QED BY <1>7, <1>8, <1>9

\* CreateSubnet in an SR-IOV or an unknown network fails.
LEMMA ResolveInSriovKeeps ==
    ASSUME FullInv, NEW r \in Issued, ResolveInSriov(r)
    PROVE  TypeInv' /\ Traces(Issued) /\ CompositeInv'
<1>0. PICK q : q = req[r]
  OBVIOUS
<1>1. /\ r \in Requests /\ TypeInv /\ TypeOK /\ UidInv(Issued)
      /\ sriov \in [Names -> Uids \union {None}]
      /\ q \in GoodRequest /\ RequestTraced(Issued, q)
      /\ q.pc = "cs_vpc" /\ q.op = "createSub"
  BY <1>0, RequestsGood DEF FullInv, Issued, TypeInv, UidInv, CompositeInv,
     CompositeTypes, ResolveInSriov, PlaceTraced
<1>2. PICK res \in Results : req' = [req EXCEPT ![r] = Finish(q, res)]
  BY <1>0 DEF ResolveInSriov, Results
<1>3. PICK p : p = Finish(q, res)
  OBVIOUS
<1>4. p \in GoodRequest /\ p.pc = "done" /\ p.op = "createSub"
  BY <1>1, <1>3, FinishGood DEF Finish, Idle
<1>5. UNCHANGED <<api, caches, tainted, faults, sriov, cSriov>>
        /\ at' = [at EXCEPT ![r] = "ovn"]
  BY DEF ResolveInSriov
<1>6. SriovFrame /\ "ovn" \in Places /\ faults' \in 0..MaxFaults
  BY <1>1, <1>5 DEF SriovFrame, Places, TypeOK
<1>7. \A i \in 0..MaxL3 : MayCreate(p, i) => MayCreate(req[r], i)
  BY <1>4 DEF MayCreate
<1>8. /\ TypeInv' /\ Persists(Issued)
      /\ RequestTraced(Issued, p)' => Traces(Issued)
      /\ RequestTraced(Issued, p)' /\ PlaceTraced(p, "ovn")' => CompositeInv'
  BY <1>1, <1>2, <1>3, <1>4, <1>5, <1>6, <1>7, CompositeHandlerStep
<1>9. RequestTraced(Issued, p)'
  BY <1>1, <1>3, <1>8, FinishTraced
<1>10. PlaceTraced(p, "ovn")'
  BY <1>4, FreshPlace DEF DeletingPcs
<1> QED BY <1>8, <1>9, <1>10

\* DeleteNetwork looks its id up among the SR-IOV networks.
LEMMA DeleteSriovGetKeeps ==
    ASSUME FullInv, NEW r \in Issued, DeleteSriovGet(r)
    PROVE  TypeInv' /\ Traces(Issued) /\ CompositeInv'
<1>0. PICK q : q = req[r]
  OBVIOUS
<1>1. /\ r \in Requests /\ TypeInv /\ TypeOK /\ UidInv(Issued) /\ SriovTraced
      /\ sriov \in [Names -> Uids \union {None}]
      /\ q \in GoodRequest /\ RequestTraced(Issued, q)
      /\ PlaceTraced(q, "delete_get") /\ q.pc = "dn_loop" /\ q.fall
  BY <1>0, RequestsGood DEF FullInv, Issued, TypeInv, UidInv, CompositeInv,
     CompositeTypes, DeleteSriovGet, PlaceTraced
<1>2. /\ q \in Request /\ q.op = "terminate"
  BY <1>1 DEF GoodRequest, WellFormed
<1>3. /\ UNCHANGED <<api, caches, faults, tainted, sriov, cSriov>>
      /\ SriovFrame /\ faults' \in 0..MaxFaults
  BY <1>1 DEF DeleteSriovGet, SriovFrame, TypeOK
<1>4. ASSUME NEW n \in Names, SriovSelected(q, n),
             req' = [req EXCEPT ![r].name = n],
             at' = [at EXCEPT ![r] = "delete_nad"]
      PROVE  TypeInv' /\ Traces(Issued) /\ CompositeInv'
  <2>1. PICK p : p = [q EXCEPT !.name = n]
    OBVIOUS
  <2>2. /\ p.pc = q.pc /\ p.op = q.op /\ p.idx = q.idx /\ p.fall = q.fall
        /\ p.uid = q.uid /\ p.sub = q.sub /\ p.found = q.found
        /\ p.todo = q.todo /\ p.seen = q.seen /\ p.res = q.res
        /\ p.name = n /\ p.cancelled = q.cancelled
    BY <1>2, <2>1 DEF Request
  <2>3. p \in GoodRequest
    <3>1. p \in Request
      BY <1>2, <2>1, Zenon DEF Request
    <3> QED BY <1>1, <2>2, <3>1 DEF GoodRequest, WellFormed
  <2>4. \A i \in 0..MaxL3 : MayCreate(p, i) => MayCreate(req[r], i)
    BY <1>0, <2>2 DEF MayCreate
  <2>5. req' = [req EXCEPT ![r] = p] /\ "delete_nad" \in Places
    BY <1>0, <1>4, <2>1 DEF Places
  <2>6. /\ TypeInv' /\ Persists(Issued) /\ SriovPersists
        /\ RequestTraced(Issued, p)' => Traces(Issued)
        /\ RequestTraced(Issued, p)' /\ PlaceTraced(p, "delete_nad")'
           => CompositeInv'
    BY <1>1, <1>3, <1>4, <2>3, <2>4, <2>5, CompositeHandlerStep
  <2>7. RequestTraced(Issued, q)'
    BY <1>1, <2>6, UntouchedTraced
  <2>8. RequestTraced(Issued, p)'
    BY <2>2, <2>7 DEF RequestTraced, DeletesNetwork, DeletesSubnet
  <2>9. cSriov[n] # None /\ cSriov[n] = q.uid /\ SriovAt(n, q.uid)
    BY <1>1, <1>4 DEF SriovSelected, SriovTraced
  <2>10. SriovAt(n, q.uid)' /\ q.seen = {q.uid}
    BY <1>1, <2>6, <2>9 DEF SriovPersists, SriovAt, PlaceTraced, NeverSriov,
       DeletingPcs
  <2>11. q.res = "none"
    BY <1>1 DEF RequestTraced
  <2>12. PlaceTraced(p, "delete_nad")'
    BY <1>1, <2>2, <2>10, <2>11 DEF PlaceTraced
  <2> QED BY <2>6, <2>8, <2>12
<1>5. ASSUME req' = req, at' = [at EXCEPT ![r] = "ovn"]
      PROVE  TypeInv' /\ Traces(Issued) /\ CompositeInv'
  <2>1. req' = [req EXCEPT ![r] = q] /\ "ovn" \in Places
    BY <1>0, <1>1, <1>5 DEF TypeOK, Places
  <2>2. \A i \in 0..MaxL3 : MayCreate(q, i) => MayCreate(req[r], i)
    BY <1>0
  <2>3. /\ TypeInv' /\ Persists(Issued) /\ SriovPersists
        /\ RequestTraced(Issued, q)' => Traces(Issued)
        /\ RequestTraced(Issued, q)' /\ PlaceTraced(q, "ovn")' => CompositeInv'
    BY <1>1, <1>3, <1>5, <2>1, <2>2, CompositeHandlerStep
  <2>4. RequestTraced(Issued, q)'
    BY <1>1, <2>3, UntouchedTraced
  <2>5. PlaceTraced(q, "ovn")
    BY <1>1 DEF PlaceTraced
  <2>6. PlaceTraced(q, "ovn")'
    BY <1>1, <2>3, <2>5, PlaceKept
  <2> QED BY <2>3, <2>4, <2>6
<1> QED BY <1>0, <1>4, <1>5 DEF DeleteSriovGet

\* DeleteNetwork deletes the NAD under the name it looked up.
LEMMA DeleteSriovNadKeeps ==
    ASSUME FullInv, NEW r \in Issued, DeleteSriovNad(r)
    PROVE  TypeInv' /\ Traces(Issued) /\ CompositeInv'
<1>0. PICK q : q = req[r]
  OBVIOUS
<1>1. /\ r \in Requests /\ TypeInv /\ TypeOK /\ UidInv(Issued)
      /\ sriov \in [Names -> Uids \union {None}]
      /\ q \in GoodRequest /\ RequestTraced(Issued, q)
      /\ PlaceTraced(q, "delete_nad") /\ q.pc = "dn_loop" /\ q.fall
      /\ q.name \in Names /\ SriovAt(q.name, q.uid) /\ q.seen = {q.uid}
  BY <1>0, RequestsGood DEF FullInv, Issued, TypeInv, UidInv, CompositeInv,
     CompositeTypes, DeleteSriovNad, PlaceTraced
<1>2. q \in Request /\ q.op = "terminate" /\ q.uid \in Uids
  BY <1>1 DEF GoodRequest, WellFormed
<1>3. PICK o \in Outcomes(q.cancelled) :
          /\ Charge(o, q.cancelled)
          /\ sriov' = IF o = "fail" THEN sriov ELSE [sriov EXCEPT ![q.name] = None]
          /\ req' = [req EXCEPT ![r] = SriovDeleted(q, o, sriov[q.name] # None)]
  BY <1>0 DEF DeleteSriovNad
<1>4. /\ UNCHANGED <<api, caches, tainted>> /\ cSriov' = cSriov
      /\ at' = [at EXCEPT ![r] = "ovn"] /\ "ovn" \in Places
      /\ faults' \in 0..MaxFaults
  BY <1>1, <1>3, ChargeTyped DEF DeleteSriovNad, Places
<1>5. /\ sriov' \in [Names -> Uids \union {None}]
      /\ \A n \in Names : sriov'[n] # None => sriov'[n] = sriov[n]
  BY <1>1, <1>3
<1>6. SriovFrame
  BY <1>4, <1>5 DEF SriovFrame
<1>7. PICK p : p = SriovDeleted(q, o, sriov[q.name] # None)
  OBVIOUS
<1>8. \/ p = q
      \/ p = Finish(q, "err")
      \/ p = Finish(q, "ok") /\ sriov'[q.name] = None
  BY <1>1, <1>3, <1>7 DEF SriovDeleted, Deleted
<1>9. p \in GoodRequest
  BY <1>1, <1>8, FinishGood DEF Results
<1>10. \A i \in 0..MaxL3 : MayCreate(p, i) => MayCreate(req[r], i)
  BY <1>0, <1>2, <1>8, ReturnsCreateNothing
<1>11. /\ TypeInv' /\ Persists(Issued) /\ SriovPersists
       /\ RequestTraced(Issued, p)' => Traces(Issued)
       /\ RequestTraced(Issued, p)' /\ PlaceTraced(p, "ovn")' => CompositeInv'
  BY <1>1, <1>3, <1>4, <1>5, <1>6, <1>7, <1>9, <1>10, CompositeHandlerStep
<1>12. Removed(Issued, q.uid)' /\ SriovAt(q.name, q.uid)'
  BY <1>1, <1>2, <1>11 DEF SriovPersists, SriovAt
<1>13. CASE p = q
  <2>1. RequestTraced(Issued, p)'
    BY <1>1, <1>11, <1>13, UntouchedTraced
  <2>2. PlaceTraced(q, "ovn")
    BY <1>1 DEF PlaceTraced
  <2>3. PlaceTraced(p, "ovn")'
    BY <1>1, <1>11, <1>13, <2>2, PlaceKept
  <2> QED BY <1>11, <2>1, <2>3
<1>14. CASE p = Finish(q, "err")
  <2>1. p.pc = "done" /\ p.res = "err"
    BY <1>14 DEF Finish, Idle
  <2>2. PlaceTraced(p, "ovn")'
    BY <2>1, FreshPlace DEF DeletingPcs
  <2>3. RequestTraced(Issued, p)'
    BY <1>1, <1>11, <1>14, FinishTraced DEF Results
  <2> QED BY <1>11, <2>2, <2>3
<1>15. CASE p = Finish(q, "ok") /\ sriov'[q.name] = None
  <2>1. p.pc = "done" /\ p.uid = q.uid /\ p.seen = {q.uid}
    BY <1>1, <1>2, <1>15 DEF Finish, Idle
  <2>2. SriovGone(q.uid)'
    BY <1>2, <1>12, <1>15, ConstantsAssumption DEF SriovAt, SriovGone, Removed
  <2>3. PlaceTraced(p, "ovn")'
    BY <2>1, <2>2 DEF PlaceTraced, DeletingPcs
  <2>4. RequestTraced(Issued, p)'
    BY <1>1, <1>11, <1>12, <1>15, FinishTraced DEF Results
  <2> QED BY <1>11, <2>3, <2>4
<1> QED BY <1>8, <1>13, <1>14, <1>15

\* The environment moves, and no handler does.
LEMMA NoHandlerMoves ==
    ASSUME FullInv, Traces(Issued), CompositeTypes', SriovFrame,
           sriov' = sriov, req' = req, at' = at,
           \A k \in Kinds, n \in Names : cNet'[k][n] # None =>
             \/ cNet[k][n] # None /\ cNet'[k][n].uid = cNet[k][n].uid
             \/ net[k][n] # None /\ cNet'[k][n].uid = net[k][n].uid
    PROVE  CompositeInv'
<1>1. SriovPersists
  BY SriovKnownPersists DEF Traces
<1>2. SriovTraced'
  BY <1>1, SriovTracedKept
<1>3. ASSUME NEW x \in Requests PROVE PlaceTraced(req[x], at[x])'
  <2>1. PICK q, a : q = req[x] /\ a = at[x]
    OBVIOUS
  <2>2. q \in GoodRequest /\ RequestTraced(Issued, q) /\ PlaceTraced(q, a)
    BY <2>1, RequestsGood DEF FullInv, UidInv, CompositeInv
  <2>3. PlaceTraced(q, a)'
    BY <1>1, <2>2, PlaceKept
  <2> QED BY <2>1, <2>3
<1> QED BY <1>2, <1>3 DEF CompositeInv

\* Watches and the kube-ovn controller.
LEMMA CompositeSyncKeeps ==
    ASSUME FullInv, Sync, UNCHANGED <<sriov, cSriov, at>>
    PROVE  TypeInv' /\ Traces(Issued) /\ CompositeInv'
<1>1. TypeInv' /\ Traces(Issued)
  BY EnvironmentTyped, SyncTraced DEF FullInv
<1>2. req' = req /\ SriovFrame /\ CompositeTypes'
  BY DEF Sync, WatchNetworks, WatchSubnets, Reconcile, SriovFrame,
     CompositeTypes, FullInv, CompositeInv
<1>3. ASSUME NEW k \in Kinds, NEW n \in Names
      PROVE  cNet'[k][n] = cNet[k][n] \/ cNet'[k][n] = net[k][n]
  BY DEF Sync, WatchNetworks, WatchSubnets, Reconcile, caches, FullInv,
     TypeInv, TypeOK
<1> QED BY <1>1, <1>2, <1>3, NoHandlerMoves

\* The watch on SR-IOV networks.
LEMMA WatchSriovKeeps ==
    ASSUME FullInv, WatchSriov
    PROVE  TypeInv' /\ Traces(Issued) /\ CompositeInv'
<1>1. UNCHANGED vars /\ cSriov' = sriov /\ UNCHANGED <<sriov, at>>
  BY DEF WatchSriov
<1>2. TypeInv' /\ Traces(Issued)
  BY <1>1, NoRequestMoves, UnchangedIsNothingNew
     DEF FullInv, vars, TypeInv, TypeOK, CallTree
<1>3. SriovFrame /\ CompositeTypes'
  BY <1>1 DEF SriovFrame, CompositeTypes, FullInv, CompositeInv
<1> QED BY <1>1, <1>2, <1>3, NoHandlerMoves DEF vars

\* A stuttering step.
LEMMA CompositeStutterKeeps ==
    ASSUME FullInv, UNCHANGED compositeVars
    PROVE  TypeInv' /\ Traces(Issued) /\ CompositeInv'
<1>1. UNCHANGED vars /\ UNCHANGED <<sriov, cSriov, at>>
  BY DEF compositeVars
<1>2. TypeInv' /\ Traces(Issued)
  BY <1>1, NoRequestMoves, UnchangedIsNothingNew
     DEF FullInv, vars, TypeInv, TypeOK, CallTree
<1>3. SriovFrame /\ CompositeTypes'
  BY <1>1 DEF SriovFrame, CompositeTypes, FullInv, CompositeInv
<1> QED BY <1>1, <1>2, <1>3, NoHandlerMoves DEF vars

\* A cancellation, wherever the handler is.
LEMMA CompositeCancelKeeps ==
    ASSUME FullInv, NEW r \in Requests, Cancel(r), UNCHANGED <<sriov, cSriov, at>>
    PROVE  TypeInv' /\ Traces(Issued) /\ CompositeInv'
<1>0. PICK q, a : q = req[r] /\ a = at[r]
  OBVIOUS
<1>1. TypeInv' /\ Traces(Issued)
  BY EnvironmentTyped, CancelTraced DEF FullInv
<1>2. /\ q \in GoodRequest /\ q \in Request /\ RequestTraced(Issued, q)
      /\ PlaceTraced(q, a) /\ at \in [Requests -> Places]
  BY <1>0, RequestsGood DEF FullInv, UidInv, GoodRequest, CompositeInv,
     CompositeTypes
<1>3. SriovFrame /\ CompositeTypes' /\ UNCHANGED caches
  BY DEF SriovFrame, CompositeTypes, FullInv, CompositeInv, Cancel
<1>4. SriovPersists
  BY <1>1, <1>3, SriovKnownPersists DEF Traces
<1>5. SriovTraced'
  BY <1>1, <1>3, <1>4, SriovTracedKept DEF caches
<1>6. PICK p : p = [q EXCEPT !.cancelled = TRUE]
  OBVIOUS
<1>7. req' = [req EXCEPT ![r] = p] /\ at' = [at EXCEPT ![r] = a]
  BY <1>0, <1>2, <1>6 DEF Cancel
<1>8. /\ p.pc = q.pc /\ p.op = q.op /\ p.fall = q.fall /\ p.uid = q.uid
      /\ p.found = q.found /\ p.seen = q.seen /\ p.res = q.res
      /\ p.name = q.name
  BY <1>2, <1>6 DEF Request
<1>9. PlaceTraced(q, a)'
  BY <1>2, <1>4, PlaceKept
<1>10. PlaceTraced(p, a)'
  BY <1>8, <1>9 DEF PlaceTraced
<1> QED BY <1>1, <1>3, <1>4, <1>5, <1>7, <1>10, OnePlaceTraced

\* A crash: every handler has returned, and both caches are listed afresh.
LEMMA CompositeCrashKeeps ==
    ASSUME FullInv, CompositeCrash
    PROVE  TypeInv' /\ Traces(Issued) /\ CompositeInv'
<1>1. TypeInv' /\ Traces(Issued)
  BY EnvironmentTyped, CrashTraced DEF FullInv, CompositeCrash
<1>2. SriovFrame /\ CompositeTypes'
  BY DEF SriovFrame, CompositeTypes, FullInv, CompositeInv, CompositeCrash,
     Places
<1>3. SriovPersists
  BY <1>1, <1>2, SriovKnownPersists DEF Traces
<1>4. SriovTraced'
  BY <1>1, <1>2, <1>3, SriovTracedKept DEF CompositeCrash, Crash
<1>5. ASSUME NEW x \in Requests PROVE PlaceTraced(req[x], at[x])'
  <2>1. PICK q, a, y : q = req[x] /\ a = at[x] /\ y = req'[x]
    OBVIOUS
  <2>2. q \in GoodRequest /\ RequestTraced(Issued, q) /\ PlaceTraced(q, a)
    BY <2>1, RequestsGood DEF FullInv, UidInv, CompositeInv
  <2>3. PlaceTraced(q, "ovn")
    BY <2>2 DEF PlaceTraced
  <2>4. PlaceTraced(q, "ovn")'
    BY <1>3, <2>2, <2>3, PlaceKept
  <2>5. (y = q \/ y = Finish(q, "lost")) /\ at'[x] = "ovn"
    BY <2>1 DEF CompositeCrash, Crash
  <2>6. CASE y = q
    BY <2>1, <2>4, <2>5, <2>6
  <2>7. CASE y = Finish(q, "lost")
    <3>1. y.pc = "done" /\ y.res = "lost"
      BY <2>7 DEF Finish, Idle
    <3>2. PlaceTraced(y, "ovn")'
      BY <3>1, FreshPlace DEF DeletingPcs
    <3> QED BY <2>1, <2>5, <3>2
  <2> QED BY <2>5, <2>6, <2>7
<1> QED BY <1>1, <1>2, <1>4, <1>5 DEF CompositeInv

\* Only earlier requests can have left SR-IOV networks.
LEMMA CompositeInitTraced ==
    ASSUME CompositeInit
    PROVE  FullInv
<1>1. TypeInv /\ UidInv(Issued)
  BY InitTyped, InitTraced DEF CompositeInit
<1>2. \A r \in Earlier : NetUid(r) \in Uids /\ NetUid(r)[1] = r /\ NetUid(r)[2] = 0
  BY EarlierAssumption, ConstantsAssumption DEF NetUid, Uids
<1>3. CompositeTypes
  BY <1>2 DEF CompositeInit, CompositeTypes, Places
<1>4. ASSUME NEW n \in Names, sriov[n] # None PROVE SriovAt(n, sriov[n])
  <2>1. PICK r \in Earlier : sriov[n] = NetUid(r)
    BY <1>4 DEF CompositeInit
  <2>2. ~Unborn(Issued, sriov[n])
    BY <1>2, <2>1 DEF Unborn, Issued
  <2>3. sriov[n] \notin NetIds \union SubnetIds
    BY DEF CompositeInit, Init, NetIds, SubnetIds
  <2>4. \A m \in Names : sriov[m] = sriov[n] => m = n
    BY <1>4 DEF CompositeInit
  <2> QED BY <1>2, <2>1, <2>2, <2>3, <2>4 DEF SriovAt, Removed
<1>5. SriovTraced
  BY <1>4 DEF SriovTraced, CompositeInit, Init
<1>6. PlaceTraced(Idle, "ovn")
  BY DEF PlaceTraced, Idle, DeletingPcs
<1>7. \A r \in Requests : req[r] = Idle /\ at[r] = "ovn"
  BY DEF CompositeInit, Init
<1> QED BY <1>1, <1>3, <1>5, <1>6, <1>7 DEF FullInv, CompositeInv

\* Every step of a handler.
LEMMA CompositeStepKeeps ==
    ASSUME FullInv, NEW r \in Issued, CompositeStep(r)
    PROVE  TypeInv' /\ Traces(Issued) /\ CompositeInv'
BY OvnStepKeeps, CreateSriovKeeps, ResolveInOvnKeeps, ResolveInSriovKeeps,
   DeleteSriovGetKeeps, DeleteSriovNadKeeps DEF CompositeStep

\* UIDs are traced across both managers in every reachable state.
LEMMA CompositeInvariant == CompositeSpec => []FullInv
<1>1. CompositeInit => FullInv
  BY CompositeInitTraced
<1>2. FullInv /\ [CompositeNext]_compositeVars => FullInv'
  <2> SUFFICES ASSUME FullInv, [CompositeNext]_compositeVars
               PROVE  TypeInv' /\ Traces(Issued) /\ CompositeInv'
    BY DEF FullInv, Traces
  <2>1. ASSUME NEW r \in Issued, CompositeCall(r) \/ CompositeStep(r)
        PROVE  TypeInv' /\ Traces(Issued) /\ CompositeInv'
    BY <2>1, CompositeCallKeeps, CompositeStepKeeps
  <2>2. CASE Sync /\ UNCHANGED <<sriov, cSriov, at>>
    BY <2>2, CompositeSyncKeeps
  <2>3. ASSUME NEW r \in Requests, Cancel(r), UNCHANGED <<sriov, cSriov, at>>
        PROVE  TypeInv' /\ Traces(Issued) /\ CompositeInv'
    BY <2>3, CompositeCancelKeeps
  <2>4. CASE WatchSriov
    BY <2>4, WatchSriovKeeps
  <2>5. CASE CompositeCrash
    BY <2>5, CompositeCrashKeeps
  <2>6. CASE UNCHANGED compositeVars
    BY <2>6, CompositeStutterKeeps
  <2> QED BY <2>1, <2>2, <2>3, <2>4, <2>5, <2>6 DEF CompositeNext, Issued
<1> QED BY <1>1, <1>2, PTL DEF CompositeSpec

(* The composite manager keeps the types and the call tree of the managers *)
(* behind it, although it moves their requests from one to the other.      *)
THEOREM CompositeTypeCorrect == CompositeSpec => [](CompositeTypeOK /\ CallTree)
<1>1. FullInv => CompositeTypeOK /\ CallTree
  BY DEF FullInv, TypeInv, CompositeInv, CompositeTypes, CompositeTypeOK
<1> QED BY <1>1, CompositeInvariant, PTL

(* A termination that reports success has removed what it was asked for,   *)
(* whichever manager owned the id, and every subnet it had set out for.    *)
THEOREM TerminationLeavesNothingAnywhere == CompositeSpec => []TerminatedEverywhere
<1>1. FullInv => TerminatedEverywhere
  <2> SUFFICES ASSUME FullInv, NEW r \in Requests,
                      req[r].op = "terminate", req[r].res = "ok",
                      NEW u \in {req[r].uid} \union req[r].seen
               PROVE  u \notin NetIds \union SubnetIds \union SriovIds
    BY DEF TerminatedEverywhere
  <2>1. Removed(Issued, u) /\ SriovGone(u)
    BY DEF FullInv, UidInv, RequestTraced, CompositeInv, PlaceTraced
  <2> QED BY <2>1 DEF Removed, SriovGone, SriovIds
<1> QED BY <1>1, CompositeInvariant, PTL

-----------------------------------------------------------------------------
(* Who removes an SR-IOV network *)

(* One handler moves, one that has not returned.  It finds an SR-IOV       *)
(* network only in the cache, and when it removes one it returns.          *)
OneMoves(r) ==
    /\ req' = [req EXCEPT ![r] = req'[r]]
    /\ at' = [at EXCEPT ![r] = at'[r]]
    /\ req[r].pc # "done" /\ cSriov' = cSriov
    /\ at'[r] = "delete_nad" =>
         \E n \in Names : cSriov[n] # None /\ cSriov[n] = req'[r].uid
    /\ \A n \in Names : sriov[n] # None /\ sriov'[n] # sriov[n] =>
         /\ at[r] = "delete_nad" /\ n = req[r].name
         /\ req[r].op = "terminate"
         /\ req'[r].op = "terminate" /\ req'[r].pc = "done"

\* A call moves one handler.
LEMMA CallMovesOne ==
    ASSUME FullInv, NEW r \in Issued, CompositeCall(r)
    PROVE  OneMoves(r)
<1>1. /\ r \in Requests /\ req \in [Requests -> Request]
      /\ at \in [Requests -> Places]
  BY DEF FullInv, TypeInv, TypeOK, CompositeInv, CompositeTypes, Issued
<1>2. req[r].pc = "idle" /\ UNCHANGED <<sriov, cSriov>>
  BY DEF CompositeCall, CallOvn, CallCreateSriov, CallCompositeCreateSubnet,
     CallTerminateSriov, CallCreateNetwork, CallCreateSubnet, CallTerminate,
     Reject
<1>3. req' = [req EXCEPT ![r] = req'[r]]
  BY <1>1 DEF CompositeCall, CallOvn, CallCreateSriov,
     CallCompositeCreateSubnet, CallTerminateSriov, CallCreateNetwork,
     CallCreateSubnet, CallTerminate, Reject
<1>4. at[r] = "ovn"
  BY <1>1, <1>2, IdleInOvn
<1>5. at' = [at EXCEPT ![r] = at'[r]] /\ at'[r] # "delete_nad"
  BY <1>1, <1>4 DEF CompositeCall, CallOvn, CallCreateSriov,
     CallCompositeCreateSubnet, CallTerminateSriov
<1> QED BY <1>2, <1>3, <1>5 DEF OneMoves

\* A step of a handler moves only that one.
LEMMA StepMovesOne ==
    ASSUME FullInv, NEW r \in Issued, CompositeStep(r)
    PROVE  OneMoves(r)
<1>0. PICK q : q = req[r]
  OBVIOUS
<1>1. /\ r \in Requests /\ req \in [Requests -> Request]
      /\ at \in [Requests -> Places] /\ TypeInv /\ UidInv(Issued)
      /\ PlaceTraced(q, at[r]) /\ q \in GoodRequest
      /\ sriov \in [Names -> Uids \union {None}]
  BY <1>0, RequestsGood DEF FullInv, TypeInv, TypeOK, CompositeInv,
     CompositeTypes, Issued
<1>2. CASE OvnStep(r)
  <2>1. \E p : req' = [req EXCEPT ![r] = p]
    BY <1>0, <1>1, <1>2, StepHasShape DEF OvnStep
  <2>2. req' = [req EXCEPT ![r] = req'[r]]
    BY <1>1, <2>1
  <2>3. req[r].pc # "done"
    BY <1>2 DEF OvnStep, Step, CreateNetworkObject, CreateSubnetGetOverlay,
       CreateSubnetGetUnderlay, CreateNetAttach, CreateSubnetObject,
       CleanupNetAttach, DeleteNetworkGetOverlay, DeleteNetworkGetUnderlay,
       DeleteSubnetGet, DeleteSubnetObject, DeleteNetAttach,
       DeleteNetworkObject
  <2>4. /\ at' = [at EXCEPT ![r] = at'[r]] /\ at'[r] # "delete_nad"
        /\ UNCHANGED <<sriov, cSriov>>
    BY <1>1, <1>2 DEF OvnStep
  <2> QED BY <2>2, <2>3, <2>4 DEF OneMoves
<1>3. CASE CreateSriov(r)
  <2>1. q.pc = "create"
    BY <1>1, <1>3 DEF CreateSriov, PlaceTraced
  <2>2. q.name \in Names
    BY <1>1, <2>1 DEF GoodRequest, WellFormed
  <2>3. \A n \in Names : sriov[n] # None => sriov'[n] = sriov[n]
    BY <1>0, <1>1, <1>3, <2>2 DEF CreateSriov
  <2>4. /\ req' = [req EXCEPT ![r] = req'[r]] /\ cSriov' = cSriov
        /\ at' = [at EXCEPT ![r] = at'[r]] /\ at'[r] # "delete_nad"
    BY <1>1, <1>3 DEF CreateSriov
  <2> QED BY <1>0, <2>1, <2>3, <2>4 DEF OneMoves
<1>4. CASE \/ ResolveInOvn(r, "vpc", "get_vpc", "get_vlan")
           \/ ResolveInOvn(r, "vlan", "get_vlan", "get_sriov")
  <2>1. q.pc = "cs_vpc"
    BY <1>1, <1>4 DEF ResolveInOvn, PlaceTraced
  <2>2. /\ req' = [req EXCEPT ![r] = req'[r]] /\ UNCHANGED <<sriov, cSriov>>
        /\ at' = [at EXCEPT ![r] = at'[r]] /\ at'[r] # "delete_nad"
    BY <1>1, <1>4 DEF ResolveInOvn, vars
  <2> QED BY <1>0, <2>1, <2>2 DEF OneMoves
<1>5. CASE ResolveInSriov(r)
  <2>1. q.pc = "cs_vpc"
    BY <1>1, <1>5 DEF ResolveInSriov, PlaceTraced
  <2>2. /\ req' = [req EXCEPT ![r] = req'[r]] /\ UNCHANGED <<sriov, cSriov>>
        /\ at' = [at EXCEPT ![r] = at'[r]] /\ at'[r] # "delete_nad"
    BY <1>1, <1>5 DEF ResolveInSriov
  <2> QED BY <1>0, <2>1, <2>2 DEF OneMoves
<1>6. CASE DeleteSriovGet(r)
  <2>1. q.pc = "dn_loop"
    BY <1>1, <1>6 DEF DeleteSriovGet, PlaceTraced
  <2>2. /\ req' = [req EXCEPT ![r] = req'[r]] /\ UNCHANGED <<sriov, cSriov>>
        /\ at' = [at EXCEPT ![r] = at'[r]] /\ req'[r].uid = q.uid
    BY <1>0, <1>1, <1>6 DEF DeleteSriovGet, Request
  <2>3. at'[r] = "delete_nad" =>
          \E n \in Names : cSriov[n] # None /\ cSriov[n] = q.uid
    BY <1>0, <1>1, <1>6 DEF DeleteSriovGet, SriovSelected
  <2> QED BY <1>0, <2>1, <2>2, <2>3 DEF OneMoves
<1>7. CASE DeleteSriovNad(r)
  <2>1. at[r] = "delete_nad" /\ q.pc = "dn_loop" /\ q.fall
    BY <1>1, <1>7 DEF DeleteSriovNad, PlaceTraced
  <2>2. q.op = "terminate" /\ q.name \in Names
    BY <1>1, <2>1 DEF GoodRequest, WellFormed, PlaceTraced
  <2>3. /\ req' = [req EXCEPT ![r] = req'[r]] /\ cSriov' = cSriov
        /\ at' = [at EXCEPT ![r] = at'[r]] /\ at'[r] # "delete_nad"
    BY <1>1, <1>7 DEF DeleteSriovNad
  <2>4. PICK o :
          /\ sriov' = IF o = "fail" THEN sriov ELSE [sriov EXCEPT ![q.name] = None]
          /\ req' = [req EXCEPT ![r] = SriovDeleted(q, o, sriov[q.name] # None)]
    BY <1>0, <1>7 DEF DeleteSriovNad
  <2>5. ASSUME NEW n \in Names, sriov[n] # None, sriov'[n] # sriov[n]
        PROVE  n = q.name /\ req'[r].op = "terminate" /\ req'[r].pc = "done"
    <3>1. n = q.name
      BY <1>1, <2>2, <2>4, <2>5
    <3>2. \E res : req'[r] = Finish(q, res)
      BY <1>1, <2>4, <2>5, <3>1 DEF SriovDeleted, Deleted
    <3> QED BY <2>2, <3>1, <3>2 DEF Finish, Idle
  <2> QED BY <1>0, <2>1, <2>2, <2>3, <2>5 DEF OneMoves
<1> QED BY <1>2, <1>3, <1>4, <1>5, <1>6, <1>7 DEF CompositeStep

\* Networks that are known exist or have been removed by a termination.
LEMMA KnownSriovKept ==
    ASSUME FullInv, KnownSriov, [CompositeNext]_compositeVars
    PROVE  KnownSriov'
<1>1. /\ req \in [Requests -> Request] /\ at \in [Requests -> Places]
      /\ sriov \in [Names -> Uids \union {None}]
  BY DEF FullInv, TypeInv, TypeOK, CompositeInv, CompositeTypes
<1>2. ASSUME NEW r \in Issued, OneMoves(r) PROVE KnownSriov'
  <2>1. r \in Requests
    BY DEF Issued
  <2>2. ASSUME SomeTerminated PROVE SomeTerminated'
    BY <1>1, <1>2, <2>1, <2>2 DEF SomeTerminated, OneMoves
  <2>3. ASSUME NEW n \in Names, sriov[n] # None
        PROVE  sriov'[n] = sriov[n] \/ SomeTerminated'
    BY <1>2, <2>1, <2>3 DEF OneMoves, SomeTerminated
  <2>4. ASSUME NEW u, u \in SriovIds \/ SomeTerminated
        PROVE  u \in SriovIds' \/ SomeTerminated'
    BY <2>2, <2>3, <2>4, ConstantsAssumption DEF SriovIds
  <2>5. ASSUME NEW n \in Names, cSriov'[n] # None
        PROVE  cSriov'[n] \in SriovIds' \/ SomeTerminated'
    BY <1>2, <2>4, <2>5 DEF OneMoves, KnownSriov
  <2>6. ASSUME NEW x \in Requests, at'[x] = "delete_nad"
        PROVE  req'[x].uid \in SriovIds' \/ SomeTerminated'
    <3>1. CASE x = r
      BY <1>2, <2>4, <2>6, <3>1 DEF OneMoves, KnownSriov
    <3>2. CASE x # r
      BY <1>1, <1>2, <2>4, <2>6, <3>2 DEF OneMoves, KnownSriov
    <3> QED BY <3>1, <3>2
  <2> QED BY <2>5, <2>6 DEF KnownSriov
<1>3. ASSUME NEW r \in Issued, CompositeCall(r) \/ CompositeStep(r)
      PROVE  KnownSriov'
  BY <1>2, <1>3, CallMovesOne, StepMovesOne
<1>4. CASE Sync /\ UNCHANGED <<sriov, cSriov, at>>
  <2>1. req' = req
    BY <1>4 DEF Sync, WatchNetworks, WatchSubnets, Reconcile
  <2> QED BY <1>4, <2>1 DEF KnownSriov, SomeTerminated, SriovIds
<1>5. ASSUME NEW r \in Requests, Cancel(r), UNCHANGED <<sriov, cSriov, at>>
      PROVE  KnownSriov'
  <2>1. ASSUME NEW x \in Requests
        PROVE  /\ req'[x].op = req[x].op /\ req'[x].pc = req[x].pc
               /\ req'[x].uid = req[x].uid
    BY <1>1, <1>5 DEF Cancel, Request
  <2>2. SomeTerminated => SomeTerminated'
    BY <2>1 DEF SomeTerminated
  <2> QED BY <1>5, <2>1, <2>2 DEF KnownSriov, SriovIds
<1>6. CASE WatchSriov
  <2>1. req' = req /\ cSriov' = sriov /\ UNCHANGED <<sriov, at>>
    BY <1>6 DEF WatchSriov, vars
  <2>2. \A n \in Names : sriov[n] # None => sriov[n] \in SriovIds
    BY <1>1 DEF SriovIds
  <2> QED BY <2>1, <2>2 DEF KnownSriov, SomeTerminated, SriovIds
<1>7. CASE CompositeCrash
  <2>1. /\ cSriov' = sriov /\ sriov' = sriov
        /\ \A x \in Requests : at'[x] = "ovn"
    BY <1>7 DEF CompositeCrash
  <2>2. \A n \in Names : sriov[n] # None => sriov[n] \in SriovIds
    BY <1>1 DEF SriovIds
  <2> QED BY <2>1, <2>2 DEF KnownSriov, SriovIds
<1>8. CASE UNCHANGED compositeVars
  BY <1>8 DEF compositeVars, vars, KnownSriov, SomeTerminated, SriovIds
<1> QED BY <1>3, <1>4, <1>5, <1>6, <1>7, <1>8 DEF CompositeNext, Issued

(* An SR-IOV network is removed by a termination of its own id, or else    *)
(* the one asked for had gone and another termination has ended before.    *)
THEOREM SriovNetworksGoById == CompositeSpec => SriovRemovedById
<1>1. CompositeInit => KnownSriov
  <2> SUFFICES ASSUME CompositeInit PROVE KnownSriov
    OBVIOUS
  <2>1. sriov \in [Names -> Uids \union {None}]
    BY CompositeInitTraced DEF FullInv, CompositeInv, CompositeTypes
  <2> QED BY <2>1 DEF CompositeInit, KnownSriov, SriovIds
<1>2. FullInv /\ KnownSriov /\ [CompositeNext]_compositeVars => KnownSriov'
  BY KnownSriovKept
<1>3. CompositeSpec => []KnownSriov
  BY <1>1, <1>2, CompositeInvariant, PTL DEF CompositeSpec
<1>4. ASSUME FullInv, KnownSriov, CompositeNext, NEW n \in Names,
             NEW r \in Requests, sriov[n] # None, sriov'[n] = None,
             req'[r] # req[r]
      PROVE  /\ req[r].op = "terminate"
             /\ \/ req[r].uid = sriov[n]
                \/ /\ req[r].uid \notin NetIds \union SubnetIds \union SriovIds
                   /\ \E p \in Requests \ {r} :
                        req[p].op = "terminate" /\ req[p].pc = "done"
  <2>1. PICK p \in Issued : OneMoves(p)
    <3>1. sriov' # sriov
      BY <1>4
    <3> QED BY <1>4, <3>1, CallMovesOne, StepMovesOne
            DEF CompositeNext, Issued, WatchSriov, CompositeCrash
  <2>2. /\ req \in [Requests -> Request] /\ p \in Requests
    BY <1>4 DEF FullInv, TypeInv, TypeOK, Issued
  <2>3. p = r
    BY <1>4, <2>1, <2>2 DEF OneMoves
  <2>4. /\ at[r] = "delete_nad" /\ n = req[r].name /\ req[r].op = "terminate"
        /\ req[r].pc # "done"
    BY <1>4, <2>1, <2>3 DEF OneMoves
  <2>5. SriovAt(n, req[r].uid)
    BY <1>4, <2>4 DEF FullInv, CompositeInv, PlaceTraced
  <2>6. CASE req[r].uid # sriov[n]
    <3>1. req[r].uid \notin SriovIds /\ req[r].uid \notin NetIds \union SubnetIds
      BY <1>4, <2>5, <2>6 DEF SriovAt, SriovIds, Removed
    <3>2. SomeTerminated
      BY <1>4, <2>4, <3>1 DEF KnownSriov
    <3> QED BY <2>4, <3>1, <3>2 DEF SomeTerminated
  <2> QED BY <2>4, <2>6
<1>5. FullInv /\ KnownSriov /\ [CompositeNext]_compositeVars =>
        [\A n \in Names, r \in Requests :
            sriov[n] # None /\ sriov'[n] = None /\ req'[r] # req[r] =>
              /\ req[r].op = "terminate"
              /\ \/ req[r].uid = sriov[n]
                 \/ /\ req[r].uid \notin NetIds \union SubnetIds \union SriovIds
                    /\ \E p \in Requests \ {r} :
                         req[p].op = "terminate" /\ req[p].pc = "done"
        ]_compositeVars
  BY <1>4
<1> QED BY <1>3, <1>5, CompositeInvariant, PTL DEF CompositeSpec, SriovRemovedById

-----------------------------------------------------------------------------
(* The NAD discipline behind the composite manager *)

\* The steps of a handler in the code of the composite and SR-IOV managers.
OutsideOvn(r) ==
    \/ CallCreateSriov(r) \/ CallTerminateSriov(r) \/ CreateSriov(r)
    \/ ResolveInOvn(r, "vpc", "get_vpc", "get_vlan")
    \/ ResolveInOvn(r, "vlan", "get_vlan", "get_sriov")
    \/ ResolveInSriov(r) \/ DeleteSriovGet(r) \/ DeleteSriovNad(r)

\* A step of r that neither is nor becomes the owner of a subnet's NAD.
Quiet(r) ==
    /\ req[r].pc \notin HoldPcs /\ req'[r].pc \notin HoldPcs
    /\ req' = [req EXCEPT ![r] = req'[r]]
    /\ req'[r].cancelled => req[r].cancelled
    /\ faults' = 0 => faults = 0
    /\ UNCHANGED <<subnet, nad, tainted>>

\* The composite and SR-IOV managers touch no NAD of a subnet.
LEMMA OutsideIsQuiet ==
    ASSUME FullInv, NadInv, NEW r \in Issued, OutsideOvn(r)
    PROVE  Quiet(r)
<1>0. PICK q : q = req[r]
  OBVIOUS
<1>1. PICK p : p = req'[r]
  OBVIOUS
<1>2. /\ r \in Requests /\ req \in [Requests -> Request] /\ TypeOK
      /\ q \in Request /\ PlaceTraced(q, at[r]) /\ FaultsCounted
  BY <1>0 DEF FullInv, TypeInv, TypeOK, CompositeInv, Issued, NadInv
<1>3. \A res : Finish(q, res).pc = "done" /\ ~Finish(q, res).cancelled
  BY <1>2, Returns
<1>4. CASE CallCreateSriov(r) \/ CallTerminateSriov(r)
  <2>1. q.pc = "idle" /\ UNCHANGED <<api, faults, tainted>>
    BY <1>0, <1>4 DEF CallCreateSriov, CallTerminateSriov
  <2>2. PICK x : /\ req' = [req EXCEPT ![r] = x]
                 /\ \/ \E n \in Names : x = [Idle EXCEPT !.pc = "create",
                                                    !.op = "createNet", !.name = n]
                    \/ \E u \in SriovIds : x = [Idle EXCEPT !.pc = "dn_vpc",
                                                    !.op = "terminate", !.uid = u]
    <3>1. CASE CallCreateSriov(r)
      BY <3>1 DEF CallCreateSriov
    <3>2. CASE CallTerminateSriov(r)
      BY <3>2 DEF CallTerminateSriov
    <3> QED BY <1>4, <3>1, <3>2
  <2>3. x.pc \in {"create", "dn_vpc"} /\ ~x.cancelled
    BY <2>2 DEF Idle
  <2>4. p = x
    BY <1>1, <1>2, <2>2
  <2> QED BY <1>0, <1>1, <2>1, <2>2, <2>3, <2>4 DEF Quiet, HoldPcs, api
<1>5. CASE CreateSriov(r)
  <2>1. q.pc = "create"
    BY <1>0, <1>2, <1>5 DEF CreateSriov, PlaceTraced
  <2>2. PICK o \in Outcomes(q.cancelled) :
          /\ Charge(o, q.cancelled)
          /\ req' = [req EXCEPT ![r] = Finish(q,
                  IF sriov[q.name] = None /\ o = "ok" THEN "ok" ELSE "err")]
    BY <1>0, <1>5 DEF CreateSriov
  <2>3. faults' = 0 => faults = 0
    BY <1>0, <1>2, <2>2, NoFaultMeansOk
  <2>4. p.pc = "done" /\ ~p.cancelled /\ req' = [req EXCEPT ![r] = p]
    BY <1>1, <1>2, <1>3, <2>2
  <2> QED BY <1>0, <1>1, <1>5, <2>1, <2>3, <2>4 DEF Quiet, HoldPcs, CreateSriov, api
<1>6. CASE \/ ResolveInOvn(r, "vpc", "get_vpc", "get_vlan")
           \/ ResolveInOvn(r, "vlan", "get_vlan", "get_sriov")
  <2>1. q.pc = "cs_vpc"
    BY <1>0, <1>2, <1>6 DEF ResolveInOvn, PlaceTraced
  <2>2. UNCHANGED <<req, subnet, nad, tainted, faults>>
    BY <1>6 DEF ResolveInOvn, vars, api
  <2>3. p = q /\ req' = [req EXCEPT ![r] = p]
    BY <1>0, <1>1, <1>2, <2>2
  <2> QED BY <1>0, <1>1, <2>1, <2>2, <2>3 DEF Quiet, HoldPcs
<1>7. CASE ResolveInSriov(r)
  <2>1. q.pc = "cs_vpc"
    BY <1>0, <1>2, <1>7 DEF ResolveInSriov, PlaceTraced
  <2>2. \E res : req' = [req EXCEPT ![r] = Finish(q, res)]
    BY <1>0, <1>7 DEF ResolveInSriov
  <2>3. p.pc = "done" /\ ~p.cancelled /\ req' = [req EXCEPT ![r] = p]
    BY <1>1, <1>2, <1>3, <2>2
  <2> QED BY <1>0, <1>1, <1>7, <2>1, <2>3 DEF Quiet, HoldPcs, ResolveInSriov, api
<1>8. CASE DeleteSriovGet(r)
  <2>1. q.pc = "dn_loop"
    BY <1>0, <1>2, <1>8 DEF DeleteSriovGet, PlaceTraced
  <2>2. \/ \E n \in Names : req' = [req EXCEPT ![r] = [q EXCEPT !.name = n]]
        \/ req' = req
    BY <1>0, <1>8 DEF DeleteSriovGet
  <2>3. /\ p.pc = q.pc /\ p.cancelled = q.cancelled
        /\ req' = [req EXCEPT ![r] = p]
    BY <1>0, <1>1, <1>2, <2>2 DEF Request
  <2> QED BY <1>0, <1>1, <1>8, <2>1, <2>3 DEF Quiet, HoldPcs, DeleteSriovGet, api
<1>9. CASE DeleteSriovNad(r)
  <2>1. q.pc = "dn_loop"
    BY <1>0, <1>2, <1>9 DEF DeleteSriovNad, PlaceTraced
  <2>2. PICK o \in Outcomes(q.cancelled) :
          /\ Charge(o, q.cancelled)
          /\ req' = [req EXCEPT ![r] = SriovDeleted(q, o, sriov[q.name] # None)]
    BY <1>0, <1>9 DEF DeleteSriovNad
  <2>3. faults' = 0 => faults = 0
    BY <1>0, <1>2, <2>2, NoFaultMeansOk
  <2>4. /\ p = q \/ \E res : p = Finish(q, res)
        /\ req' = [req EXCEPT ![r] = p]
    BY <1>1, <1>2, <2>2 DEF SriovDeleted
  <2>5. p.pc \in {"dn_loop", "done"} /\ (p.cancelled => q.cancelled)
    BY <1>3, <2>1, <2>4
  <2> QED BY <1>0, <1>1, <1>9, <2>1, <2>3, <2>4, <2>5
          DEF Quiet, HoldPcs, DeleteSriovNad, api
<1> QED BY <1>4, <1>5, <1>6, <1>7, <1>8, <1>9 DEF OutsideOvn

\* The steps of a handler: kube-ovn's own, or quiet.
LEMMA HandlerStepKinds ==
    ASSUME FullInv, NadInv, NEW r \in Issued, CompositeCall(r) \/ CompositeStep(r)
    PROVE  Call(r) \/ Step(r) \/ Quiet(r)
<1>1. CASE CallOvn(r) \/ OvnStep(r)
  BY <1>1 DEF CallOvn, OvnStep, Call
<1>2. CASE CallCompositeCreateSubnet(r)
  <2>1. CASE CallCreateSubnet(r)
    BY <2>1 DEF Call
  <2>2. ASSUME NEW s \in SubnetNames, NEW u \in SriovIds,
               req[r].pc = "idle", UNCHANGED <<api, faults, tainted>>,
               req' = [req EXCEPT ![r] = [Idle EXCEPT !.pc = "cs_vpc",
                        !.op = "createSub", !.sub = s, !.idx = 1, !.uid = u]]
        PROVE  Quiet(r)
    <3>1. r \in Requests /\ req \in [Requests -> Request]
      BY DEF FullInv, TypeInv, TypeOK, Issued
    <3>2. /\ req'[r].pc = "cs_vpc" /\ ~req'[r].cancelled
          /\ req' = [req EXCEPT ![r] = req'[r]]
      BY <2>2, <3>1 DEF Idle
    <3> QED BY <2>2, <3>2 DEF Quiet, HoldPcs, api
  <2> QED BY <1>2, <2>1, <2>2 DEF CallCompositeCreateSubnet
<1>3. CASE OutsideOvn(r)
  BY <1>3, OutsideIsQuiet
<1> QED BY <1>1, <1>2, <1>3 DEF CompositeCall, CompositeStep, OutsideOvn

\* NadInv is inductive for the composite manager, relative to FullInv.
LEMMA CompositeNads == CompositeSpec => []NadInv
<1>1. CompositeInit => NadInv
  BY InitNads DEF CompositeInit
<1>2. FullInv /\ NadInv /\ [CompositeNext]_compositeVars => NadInv'
  <2> SUFFICES ASSUME FullInv, NadInv, [CompositeNext]_compositeVars PROVE NadInv'
    OBVIOUS
  <2>1. TypeInv
    BY DEF FullInv
  <2>2. ASSUME NEW r \in Issued, CompositeCall(r) \/ CompositeStep(r) PROVE NadInv'
    <3>1. r \in Requests
      BY DEF Issued
    <3>2. CASE Call(r) \/ Step(r)
      BY <2>1, <3>1, <3>2, HandlerKeepsNads
    <3>3. CASE Quiet(r)
      <4>1. PICK p : p = req'[r]
        OBVIOUS
      <4>2. /\ req[r].pc \notin HoldPcs /\ p.pc \notin HoldPcs
            /\ req' = [req EXCEPT ![r] = p]
            /\ p.cancelled => req[r].cancelled
            /\ faults' = 0 => faults = 0
            /\ UNCHANGED <<subnet, nad, tainted>>
        BY <3>3, <4>1 DEF Quiet
      <4> QED BY <2>1, <3>1, <4>2, QuietStep
    <3> QED BY <2>2, <3>2, <3>3, HandlerStepKinds
  <2>3. CASE Sync \/ Crash \/ \E r \in Requests : Cancel(r)
    BY <2>1, <2>3, EnvironmentKeeps
  <2>4. CASE UNCHANGED vars
    BY <2>4, StutterKeepsNads
  <2> QED BY <2>2, <2>3, <2>4 DEF CompositeNext, Issued, WatchSriov, CompositeCrash,
          compositeVars
<1> QED BY <1>1, <1>2, CompositeInvariant, PTL DEF CompositeSpec

(* The NAD discipline of CreateSubnet and DeleteSubnet holds in the        *)
(* manager kube-vim really runs, where requests come through the composite *)
(* manager and share names, faults and crashes with SR-IOV networks.       *)
THEOREM CompositeKeepsNads ==
    CompositeSpec => [](SubnetHasNad /\ NadIsLock /\ NadLeaksOnlyByFault)
BY CompositeNads, PTL DEF NadInv

(* The composite manager implements SubnetSlot: its own lookups and the    *)
(* SR-IOV manager's writes move no subnet slot, and everything else is a   *)
(* move that SubnetSlot allows.                                            *)
THEOREM CompositeRefinesSlots == CompositeSpec => SlotsAreExclusive
<1>1. CompositeInit => Slot!SlotInit
  BY InitSlots DEF CompositeInit
<1>2. FullInv /\ FullInv' /\ NadInv /\ NadInv' /\ [CompositeNext]_compositeVars
        => [Slot!SlotNext]_(Slot!slotVars)
  <2> SUFFICES ASSUME FullInv, FullInv', NadInv, NadInv',
                      [CompositeNext]_compositeVars
               PROVE  [Slot!SlotNext]_(Slot!slotVars)
    OBVIOUS
  <2>1. TypeInv /\ TypeInv'
    BY DEF FullInv
  <2>2. ASSUME NEW r \in Issued, CompositeCall(r) \/ CompositeStep(r)
        PROVE  Slot!SlotNext
    <3>1. r \in Requests
      BY DEF Issued
    <3>2. CASE Call(r) \/ Step(r)
      BY <2>1, <3>1, <3>2, HandlerMovesSlots
    <3>3. CASE Quiet(r)
      <4>1. PICK p : p = req'[r]
        OBVIOUS
      <4>2. /\ req[r].pc \notin HoldPcs /\ p.pc \notin HoldPcs
            /\ req' = [req EXCEPT ![r] = p]
            /\ faults' = 0 => faults = 0
            /\ UNCHANGED <<subnet, nad, tainted>>
        BY <3>3, <4>1 DEF Quiet
      <4> QED BY <2>1, <3>1, <4>2, QuietStepMovesNoSlot
    <3> QED BY <2>2, <3>2, <3>3, HandlerStepKinds
  <2>3. CASE Sync \/ Crash \/ \E r \in Requests : Cancel(r)
    BY <2>1, <2>3, SyncMovesNoSlot, CrashLosesHolders
  <2>4. CASE UNCHANGED vars
    BY <2>4, StutterMovesNoSlot
  <2> QED BY <2>2, <2>3, <2>4 DEF CompositeNext, Issued, WatchSriov, CompositeCrash,
          compositeVars
<1> QED BY <1>1, <1>2, CompositeInvariant, CompositeNads, PTL
        DEF CompositeSpec, SlotsAreExclusive, Slot!SlotSpec

=============================================================================
