--------------------------- MODULE NetworkProofs ---------------------------
(***************************************************************************)
(* Machine-checked proofs about KubeOvnNetwork and its refinement of       *)
(* SubnetSlot, for any set of requests, any set of names and any bounds.   *)
(***************************************************************************)
EXTENDS SlotRefinement, TLAPS

Results == {"none", "ok", "err", "notfound", "lost"}

GoodRequest == {q \in Request : WellFormed(q)}

-----------------------------------------------------------------------------
(* The record updates of the handlers keep a request well formed. *)

\* The idle request is well formed.
LEMMA IdleGood == Idle \in GoodRequest
BY ConstantsAssumption DEF GoodRequest, Request, WellFormed, Idle, Pcs, CsPcs,
   DsPcs, Ops, Kinds

\* Returning from a handler leaves a well-formed request.
LEMMA FinishGood ==
    ASSUME NEW q \in GoodRequest, NEW res \in Results
    PROVE  Finish(q, res) \in GoodRequest
<1> DEFINE u == IF q.op = "terminate" THEN q.uid ELSE None
           seen == IF q.op = "terminate" THEN q.seen ELSE {}
           p == [Idle EXCEPT !.pc = "done", !.op = q.op, !.res = res,
                             !.uid = u, !.seen = seen]
<1>1. /\ q \in Request /\ q.op \in Ops
      /\ q.op = "terminate" => q.uid \in Uids
  BY DEF GoodRequest, WellFormed, Request
<1>2. u \in Uids \union {None} /\ seen \in SUBSET Uids
  BY <1>1 DEF Request
<1>3. Idle \in Request
  BY IdleGood DEF GoodRequest
<1>4. p \in Request
  <2> HIDE DEF u, seen
  <2> DEFINE op == q.op
  <2>1. op \in Ops
    BY <1>1
  <2> HIDE DEF op
  <2>2. [Idle EXCEPT !.pc = "done", !.op = op, !.res = res, !.uid = u,
                     !.seen = seen] \in Request
    BY <2>1, <1>2, <1>3, Zenon DEF Request, Results, Pcs
  <2> QED BY <2>2 DEF op
<1>5. /\ p.pc = "done" /\ p.op = q.op /\ p.uid = u /\ p.fall = FALSE
  BY <1>3 DEF Request, Idle
<1>6. WellFormed(p)
  BY <1>1, <1>5 DEF WellFormed, CsPcs, DsPcs
<1> QED BY <1>4, <1>6 DEF GoodRequest, Finish

\* A failing CreateSubnet rolls back or returns.
LEMMA CreateSubnetFailedGood ==
    ASSUME NEW q \in GoodRequest, NEW res \in Results, q.pc \in CsPcs
    PROVE  CreateSubnetFailed(q, res) \in GoodRequest
<1>1. CASE q.op = "createNet"
  <2> DEFINE p == [Idle EXCEPT !.pc = "dn_vpc", !.op = "createNet",
                               !.name = q.name, !.cancelled = q.cancelled]
  <2>1. q.name \in Names /\ q.cancelled \in BOOLEAN
    BY <1>1 DEF GoodRequest, Request, WellFormed, CsPcs
  <2>2. Idle \in Request
    BY IdleGood DEF GoodRequest
  <2>3. p \in Request
    BY <2>1, <2>2, Zenon DEF Request, Pcs, DsPcs, Ops
  <2>4. WellFormed(p)
    BY <2>1, <2>2 DEF Request, Idle, WellFormed, CsPcs, DsPcs
  <2> QED BY <1>1, <2>3, <2>4 DEF CreateSubnetFailed, GoodRequest
<1>2. CASE q.op # "createNet"
  BY <1>2, FinishGood DEF CreateSubnetFailed
<1> QED BY <1>1, <1>2

\* allocateL3Attributes stays within the attributes of the request.
LEMMA NextL3Good ==
    ASSUME NEW q \in GoodRequest, q.pc \in CsPcs \union {"create"}
    PROVE  NextL3(q) \in GoodRequest
<1>1. CASE q.op = "createNet" /\ q.idx < q.l3
  <2>1. q.idx + 1 \in 1..MaxL3
    BY <1>1, ConstantsAssumption DEF GoodRequest, Request
  <2>2. q.name \in Names
    BY <1>1 DEF GoodRequest, WellFormed, CsPcs
  <2>3. <<q.name, q.idx + 1>> \in SubnetNames
    BY <2>1, <2>2 DEF SubnetNames
  <2> DEFINE p == [q EXCEPT !.pc = "cs_vpc", !.idx = q.idx + 1, !.found = None,
                            !.sub = <<q.name, q.idx + 1>>]
  <2>4. p \in Request
    <3>1. q.idx + 1 \in 0..MaxL3
      BY <2>1
    <3>2. q \in Request
      BY DEF GoodRequest
    <3> DEFINE i == q.idx + 1
               s == <<q.name, q.idx + 1>>
    <3> HIDE DEF i, s
    <3>3. [q EXCEPT !.pc = "cs_vpc", !.idx = i, !.found = None, !.sub = s]
            \in Request
      <4>1. i \in 0..MaxL3 /\ s \in SubnetNames
        BY <3>1, <2>3 DEF i, s
      <4> QED BY <4>1, <3>2, Zenon DEF Request, Pcs, CsPcs
    <3> QED BY <3>3 DEF i, s
  <2>5. WellFormed(p)
    BY <1>1, <2>2, <2>3 DEF GoodRequest, Request, WellFormed, CsPcs, DsPcs
  <2> QED BY <1>1, <2>4, <2>5 DEF NextL3, GoodRequest
<1>2. CASE ~(q.op = "createNet" /\ q.idx < q.l3)
  BY <1>2, FinishGood DEF NextL3, Results
<1> QED BY <1>1, <1>2

\* A failing delete returns or falls through to DeleteSubnet.
LEMMA DeleteFailedGood ==
    ASSUME NEW q \in GoodRequest, NEW res \in Results, q.pc \in DsPcs
    PROVE  DeleteFailed(q, res) \in GoodRequest
<1>1. CASE q.op = "createNet"
  BY <1>1, FinishGood DEF DeleteFailed, Results
<1>2. CASE q.op # "createNet" /\ ~q.fall /\ res = "notfound"
  <2>1. q.op = "terminate" /\ q.uid \in Uids
    BY <1>2 DEF GoodRequest, WellFormed
  <2> DEFINE p == [q EXCEPT !.pc = "dn_loop", !.fall = TRUE, !.found = None,
                            !.sub = None, !.todo = {q.uid},
                            !.seen = q.seen \union {q.uid}]
  <2>2. p \in Request
    BY <2>1 DEF GoodRequest, Request, Pcs, DsPcs
  <2>3. WellFormed(p)
    BY <2>1 DEF GoodRequest, Request, WellFormed, CsPcs, DsPcs
  <2>4. DeleteFailed(q, res) = p
    BY <1>2, <2>1 DEF DeleteFailed, GoodRequest, Request
  <2> QED BY <2>2, <2>3, <2>4 DEF GoodRequest
<1>3. CASE q.op # "createNet" /\ ~(~q.fall /\ res = "notfound")
  BY <1>3, FinishGood DEF DeleteFailed
<1> QED BY <1>1, <1>2, <1>3

\* A subnet is deleted: go on with the next one, or return.
LEMMA DeleteSubnetDoneGood ==
    ASSUME NEW q \in GoodRequest, q.pc = "ds_nad"
    PROVE  DeleteSubnetDone(q) \in GoodRequest
<1>1. CASE q.fall
  BY <1>1, FinishGood DEF DeleteSubnetDone, Results
<1>2. CASE ~q.fall
  BY <1>2 DEF DeleteSubnetDone, GoodRequest, Request, WellFormed, Pcs, CsPcs,
     DsPcs
<1> QED BY <1>1, <1>2

-----------------------------------------------------------------------------
(* What the cache lookups return *)

\* GetNetwork returns a network of the cache, with ids for its subnets.
LEMMA GetNetworkTyped ==
    ASSUME TypeOK, NEW q, NEW k \in Kinds, NEW n \in GetNetwork(q, k)
    PROVE  /\ n \in Names
           /\ FoundNetwork(k, n) \in FoundNet
           /\ ResolvedIds(k, n) \in SUBSET Uids
<1>1. n \in Names /\ cNet[k][n] # None /\ Resolves(k, n)
  BY DEF GetNetwork, Selected
<1>2. cNet[k][n] \in NetObj
  BY <1>1 DEF TypeOK
<1>3. FoundNetwork(k, n) \in FoundNet
  BY <1>1, <1>2 DEF FoundNetwork, FoundNet, NetObj
<1>4. ASSUME NEW s \in cNet[k][n].subnets
      PROVE  cSub[s].uid \in Uids
  <2>1. s \in SubnetNames /\ cSub[s] # None
    BY <1>1, <1>2 DEF NetObj, Resolves
  <2>2. cSub[s] \in SubnetObj
    BY <2>1 DEF TypeOK
  <2> QED BY <2>2 DEF SubnetObj
<1>5. ResolvedIds(k, n) \in SUBSET Uids
  BY <1>4 DEF ResolvedIds
<1> QED BY <1>1, <1>3, <1>5

\* CreateSubnet goes on well formed after its lookup.
LEMMA CreateSubnetInGood ==
    ASSUME TypeOK, NEW q \in GoodRequest, q.pc \in {"cs_vpc", "cs_vlan"},
           NEW k \in Kinds, NEW n \in GetNetwork(q, k)
    PROVE  CreateSubnetIn(q, k, n) \in GoodRequest
<1>1. CASE q.op = "createNet" /\ q.idx = q.bad
  BY <1>1, CreateSubnetFailedGood DEF CreateSubnetIn, CsPcs, Results
<1>2. CASE ~(q.op = "createNet" /\ q.idx = q.bad)
  <2> DEFINE f == FoundNetwork(k, n)
             p == [q EXCEPT !.pc = "cs_nad", !.found = f]
  <2>1. q \in Request /\ WellFormed(q) /\ f \in FoundNet \union {None}
    BY GetNetworkTyped DEF GoodRequest
  <2>2. CreateSubnetIn(q, k, n) = p
    BY <1>2 DEF CreateSubnetIn
  <2> HIDE DEF f
  <2>3. p \in Request
    BY <2>1, Zenon DEF Request, Pcs, CsPcs
  <2>4. WellFormed(p)
    BY <2>1 DEF Request, WellFormed, CsPcs, DsPcs
  <2> QED BY <2>2, <2>3, <2>4 DEF GoodRequest
<1> QED BY <1>1, <1>2

\* DeleteNetwork goes on well formed after its lookup.
LEMMA DeleteNetworkInGood ==
    ASSUME TypeOK, NEW q \in GoodRequest, q.pc \in {"dn_vpc", "dn_vlan"},
           NEW k \in Kinds, NEW n \in GetNetwork(q, k)
    PROVE  DeleteNetworkIn(q, k, n) \in GoodRequest
<1> DEFINE f == FoundNetwork(k, n)
           ids == ResolvedIds(k, n)
           p == [q EXCEPT !.pc = "dn_loop", !.found = f, !.todo = ids,
                          !.seen = ids]
<1>1. /\ q \in Request /\ WellFormed(q) /\ f \in FoundNet \union {None}
      /\ ids \in SUBSET Uids
  BY GetNetworkTyped DEF GoodRequest
<1>2. DeleteNetworkIn(q, k, n) = p
  BY DEF DeleteNetworkIn
<1> HIDE DEF f, ids
<1>3. p \in Request
  BY <1>1, Zenon DEF Request, Pcs, DsPcs
<1>4. WellFormed(p)
  BY <1>1 DEF Request, WellFormed, CsPcs, DsPcs
<1> QED BY <1>2, <1>3, <1>4 DEF GoodRequest

-----------------------------------------------------------------------------
(* Type correctness and the shape of the call tree *)

TypeInv == TypeOK /\ CallTree

\* Typed variables and well-formed requests are the same as GoodRequest.
LEMMA RequestsGood ==
    TypeInv => req \in [Requests -> GoodRequest]
BY DEF TypeInv, TypeOK, CallTree, GoodRequest

\* One handler's update keeps all handlers good.
LEMMA UpdateGood ==
    ASSUME TypeInv, NEW r \in Requests, NEW p \in GoodRequest,
           req' = [req EXCEPT ![r] = p]
    PROVE  /\ req' \in [Requests -> Request]
           /\ CallTree'
<1>1. req' \in [Requests -> GoodRequest]
  BY RequestsGood
<1> QED BY <1>1 DEF GoodRequest, CallTree

\* A charged fault stays within the budget.
LEMMA ChargeTyped ==
    ASSUME TypeOK, NEW c, NEW o \in Outcomes(c), Charge(o, c)
    PROVE  faults' \in 0..MaxFaults
BY ConstantsAssumption DEF TypeOK, Outcomes, Charge

\* The four calls start well formed.
LEMMA CallTyped ==
    ASSUME TypeInv, NEW r \in Requests, Call(r)
    PROVE  TypeInv'
<1> USE DEF TypeInv
<1>0. \A u \in NetIds \union SubnetIds : u \in Uids
  BY DEF NetIds, SubnetIds
<1>1. CASE CallCreateNetwork(r)
  <2>1. PICK k \in Kinds, n \in Names, l3 \in 0..MaxL3,
             u \in NetIds \union {None} :
          \E bad \in 0..l3 :
            /\ l3 = 0 => u = None
            /\ req' = [req EXCEPT ![r] = [Idle EXCEPT !.pc = "create",
                        !.op = "createNet", !.kind = k, !.name = n,
                        !.l3 = l3, !.bad = bad, !.uid = u]]
    BY <1>1 DEF CallCreateNetwork
  <2>2. PICK bad \in 0..l3 :
            req' = [req EXCEPT ![r] = [Idle EXCEPT !.pc = "create",
                        !.op = "createNet", !.kind = k, !.name = n,
                        !.l3 = l3, !.bad = bad, !.uid = u]]
    BY <2>1
  <2> DEFINE p == [Idle EXCEPT !.pc = "create", !.op = "createNet", !.kind = k,
                               !.name = n, !.l3 = l3, !.bad = bad, !.uid = u]
  <2>3. bad \in 0..MaxL3 /\ u \in Uids \union {None}
    BY <1>0, ConstantsAssumption
  <2>4. Idle \in Request
    BY IdleGood DEF GoodRequest
  <2>5. p \in Request
    BY <2>3, <2>4, Zenon DEF Request, Pcs, Ops
  <2>6. WellFormed(p)
    BY <2>4 DEF Request, Idle, WellFormed, CsPcs, DsPcs
  <2>7. p \in GoodRequest
    BY <2>5, <2>6 DEF GoodRequest
  <2> HIDE DEF p
  <2>8. req' = [req EXCEPT ![r] = p]
    BY <2>2 DEF p
  <2> QED BY <1>1, <2>7, <2>8, UpdateGood
          DEF CallCreateNetwork, TypeOK, api, caches
<1>2. CASE CallCreateSubnet(r)
  <2>1. PICK s \in SubnetNames, u \in NetIds \union {None},
             n \in Names \union {None} :
            req' = [req EXCEPT ![r] = [Idle EXCEPT
                     !.pc = IF u = None /\ n = None THEN "cs_nad" ELSE "cs_vpc",
                     !.op = "createSub", !.sub = s, !.name = n, !.idx = 1, !.uid = u]]
    BY <1>2 DEF CallCreateSubnet
  <2> DEFINE a == IF u = None /\ n = None THEN "cs_nad" ELSE "cs_vpc"
             p == [Idle EXCEPT !.pc = a, !.op = "createSub", !.sub = s,
                               !.name = n, !.idx = 1, !.uid = u]
  <2>2. u \in Uids \union {None} /\ 1 \in 0..MaxL3 /\ a \in {"cs_nad", "cs_vpc"}
    BY <1>0, ConstantsAssumption DEF SubnetNames
  <2>3. Idle \in Request
    BY IdleGood DEF GoodRequest
  <2>4. req' = [req EXCEPT ![r] = p]
    BY <2>1
  <2> HIDE DEF a
  <2>5. p \in Request
    BY <2>2, <2>3, Zenon DEF Request, Pcs, CsPcs, Ops
  <2>6. WellFormed(p)
    BY <2>2, <2>3 DEF Request, Idle, WellFormed, CsPcs, DsPcs
  <2>7. p \in GoodRequest
    BY <2>5, <2>6 DEF GoodRequest
  <2> HIDE DEF p
  <2> QED BY <1>2, <2>4, <2>7, UpdateGood
          DEF CallCreateSubnet, TypeOK, api, caches
<1>3. CASE CallTerminate(r)
  <2>1. PICK u \in NetIds \union SubnetIds :
            req' = [req EXCEPT ![r] = [Idle EXCEPT
                        !.pc = "dn_vpc", !.op = "terminate", !.uid = u]]
    BY <1>3 DEF CallTerminate
  <2> DEFINE p == [Idle EXCEPT !.pc = "dn_vpc", !.op = "terminate", !.uid = u]
  <2>2. u \in Uids
    BY <1>0
  <2>3. Idle \in Request
    BY IdleGood DEF GoodRequest
  <2>4. p \in Request
    BY <2>2, <2>3, Zenon DEF Request, Pcs, DsPcs, Ops
  <2>5. WellFormed(p)
    BY <2>2, <2>3 DEF Request, Idle, WellFormed, CsPcs, DsPcs
  <2>6. p \in GoodRequest
    BY <2>4, <2>5 DEF GoodRequest
  <2>7. req' = [req EXCEPT ![r] = p]
    BY <2>1
  <2> HIDE DEF p
  <2> QED BY <1>3, <2>6, <2>7, UpdateGood
          DEF CallTerminate, TypeOK, api, caches
<1>4. CASE Reject(r)
  <2> DEFINE p == Finish(Idle, "err")
  <2>1. p \in GoodRequest
    BY IdleGood, FinishGood DEF Results
  <2> HIDE DEF p
  <2>2. req' = [req EXCEPT ![r] = p]
    BY <1>4 DEF Reject, p
  <2> QED BY <1>4, <2>1, <2>2, UpdateGood DEF Reject, TypeOK, api, caches
<1> QED BY <1>1, <1>2, <1>3, <1>4 DEF Call

\* Every step of a handler keeps types and call tree.
LEMMA StepTyped ==
    ASSUME TypeInv, NEW r \in Requests, Step(r)
    PROVE  TypeInv'
<1> DEFINE q == req[r]
<1> USE DEF TypeInv
<1>0. q \in GoodRequest /\ q \in Request /\ WellFormed(q)
  BY RequestsGood DEF GoodRequest
<1>1. CASE CreateNetworkObject(r)
  <2>1. PICK o \in Outcomes(q.cancelled) :
          /\ Charge(o, q.cancelled)
          /\ net' = IF net[q.kind][q.name] = None /\ o # "fail"
                    THEN [net EXCEPT ![q.kind][q.name] =
                                [uid |-> NetUid(r), subnets |-> {}]]
                    ELSE net
          /\ req' = [req EXCEPT ![r] =
                IF net[q.kind][q.name] = None /\ o = "ok"
                THEN NextL3(q) ELSE Finish(q, "err")]
    BY <1>1 DEF CreateNetworkObject
  <2>2. NextL3(q) \in GoodRequest /\ Finish(q, "err") \in GoodRequest
    BY <1>1, <1>0, NextL3Good, FinishGood DEF CreateNetworkObject, Results
  <2>3. req' \in [Requests -> Request] /\ CallTree'
    BY <2>1, <2>2, UpdateGood
  <2>4. [uid |-> NetUid(r), subnets |-> {}] \in NetObj
    BY ConstantsAssumption DEF NetObj, NetUid, Uids
  <2>5. net' \in [Kinds -> [Names -> NetObj \union {None}]]
    BY <2>1, <2>4 DEF TypeOK
  <2>6. faults' \in 0..MaxFaults
    BY <2>1, ChargeTyped
  <2> QED BY <1>1, <2>3, <2>5, <2>6 DEF CreateNetworkObject, TypeOK, caches
<1>2. CASE CreateSubnetGetOverlay(r)
  <2>1. q.pc = "cs_vpc"
    BY <1>2 DEF CreateSubnetGetOverlay
  <2>2. ASSUME NEW n \in GetNetwork(q, "vpc"),
               req' = [req EXCEPT ![r] = CreateSubnetIn(q, "vpc", n)]
        PROVE  TypeInv'
    <3>1. CreateSubnetIn(q, "vpc", n) \in GoodRequest
      BY <1>0, <2>1, CreateSubnetInGood DEF Kinds
    <3> QED BY <1>2, <2>2, <3>1, UpdateGood DEF CreateSubnetGetOverlay, TypeOK, api, caches
  <2>3. ASSUME req' = [req EXCEPT ![r] = [q EXCEPT !.pc = "cs_vlan"]]
        PROVE  TypeInv'
    <3>1. [q EXCEPT !.pc = "cs_vlan"] \in GoodRequest
      <4>2. [q EXCEPT !.pc = "cs_vlan"] \in Request
        BY <1>0, Zenon DEF Request, Pcs, CsPcs, DsPcs
      <4>3. WellFormed([q EXCEPT !.pc = "cs_vlan"])
        BY <1>0, <2>1 DEF Request, WellFormed, CsPcs, DsPcs
      <4> QED BY <4>2, <4>3 DEF GoodRequest
    <3> QED BY <1>2, <2>3, <3>1, UpdateGood DEF CreateSubnetGetOverlay, TypeOK, api, caches
  <2> QED BY <1>2, <2>2, <2>3 DEF CreateSubnetGetOverlay
<1>3. CASE CreateSubnetGetUnderlay(r)
  <2>1. q.pc = "cs_vlan"
    BY <1>3 DEF CreateSubnetGetUnderlay
  <2>2. ASSUME NEW n \in GetNetwork(q, "vlan"),
               req' = [req EXCEPT ![r] = CreateSubnetIn(q, "vlan", n)]
        PROVE  TypeInv'
    <3>1. CreateSubnetIn(q, "vlan", n) \in GoodRequest
      BY <1>0, <2>1, CreateSubnetInGood DEF Kinds
    <3> QED BY <1>3, <2>2, <3>1, UpdateGood DEF CreateSubnetGetUnderlay, TypeOK, api, caches
  <2>3. ASSUME req' = [req EXCEPT ![r] = CreateSubnetFailed(q, "notfound")]
        PROVE  TypeInv'
    <3>1. CreateSubnetFailed(q, "notfound") \in GoodRequest
      BY <1>0, <2>1, CreateSubnetFailedGood DEF CsPcs, Results
    <3> QED BY <1>3, <2>3, <3>1, UpdateGood DEF CreateSubnetGetUnderlay, TypeOK, api, caches
  <2> QED BY <1>3, <2>2, <2>3 DEF CreateSubnetGetUnderlay
<1>4. CASE DeleteNetworkGetOverlay(r)
  <2>1. q.pc = "dn_vpc"
    BY <1>4 DEF DeleteNetworkGetOverlay
  <2>2. ASSUME NEW n \in GetNetwork(q, "vpc"),
               req' = [req EXCEPT ![r] = DeleteNetworkIn(q, "vpc", n)]
        PROVE  TypeInv'
    <3>1. DeleteNetworkIn(q, "vpc", n) \in GoodRequest
      BY <1>0, <2>1, DeleteNetworkInGood DEF Kinds
    <3> QED BY <1>4, <2>2, <3>1, UpdateGood DEF DeleteNetworkGetOverlay, TypeOK, api, caches
  <2>3. ASSUME req' = [req EXCEPT ![r] = [q EXCEPT !.pc = "dn_vlan"]]
        PROVE  TypeInv'
    <3>1. [q EXCEPT !.pc = "dn_vlan"] \in GoodRequest
      <4>2. [q EXCEPT !.pc = "dn_vlan"] \in Request
        BY <1>0, Zenon DEF Request, Pcs, CsPcs, DsPcs
      <4>3. WellFormed([q EXCEPT !.pc = "dn_vlan"])
        BY <1>0, <2>1 DEF Request, WellFormed, CsPcs, DsPcs
      <4> QED BY <4>2, <4>3 DEF GoodRequest
    <3> QED BY <1>4, <2>3, <3>1, UpdateGood DEF DeleteNetworkGetOverlay, TypeOK, api, caches
  <2> QED BY <1>4, <2>2, <2>3 DEF DeleteNetworkGetOverlay
<1>5. CASE DeleteNetworkGetUnderlay(r)
  <2>1. q.pc = "dn_vlan"
    BY <1>5 DEF DeleteNetworkGetUnderlay
  <2>2. ASSUME NEW n \in GetNetwork(q, "vlan"),
               req' = [req EXCEPT ![r] = DeleteNetworkIn(q, "vlan", n)]
        PROVE  TypeInv'
    <3>1. DeleteNetworkIn(q, "vlan", n) \in GoodRequest
      BY <1>0, <2>1, DeleteNetworkInGood DEF Kinds
    <3> QED BY <1>5, <2>2, <3>1, UpdateGood DEF DeleteNetworkGetUnderlay, TypeOK, api, caches
  <2>3. ASSUME req' = [req EXCEPT ![r] = DeleteFailed(q, "notfound")]
        PROVE  TypeInv'
    <3>1. DeleteFailed(q, "notfound") \in GoodRequest
      BY <1>0, <2>1, DeleteFailedGood DEF DsPcs, Results
    <3> QED BY <1>5, <2>3, <3>1, UpdateGood DEF DeleteNetworkGetUnderlay, TypeOK, api, caches
  <2> QED BY <1>5, <2>2, <2>3 DEF DeleteNetworkGetUnderlay
<1>6. CASE CreateNetAttach(r)
  <2>1. PICK o \in Outcomes(q.cancelled) :
          /\ Charge(o, q.cancelled)
          /\ nad' = IF o = "fail" THEN nad ELSE nad \union {q.sub}
          /\ req' = [req EXCEPT ![r] =
                IF q.sub \notin nad /\ o = "ok"
                THEN [q EXCEPT !.pc = "cs_subnet"]
                ELSE CreateSubnetFailed(q, "err")]
    BY <1>6 DEF CreateNetAttach, NetAttachRefused
  <2>2. q.pc = "cs_nad" /\ q.sub \in SubnetNames
    BY <1>6, <1>0 DEF CreateNetAttach, WellFormed, CsPcs
  <2>3. CreateSubnetFailed(q, "err") \in GoodRequest
    BY <1>0, <2>2, CreateSubnetFailedGood DEF CsPcs, Results
  <2>4. [q EXCEPT !.pc = "cs_subnet"] \in GoodRequest
    <3>1. [q EXCEPT !.pc = "cs_subnet"] \in Request
      BY <1>0, Zenon DEF Request, Pcs, CsPcs
    <3>2. WellFormed([q EXCEPT !.pc = "cs_subnet"])
      BY <1>0, <2>2 DEF Request, WellFormed, CsPcs, DsPcs
    <3> QED BY <3>1, <3>2 DEF GoodRequest
  <2>5. req' \in [Requests -> Request] /\ CallTree'
    BY <2>1, <2>3, <2>4, UpdateGood
  <2>6. faults' \in 0..MaxFaults
    BY <2>1, ChargeTyped
  <2> QED BY <1>6, <2>1, <2>2, <2>5, <2>6 DEF CreateNetAttach, TypeOK, caches
<1>7. CASE CreateSubnetObject(r)
  <2>1. PICK o \in Outcomes(q.cancelled) :
          /\ Charge(o, q.cancelled)
          /\ IF subnet[q.sub] = None /\ o # "fail"
             THEN /\ subnet' = [subnet EXCEPT ![q.sub] = NewSubnet(r)]
                  /\ tainted' = IF o = "lost" THEN tainted \union {q.sub}
                                              ELSE tainted
             ELSE UNCHANGED <<subnet, tainted>>
          /\ req' = [req EXCEPT ![r] =
                IF subnet[q.sub] = None /\ o = "ok"
                THEN NextL3(q) ELSE [q EXCEPT !.pc = "cs_cleanup"]]
    BY <1>7 DEF CreateSubnetObject
  <2>2. q.pc = "cs_subnet" /\ q.sub \in SubnetNames
    BY <1>7, <1>0 DEF CreateSubnetObject, WellFormed, CsPcs
  <2>3. NextL3(q) \in GoodRequest
    BY <1>0, <2>2, NextL3Good DEF CsPcs
  <2>4. [q EXCEPT !.pc = "cs_cleanup"] \in GoodRequest
    <3>1. [q EXCEPT !.pc = "cs_cleanup"] \in Request
      BY <1>0, Zenon DEF Request, Pcs, CsPcs
    <3>2. WellFormed([q EXCEPT !.pc = "cs_cleanup"])
      BY <1>0, <2>2 DEF Request, WellFormed, CsPcs, DsPcs
    <3> QED BY <3>1, <3>2 DEF GoodRequest
  <2>5. req' \in [Requests -> Request] /\ CallTree'
    BY <2>1, <2>3, <2>4, UpdateGood
  <2>6. NewSubnet(r) \in SubnetObj
    <3>1. SubUid(r, q.idx) \in Uids
      BY <1>0 DEF Request, SubUid, Uids
    <3>2. q.found \in FoundNet \union {None}
      BY <1>0 DEF Request
    <3> QED BY <3>1, <3>2 DEF NewSubnet, SubnetObj, FoundNet
  <2>7. /\ subnet' \in [SubnetNames -> SubnetObj \union {None}]
        /\ tainted' \subseteq SubnetNames
    BY <2>1, <2>2, <2>6 DEF TypeOK
  <2>8. faults' \in 0..MaxFaults
    BY <2>1, ChargeTyped
  <2> QED BY <1>7, <2>5, <2>7, <2>8 DEF CreateSubnetObject, TypeOK, caches
<1>8. CASE CleanupNetAttach(r)
  <2>1. PICK o \in Outcomes(FALSE) :
          /\ Charge(o, FALSE)
          /\ nad' = IF o = "fail" THEN nad ELSE nad \ {q.sub}
          /\ req' = [req EXCEPT ![r] = CreateSubnetFailed(q, "err")]
    BY <1>8 DEF CleanupNetAttach
  <2>2. CreateSubnetFailed(q, "err") \in GoodRequest
    BY <1>8, <1>0, CreateSubnetFailedGood DEF CleanupNetAttach, CsPcs, Results
  <2>3. req' \in [Requests -> Request] /\ CallTree'
    BY <2>1, <2>2, UpdateGood
  <2>4. faults' \in 0..MaxFaults
    BY <2>1, ChargeTyped
  <2> QED BY <1>8, <2>1, <2>3, <2>4 DEF CleanupNetAttach, TypeOK, caches
<1>9. CASE DeleteSubnetGet(r)
  <2>1. q.pc = "dn_loop"
    BY <1>9 DEF DeleteSubnetGet
  <2>2. ASSUME NEW s \in SubnetNames, NEW u \in q.todo,
               req' = [req EXCEPT ![r] = [q EXCEPT !.pc = "ds_subnet",
                                  !.sub = s, !.todo = q.todo \ {u}]]
        PROVE  TypeInv'
    <3> DEFINE rest == q.todo \ {u}
               p == [q EXCEPT !.pc = "ds_subnet", !.sub = s, !.todo = rest]
    <3>1. rest \in SUBSET Uids
      BY <1>0 DEF Request
    <3>2. req' = [req EXCEPT ![r] = p]
      BY <2>2
    <3> HIDE DEF rest
    <3>3. p \in Request
      BY <1>0, <3>1, Zenon DEF Request, Pcs, DsPcs
    <3>4. WellFormed(p)
      BY <1>0, <2>1 DEF Request, WellFormed, CsPcs, DsPcs
    <3>5. p \in GoodRequest
      BY <3>3, <3>4 DEF GoodRequest
    <3> HIDE DEF p
    <3> QED BY <1>9, <3>2, <3>5, UpdateGood DEF DeleteSubnetGet, TypeOK, api, caches
  <2>3. ASSUME req' = [req EXCEPT ![r] = DeleteFailed(q, "notfound")]
        PROVE  TypeInv'
    <3>1. DeleteFailed(q, "notfound") \in GoodRequest
      BY <1>0, <2>1, DeleteFailedGood DEF DsPcs, Results
    <3> QED BY <1>9, <2>3, <3>1, UpdateGood DEF DeleteSubnetGet, TypeOK, api, caches
  <2> QED BY <1>9, <2>2, <2>3 DEF DeleteSubnetGet
<1>10. CASE DeleteSubnetObject(r)
  <2>1. PICK o \in Outcomes(q.cancelled) :
          /\ Charge(o, q.cancelled)
          /\ subnet' = IF o = "fail" THEN subnet
                       ELSE [subnet EXCEPT ![q.sub] = None]
          /\ req' = [req EXCEPT ![r] =
                IF Deleted(o, subnet[q.sub] # None)
                THEN SubnetDeleted(q)
                ELSE DeleteFailed(q, DeleteError(o))]
    BY <1>10 DEF DeleteSubnetObject
  <2>2. q.pc = "ds_subnet" /\ q.sub \in SubnetNames
    BY <1>10, <1>0 DEF DeleteSubnetObject, WellFormed, DsPcs
  <2>3. DeleteFailed(q, DeleteError(o)) \in GoodRequest
    BY <1>0, <2>2, DeleteFailedGood DEF DsPcs, Results, DeleteError
  <2>4. [q EXCEPT !.pc = "ds_nad"] \in GoodRequest
    <3>1. [q EXCEPT !.pc = "ds_nad"] \in Request
      BY <1>0, Zenon DEF Request, Pcs, DsPcs
    <3>2. WellFormed([q EXCEPT !.pc = "ds_nad"])
      BY <1>0, <2>2 DEF Request, WellFormed, CsPcs, DsPcs
    <3> QED BY <3>1, <3>2 DEF GoodRequest
  <2>5. req' \in [Requests -> Request] /\ CallTree'
    BY <2>1, <2>3, <2>4, UpdateGood DEF SubnetDeleted
  <2>6. faults' \in 0..MaxFaults
    BY <2>1, ChargeTyped
  <2> QED BY <1>10, <2>1, <2>5, <2>6 DEF DeleteSubnetObject, TypeOK, caches
<1>11. CASE DeleteNetAttach(r)
  <2>1. PICK o \in Outcomes(q.cancelled) :
          /\ Charge(o, q.cancelled)
          /\ nad' = IF o = "fail" THEN nad ELSE nad \ {q.sub}
          /\ req' = [req EXCEPT ![r] =
                IF Deleted(o, q.sub \in nad)
                THEN DeleteSubnetDone(q) ELSE DeleteFailed(q, DeleteError(o))]
    BY <1>11 DEF DeleteNetAttach
  <2>2. q.pc = "ds_nad"
    BY <1>11 DEF DeleteNetAttach
  <2>3. /\ DeleteFailed(q, DeleteError(o)) \in GoodRequest
        /\ DeleteSubnetDone(q) \in GoodRequest
    BY <1>0, <2>2, DeleteFailedGood, DeleteSubnetDoneGood
       DEF DsPcs, Results, DeleteError
  <2>4. req' \in [Requests -> Request] /\ CallTree'
    BY <2>1, <2>3, UpdateGood
  <2>5. faults' \in 0..MaxFaults
    BY <2>1, ChargeTyped
  <2> QED BY <1>11, <2>1, <2>4, <2>5 DEF DeleteNetAttach, TypeOK, caches
<1>12. CASE DeleteNetworkObject(r)
  <2>1. PICK o \in Outcomes(q.cancelled) :
          /\ Charge(o, q.cancelled)
          /\ net' = IF o = "fail" THEN net
                    ELSE [net EXCEPT ![q.found.kind][q.found.name] = None]
          /\ req' = [req EXCEPT ![r] =
                IF Deleted(o, net[q.found.kind][q.found.name] # None)
                THEN DeleteNetworkDone(q)
                ELSE DeleteFailed(q, DeleteError(o))]
    BY <1>12 DEF DeleteNetworkObject
  <2>2. q.pc = "dn_loop"
    BY <1>12 DEF DeleteNetworkObject
  <2>3. /\ DeleteFailed(q, DeleteError(o)) \in GoodRequest
        /\ DeleteNetworkDone(q) \in GoodRequest
    BY <1>0, <2>2, DeleteFailedGood, FinishGood
       DEF DsPcs, Results, DeleteError, DeleteNetworkDone
  <2>4. req' \in [Requests -> Request] /\ CallTree'
    BY <2>1, <2>3, UpdateGood
  <2>5. faults' \in 0..MaxFaults
    BY <2>1, ChargeTyped
  <2>6. net' \in [Kinds -> [Names -> NetObj \union {None}]]
    BY <2>1 DEF TypeOK
  <2> QED BY <1>12, <2>4, <2>5, <2>6 DEF DeleteNetworkObject, TypeOK, caches
<1> QED BY <1>1, <1>2, <1>3, <1>4, <1>5, <1>6, <1>7, <1>8, <1>9, <1>10, <1>11, <1>12 DEF Step

\* Watches, the controller, cancellations and crashes keep types too.
LEMMA EnvironmentTyped ==
    ASSUME TypeInv, Sync \/ Crash \/ \E r \in Requests : Cancel(r)
    PROVE  TypeInv'
<1> USE DEF TypeInv
<1>0. req \in [Requests -> GoodRequest]
  BY RequestsGood
<1>1. ASSUME NEW k \in Kinds, WatchNetworks(k)
      PROVE  TypeInv'
  BY <1>1 DEF WatchNetworks, TypeOK, CallTree, api
<1>2. CASE WatchSubnets
  BY <1>2 DEF WatchSubnets, TypeOK, CallTree, api
<1>3. ASSUME NEW k \in Kinds, NEW n \in Names, Reconcile(k, n)
      PROVE  TypeInv'
  <2>1. net[k][n] \in NetObj /\ Attached(k, n) \in SUBSET SubnetNames
    BY <1>3 DEF Reconcile, TypeOK, Attached
  <2>2. [net[k][n] EXCEPT !.subnets = Attached(k, n)] \in NetObj
    BY <2>1 DEF NetObj
  <2>3. net' = [net EXCEPT ![k] = [net[k] EXCEPT ![n] =
                    [net[k][n] EXCEPT !.subnets = Attached(k, n)]]]
    BY <1>3 DEF Reconcile
  <2>4. net' \in [Kinds -> [Names -> NetObj \union {None}]]
    BY <2>2, <2>3 DEF TypeOK
  <2> QED BY <1>3, <2>4 DEF Reconcile, TypeOK, CallTree, caches
<1>4. ASSUME NEW r \in Requests, Cancel(r)
      PROVE  TypeInv'
  <2> DEFINE p == [req[r] EXCEPT !.cancelled = TRUE]
  <2>1. req[r] \in Request /\ WellFormed(req[r]) /\ req[r].pc # "idle"
    BY <1>0, <1>4 DEF GoodRequest, Cancel, Running
  <2>2. p \in Request
    BY <2>1, Zenon DEF Request
  <2>3. WellFormed(p)
    BY <2>1 DEF Request, WellFormed
  <2>4. p \in GoodRequest
    BY <2>2, <2>3 DEF GoodRequest
  <2>5. req' = [req EXCEPT ![r] = p]
    BY <1>4 DEF Cancel
  <2>6. faults' \in 0..MaxFaults
    BY <1>4, ConstantsAssumption DEF Cancel, TypeOK
  <2> HIDE DEF p
  <2> QED BY <1>4, <2>4, <2>5, <2>6, UpdateGood DEF Cancel, TypeOK, api, caches
<1>5. CASE Crash
  <2>1. ASSUME NEW r \in Requests
        PROVE  Finish(req[r], "lost") \in GoodRequest
    BY <1>0, FinishGood DEF Results
  <2>2. req' \in [Requests -> GoodRequest]
    BY <1>0, <1>5, <2>1 DEF Crash
  <2>3. req' \in [Requests -> Request] /\ CallTree'
    BY <2>2 DEF GoodRequest, CallTree
  <2>4. faults' \in 0..MaxFaults
    BY <1>5, ConstantsAssumption DEF Crash, TypeOK
  <2> QED BY <1>5, <2>3, <2>4 DEF Crash, TypeOK, api
<1> QED BY <1>1, <1>2, <1>3, <1>4, <1>5 DEF Sync

\* Nothing exists and nothing has been called.
LEMMA InitTyped ==
    ASSUME Init
    PROVE  TypeInv
<1>1. req \in [Requests -> GoodRequest]
  BY IdleGood DEF Init
<1>2. req \in [Requests -> Request] /\ CallTree
  BY <1>1 DEF GoodRequest, CallTree
<1> QED BY <1>2, ConstantsAssumption DEF Init, TypeInv, TypeOK

(* TypeOK and CallTree are inductive: no handler leaves the call tree, and *)
(* no step leaves the types.                                               *)
THEOREM TypeCorrect == Spec => [](TypeOK /\ CallTree)
<1>1. Init => TypeInv
  BY InitTyped
<1>2. TypeInv /\ [Next]_vars => TypeInv'
  <2> SUFFICES ASSUME TypeInv, [Next]_vars PROVE TypeInv'
    OBVIOUS
  <2>1. CASE Next
    BY <2>1, CallTyped, StepTyped, EnvironmentTyped DEF Next
  <2>2. CASE UNCHANGED vars
    BY <2>2 DEF vars, TypeInv, TypeOK, CallTree
  <2> QED BY <2>1, <2>2
<1> QED BY <1>1, <1>2, PTL DEF Spec, TypeInv

-----------------------------------------------------------------------------
(* The NAD of a subnet name is a lock *)

\* Where the procedures go when they return, and under which context.
LEMMA Returns ==
    ASSUME NEW q \in Request, NEW res
    PROVE  /\ Finish(q, res).pc = "done"
           /\ ~Finish(q, res).cancelled
           /\ CreateSubnetFailed(q, res).pc \in {"dn_vpc", "done"}
           /\ CreateSubnetFailed(q, res).cancelled => q.cancelled
           /\ NextL3(q).pc \in {"cs_vpc", "done"}
           /\ NextL3(q).cancelled => q.cancelled
           /\ DeleteFailed(q, res).pc \in {"dn_loop", "done"}
           /\ DeleteFailed(q, res).cancelled => q.cancelled
           /\ DeleteSubnetDone(q).pc \in {"dn_loop", "done"}
           /\ DeleteSubnetDone(q).cancelled => q.cancelled
<1>1. \A x : Finish(q, x).pc = "done" /\ ~Finish(q, x).cancelled
  BY DEF Finish, Idle
<1>2. /\ CreateSubnetFailed(q, res).pc \in {"dn_vpc", "done"}
      /\ CreateSubnetFailed(q, res).cancelled => q.cancelled
  BY <1>1 DEF CreateSubnetFailed, Idle
<1>3. /\ NextL3(q).pc \in {"cs_vpc", "done"}
      /\ NextL3(q).cancelled => q.cancelled
  BY <1>1 DEF NextL3, Request
<1>4. /\ DeleteFailed(q, res).pc \in {"dn_loop", "done"}
      /\ DeleteFailed(q, res).cancelled => q.cancelled
  BY <1>1 DEF DeleteFailed, Request
<1>5. /\ DeleteSubnetDone(q).pc \in {"dn_loop", "done"}
      /\ DeleteSubnetDone(q).cancelled => q.cancelled
  BY <1>1 DEF DeleteSubnetDone, Request
<1> QED BY <1>1, <1>2, <1>3, <1>4, <1>5

\* As long as no fault is counted, every write gets its answer.
LEMMA NoFaultMeansOk ==
    ASSUME TypeOK, FaultsCounted, NEW r \in Requests,
           NEW c \in {req[r].cancelled, FALSE},
           NEW o \in Outcomes(c), Charge(o, c), faults' = 0
    PROVE  o = "ok" /\ faults = 0
<1>1. faults \in Nat
  BY DEF TypeOK
<1>2. CASE o = "ok"
  BY <1>2 DEF Charge
<1>3. CASE o # "ok" /\ ~c
  BY <1>1, <1>3 DEF Charge
<1>4. CASE o # "ok" /\ c
  <2>1. faults = 0
    BY <1>4 DEF Charge
  <2>2. ~req[r].cancelled
    BY <2>1 DEF FaultsCounted
  <2> QED BY <1>4, <2>2
<1> QED BY <1>2, <1>3, <1>4

(* A step of a handler that neither is nor becomes an owner and touches    *)
(* no Subnet and no NAD.                                                   *)
LEMMA QuietStep ==
    ASSUME TypeInv, NadInv, NEW r \in Requests, NEW p,
           req' = [req EXCEPT ![r] = p],
           req[r].pc \notin HoldPcs, p.pc \notin HoldPcs,
           p.cancelled => req[r].cancelled,
           faults' = 0 => faults = 0,
           UNCHANGED <<subnet, nad, tainted>>
    PROVE  NadInv'
<1>0. req \in [Requests -> Request]
  BY DEF TypeInv, TypeOK
<1>1. \A x \in Requests : \A s : Holds(x, s)' <=> Holds(x, s)
  BY <1>0 DEF Holds
<1>2. SubnetHasNad' /\ NadIsLock'
  BY <1>1 DEF NadInv, SubnetHasNad, NadIsLock
<1>3. NadLeaksOnlyByFault'
  BY <1>1 DEF NadInv, NadLeaksOnlyByFault
<1>4. FaultsCounted'
  BY <1>0 DEF NadInv, FaultsCounted
<1> QED BY <1>2, <1>3, <1>4 DEF NadInv

(* A step of handler r that concerns the single subnet name s it works on: *)
(* the invariant is preserved if it is preserved at s.                     *)
LEMMA FocusStep ==
    ASSUME TypeInv, NadInv, NEW r \in Requests, NEW p, NEW s \in SubnetNames,
           req' = [req EXCEPT ![r] = p],
           req[r].sub = s, p.pc \in HoldPcs => p.sub = s,
           p.cancelled => req[r].cancelled,
           faults' = 0 => faults = 0 /\ tainted' = tainted,
           tainted \subseteq tainted',
           \A x \in SubnetNames : x # s =>
                (x \in nad' <=> x \in nad) /\ subnet'[x] = subnet[x],
           nad' \subseteq SubnetNames,
           s \notin tainted' /\ subnet'[s] # None => s \in nad',
           s \notin tainted' => \A x \in Requests : Holds(x, s)' =>
                s \in nad' /\ subnet'[s] = None,
           s \notin tainted' /\ p.pc \in HoldPcs =>
                \A x \in Requests : Holds(x, s) => x = r,
           faults' = 0 /\ s \in nad' =>
                subnet'[s] # None \/ \E x \in Requests : Holds(x, s)'
    PROVE  NadInv'
<1>0. req \in [Requests -> Request]
  BY DEF TypeInv, TypeOK
<1>1. \A x \in Requests, y \in SubnetNames :
        (x # r \/ y # s) => (Holds(x, y)' <=> Holds(x, y))
  BY <1>0 DEF Holds
<1>2. Holds(r, s)' <=> p.pc \in HoldPcs
  BY <1>0 DEF Holds
<1>3. SubnetHasNad'
  BY DEF NadInv, SubnetHasNad
<1>4. NadIsLock'
  <2> SUFFICES ASSUME NEW y \in SubnetNames, y \notin tainted',
                      NEW x \in Requests, Holds(x, y)'
               PROVE  /\ y \in nad' /\ subnet'[y] = None
                      /\ \A z \in Requests : Holds(z, y)' => z = x
    BY DEF NadIsLock
  <2>1. CASE y # s
    <3>1. \A z \in Requests : Holds(z, y)' <=> Holds(z, y)
      BY <1>1, <2>1
    <3>2. /\ y \in nad /\ subnet[y] = None
          /\ \A z \in Requests : Holds(z, y) => z = x
      BY <3>1 DEF NadInv, NadIsLock
    <3> QED BY <2>1, <3>1, <3>2
  <2>2. CASE y = s
    <3>1. s \notin tainted
      BY <2>2
    <3>2. \A z, w \in Requests : Holds(z, s) /\ Holds(w, s) => z = w
      BY <3>1 DEF NadInv, NadIsLock
    <3>3. \A z \in Requests : Holds(z, s)' => z = x
      BY <1>1, <1>2, <2>2, <3>2
    <3> QED BY <2>2, <3>3
  <2> QED BY <2>1, <2>2
<1>5. NadLeaksOnlyByFault'
  <2> SUFFICES ASSUME faults' = 0, NEW y \in nad'
               PROVE  subnet'[y] # None \/ \E x \in Requests : Holds(x, y)'
    BY DEF NadLeaksOnlyByFault
  <2>1. CASE y # s
    <3>1. y \in SubnetNames /\ y \in nad /\ subnet'[y] = subnet[y]
      BY <2>1
    <3>2. subnet[y] # None \/ \E x \in Requests : Holds(x, y)
      BY <3>1 DEF NadInv, NadLeaksOnlyByFault
    <3> QED BY <1>1, <2>1, <3>1, <3>2
  <2>2. CASE y = s
    BY <2>2
  <2> QED BY <2>1, <2>2
<1>6. FaultsCounted'
  BY <1>0 DEF NadInv, FaultsCounted
<1> QED BY <1>3, <1>4, <1>5, <1>6 DEF NadInv


\* CreateSubnet takes the lock by creating the NAD.
LEMMA CreateNetAttachKeeps ==
    ASSUME TypeInv, NadInv, NEW r \in Requests, CreateNetAttach(r)
    PROVE  NadInv'
<1> DEFINE q == req[r]
<1>a. q \in GoodRequest
  BY RequestsGood
<1>b. PICK s \in SubnetNames : s = q.sub
  BY <1>a DEF CreateNetAttach, GoodRequest, WellFormed, CsPcs, DsPcs
<1>0. /\ q \in Request /\ q.pc = "cs_nad" /\ q.sub = s
      /\ req \in [Requests -> Request] /\ nad \subseteq SubnetNames
      /\ subnet \in [SubnetNames -> SubnetObj \union {None}]
      /\ TypeOK
  BY <1>a, <1>b DEF CreateNetAttach, GoodRequest, TypeInv, TypeOK
<1>1. /\ s \notin tainted /\ subnet[s] # None => s \in nad
      /\ s \notin tainted => \A x \in Requests : Holds(x, s) =>
            /\ s \in nad /\ subnet[s] = None
            /\ \A y \in Requests : Holds(y, s) => y = x
      /\ faults = 0 => tainted = {}
      /\ faults = 0 /\ s \in nad =>
            subnet[s] # None \/ \E x \in Requests : Holds(x, s)
  BY <1>0 DEF NadInv, SubnetHasNad, NadIsLock, NadLeaksOnlyByFault,
     FaultsCounted
<1>2. PICK o \in Outcomes(q.cancelled) :
        /\ Charge(o, q.cancelled)
        /\ nad' = IF o = "fail" THEN nad ELSE nad \union {q.sub}
        /\ req' = [req EXCEPT ![r] =
              IF q.sub \notin nad /\ o = "ok"
              THEN [q EXCEPT !.pc = "cs_subnet"]
              ELSE CreateSubnetFailed(q, "err")]
  BY DEF CreateNetAttach, NetAttachRefused
<1>3. UNCHANGED <<subnet, tainted>>
  BY DEF CreateNetAttach
<1>4. faults' = 0 => o = "ok" /\ faults = 0
  BY <1>0, <1>2, NoFaultMeansOk DEF NadInv
<1> DEFINE p == req'[r]
<1>5. req' = [req EXCEPT ![r] = p]
  BY <1>0, <1>2
<1>6. CASE s \notin nad /\ o = "ok"
  <2>1. p = [q EXCEPT !.pc = "cs_subnet"]
    BY <1>0, <1>2, <1>6
  <2>2. p.pc = "cs_subnet" /\ p.sub = s /\ p.cancelled = q.cancelled
    BY <1>0, <2>1 DEF Request
  <2> HIDE DEF p
  <2>3. Holds(r, s)'
    BY <1>0, <1>5, <2>2 DEF Holds, HoldPcs
  <2>4. \A x \in Requests : x # r => (Holds(x, s)' <=> Holds(x, s))
    BY <1>0, <1>5 DEF Holds
  <2>5. nad' = nad \union {s}
    BY <1>0, <1>2, <1>6
  <2> QED BY <1>0, <1>1, <1>3, <1>4, <1>5, <1>6, <2>2, <2>3, <2>4, <2>5, FocusStep
<1>7. CASE ~(s \notin nad /\ o = "ok")
  <2>1. p = CreateSubnetFailed(q, "err")
    BY <1>0, <1>2, <1>7
  <2>2. p.pc \notin HoldPcs /\ (p.cancelled => q.cancelled)
    BY <1>0, <2>1, Returns DEF HoldPcs
  <2> HIDE DEF p
  <2>3. \A x \in Requests : Holds(x, s)' <=> Holds(x, s)
    BY <1>0, <1>5, <2>2 DEF Holds, HoldPcs
  <2>4. nad' = nad \/ nad' = nad \union {s}
    BY <1>0, <1>2
  <2>5. o = "ok" => nad' = nad
    BY <1>0, <1>2, <1>7
  <2> QED BY <1>0, <1>1, <1>3, <1>4, <1>5, <2>2, <2>3, <2>4, <2>5, FocusStep
<1> QED BY <1>6, <1>7

\* CreateSubnet gives the lock to the Subnet it creates.
LEMMA CreateSubnetObjectKeeps ==
    ASSUME TypeInv, NadInv, NEW r \in Requests, CreateSubnetObject(r)
    PROVE  NadInv'
<1> DEFINE q == req[r]
<1>a. q \in GoodRequest
  BY RequestsGood
<1>b. PICK s \in SubnetNames : s = q.sub
  BY <1>a DEF CreateSubnetObject, GoodRequest, WellFormed, CsPcs, DsPcs
<1>0. /\ q \in Request /\ q.pc = "cs_subnet" /\ q.sub = s
      /\ req \in [Requests -> Request] /\ nad \subseteq SubnetNames
      /\ subnet \in [SubnetNames -> SubnetObj \union {None}]
      /\ TypeOK
  BY <1>a, <1>b DEF CreateSubnetObject, GoodRequest, TypeInv, TypeOK
<1>1. /\ s \notin tainted /\ subnet[s] # None => s \in nad
      /\ s \notin tainted => \A x \in Requests : Holds(x, s) =>
            /\ s \in nad /\ subnet[s] = None
            /\ \A y \in Requests : Holds(y, s) => y = x
      /\ faults = 0 => tainted = {}
      /\ faults = 0 /\ s \in nad =>
            subnet[s] # None \/ \E x \in Requests : Holds(x, s)
  BY <1>0 DEF NadInv, SubnetHasNad, NadIsLock, NadLeaksOnlyByFault,
     FaultsCounted
<1>2. PICK o \in Outcomes(q.cancelled) :
        /\ Charge(o, q.cancelled)
        /\ IF subnet[q.sub] = None /\ o # "fail"
           THEN /\ subnet' = [subnet EXCEPT ![q.sub] = NewSubnet(r)]
                /\ tainted' = IF o = "lost" THEN tainted \union {q.sub}
                                            ELSE tainted
           ELSE UNCHANGED <<subnet, tainted>>
        /\ req' = [req EXCEPT ![r] =
              IF subnet[q.sub] = None /\ o = "ok"
              THEN NextL3(q) ELSE [q EXCEPT !.pc = "cs_cleanup"]]
  BY DEF CreateSubnetObject
<1>3. UNCHANGED nad
  BY DEF CreateSubnetObject
<1>4. faults' = 0 => o = "ok" /\ faults = 0
  BY <1>0, <1>2, NoFaultMeansOk DEF NadInv
<1> DEFINE p == req'[r]
<1>5. req' = [req EXCEPT ![r] = p]
  BY <1>0, <1>2
<1>6. Holds(r, s)
  BY <1>0 DEF Holds, HoldPcs
<1>7. \A x \in SubnetNames : x # s => subnet'[x] = subnet[x]
  BY <1>0, <1>2
<1>8. CASE subnet[s] = None /\ o = "ok"
  <2>1. p = NextL3(q)
    BY <1>0, <1>2, <1>8
  <2>2. p.pc \notin HoldPcs /\ (p.cancelled => q.cancelled)
    BY <1>0, <2>1, Returns DEF HoldPcs
  <2> HIDE DEF p
  <2>3. ~Holds(r, s)'
    BY <1>0, <1>5, <2>2 DEF Holds
  <2>4. \A x \in Requests : x # r => (Holds(x, s)' <=> Holds(x, s))
    BY <1>0, <1>5 DEF Holds
  <2>5. subnet'[s] # None
    <3>1. NewSubnet(r) # None
      <4>1. q.found \in FoundNet \union {None} /\ SubUid(r, q.idx) \in Uids
        BY <1>0 DEF Request, SubUid, Uids
      <4>2. NewSubnet(r) \in SubnetObj
        BY <4>1 DEF NewSubnet, SubnetObj, FoundNet
      <4> QED BY <4>2, ConstantsAssumption
    <3> QED BY <1>0, <1>2, <1>8, <3>1
  <2>6. tainted' = tainted
    BY <1>2, <1>8
  <2> QED BY <1>0, <1>1, <1>3, <1>4, <1>5, <1>6, <1>7, <2>2, <2>3, <2>4, <2>5,
             <2>6, FocusStep
<1>9. CASE ~(subnet[s] = None /\ o = "ok")
  <2>1. p = [q EXCEPT !.pc = "cs_cleanup"]
    BY <1>0, <1>2, <1>9
  <2>2. p.pc = "cs_cleanup" /\ p.sub = s /\ p.cancelled = q.cancelled
    BY <1>0, <2>1 DEF Request
  <2> HIDE DEF p
  <2>3. \A x \in Requests : Holds(x, s)' <=> Holds(x, s)
    BY <1>0, <1>5, <2>2 DEF Holds, HoldPcs
  <2>4. /\ tainted \subseteq tainted'
        /\ s \in tainted' \/ subnet' = subnet
        /\ o = "ok" => tainted' = tainted
    <3>1. o \in {"ok", "fail", "lost"}
      BY DEF Outcomes
    <3> QED BY <1>0, <1>2, <1>9, <3>1
  <2>5. faults' = 0 => FALSE
    BY <1>1, <1>4, <1>6, <1>9
  <2> QED BY <1>0, <1>1, <1>3, <1>5, <1>6, <1>7, <2>2, <2>3, <2>4, <2>5, FocusStep
<1> QED BY <1>8, <1>9

\* The cleanup of CreateSubnet releases the lock it holds.
LEMMA CleanupNetAttachKeeps ==
    ASSUME TypeInv, NadInv, NEW r \in Requests, CleanupNetAttach(r)
    PROVE  NadInv'
<1> DEFINE q == req[r]
<1>a. q \in GoodRequest
  BY RequestsGood
<1>b. PICK s \in SubnetNames : s = q.sub
  BY <1>a DEF CleanupNetAttach, GoodRequest, WellFormed, CsPcs, DsPcs
<1>0. /\ q \in Request /\ q.pc = "cs_cleanup" /\ q.sub = s
      /\ req \in [Requests -> Request] /\ nad \subseteq SubnetNames
      /\ subnet \in [SubnetNames -> SubnetObj \union {None}]
      /\ TypeOK
  BY <1>a, <1>b DEF CleanupNetAttach, GoodRequest, TypeInv, TypeOK
<1>1. /\ s \notin tainted /\ subnet[s] # None => s \in nad
      /\ s \notin tainted => \A x \in Requests : Holds(x, s) =>
            /\ s \in nad /\ subnet[s] = None
            /\ \A y \in Requests : Holds(y, s) => y = x
      /\ faults = 0 => tainted = {}
      /\ faults = 0 /\ s \in nad =>
            subnet[s] # None \/ \E x \in Requests : Holds(x, s)
  BY <1>0 DEF NadInv, SubnetHasNad, NadIsLock, NadLeaksOnlyByFault,
     FaultsCounted
<1>2. PICK o \in Outcomes(FALSE) :
        /\ Charge(o, FALSE)
        /\ nad' = IF o = "fail" THEN nad ELSE nad \ {q.sub}
        /\ req' = [req EXCEPT ![r] = CreateSubnetFailed(q, "err")]
  BY DEF CleanupNetAttach
<1>3. UNCHANGED <<subnet, tainted>>
  BY DEF CleanupNetAttach
<1>4. faults' = 0 => o = "ok" /\ faults = 0
  BY <1>0, <1>2, NoFaultMeansOk DEF NadInv
<1> DEFINE p == req'[r]
<1>5. req' = [req EXCEPT ![r] = p]
  BY <1>0, <1>2
<1>6. Holds(r, s)
  BY <1>0 DEF Holds, HoldPcs
<1>7. p.pc \notin HoldPcs /\ (p.cancelled => q.cancelled)
  <2>1. p = CreateSubnetFailed(q, "err")
    BY <1>0, <1>2
  <2> QED BY <1>0, <2>1, Returns DEF HoldPcs
<1> HIDE DEF p
<1>8. ~Holds(r, s)'
  BY <1>0, <1>5, <1>7 DEF Holds
<1>9. \A x \in Requests : x # r => (Holds(x, s)' <=> Holds(x, s))
  BY <1>0, <1>5 DEF Holds
<1>10. /\ nad' = nad \/ nad' = nad \ {s}
       /\ o = "ok" => nad' = nad \ {s}
  BY <1>0, <1>2
<1> QED BY <1>0, <1>1, <1>3, <1>4, <1>5, <1>6, <1>7, <1>8, <1>9, <1>10, FocusStep

\* DeleteSubnet takes the lock back by deleting the Subnet.
LEMMA DeleteSubnetObjectKeeps ==
    ASSUME TypeInv, NadInv, NEW r \in Requests, DeleteSubnetObject(r)
    PROVE  NadInv'
<1> DEFINE q == req[r]
<1>a. q \in GoodRequest
  BY RequestsGood
<1>b. PICK s \in SubnetNames : s = q.sub
  BY <1>a DEF DeleteSubnetObject, GoodRequest, WellFormed, CsPcs, DsPcs
<1>0. /\ q \in Request /\ q.pc = "ds_subnet" /\ q.sub = s
      /\ req \in [Requests -> Request] /\ nad \subseteq SubnetNames
      /\ subnet \in [SubnetNames -> SubnetObj \union {None}]
      /\ TypeOK
  BY <1>a, <1>b DEF DeleteSubnetObject, GoodRequest, TypeInv, TypeOK
<1>1. /\ s \notin tainted /\ subnet[s] # None => s \in nad
      /\ s \notin tainted => \A x \in Requests : Holds(x, s) =>
            /\ s \in nad /\ subnet[s] = None
            /\ \A y \in Requests : Holds(y, s) => y = x
      /\ faults = 0 => tainted = {}
      /\ faults = 0 /\ s \in nad =>
            subnet[s] # None \/ \E x \in Requests : Holds(x, s)
  BY <1>0 DEF NadInv, SubnetHasNad, NadIsLock, NadLeaksOnlyByFault,
     FaultsCounted
<1>2. PICK o \in Outcomes(q.cancelled) :
        /\ Charge(o, q.cancelled)
        /\ subnet' = IF o = "fail" THEN subnet
                     ELSE [subnet EXCEPT ![q.sub] = None]
        /\ req' = [req EXCEPT ![r] =
              IF Deleted(o, subnet[q.sub] # None)
              THEN SubnetDeleted(q)
              ELSE DeleteFailed(q, DeleteError(o))]
  BY DEF DeleteSubnetObject
<1>3. UNCHANGED <<nad, tainted>>
  BY DEF DeleteSubnetObject
<1>4. faults' = 0 => o = "ok" /\ faults = 0
  BY <1>0, <1>2, NoFaultMeansOk DEF NadInv
<1> DEFINE p == req'[r]
<1>5. req' = [req EXCEPT ![r] = p]
  BY <1>0, <1>2
<1>6. /\ \A x \in SubnetNames : x # s => subnet'[x] = subnet[x]
      /\ subnet'[s] = IF o = "fail" THEN subnet[s] ELSE None
  BY <1>0, <1>2
<1>7. CASE subnet[s] # None /\ o = "ok"
  <2>1. p = [q EXCEPT !.pc = "ds_nad"]
    BY <1>0, <1>2, <1>7 DEF Deleted, SubnetDeleted
  <2>2. p.pc = "ds_nad" /\ p.sub = s /\ p.cancelled = q.cancelled
    BY <1>0, <2>1 DEF Request
  <2> HIDE DEF p
  <2>3. Holds(r, s)'
    BY <1>0, <1>5, <2>2 DEF Holds, HoldPcs
  <2>4. \A x \in Requests : x # r => (Holds(x, s)' <=> Holds(x, s))
    BY <1>0, <1>5 DEF Holds
  <2> QED BY <1>0, <1>1, <1>3, <1>4, <1>5, <1>6, <1>7, <2>2, <2>3, <2>4, FocusStep
<1>8. CASE ~(subnet[s] # None /\ o = "ok")
  <2>1. p = DeleteFailed(q, DeleteError(o))
    BY <1>0, <1>2, <1>8 DEF Deleted, SubnetDeleted
  <2>2. p.pc \notin HoldPcs /\ (p.cancelled => q.cancelled)
    BY <1>0, <2>1, Returns DEF HoldPcs
  <2> HIDE DEF p
  <2>3. \A x \in Requests : Holds(x, s)' <=> Holds(x, s)
    BY <1>0, <1>5, <2>2 DEF Holds, HoldPcs
  <2> QED BY <1>0, <1>1, <1>3, <1>4, <1>5, <1>6, <1>8, <2>2, <2>3, FocusStep
<1> QED BY <1>7, <1>8

\* DeleteSubnet releases the lock by deleting the NAD.
LEMMA DeleteNetAttachKeeps ==
    ASSUME TypeInv, NadInv, NEW r \in Requests, DeleteNetAttach(r)
    PROVE  NadInv'
<1> DEFINE q == req[r]
<1>a. q \in GoodRequest
  BY RequestsGood
<1>b. PICK s \in SubnetNames : s = q.sub
  BY <1>a DEF DeleteNetAttach, GoodRequest, WellFormed, CsPcs, DsPcs
<1>0. /\ q \in Request /\ q.pc = "ds_nad" /\ q.sub = s
      /\ req \in [Requests -> Request] /\ nad \subseteq SubnetNames
      /\ subnet \in [SubnetNames -> SubnetObj \union {None}]
      /\ TypeOK
  BY <1>a, <1>b DEF DeleteNetAttach, GoodRequest, TypeInv, TypeOK
<1>1. /\ s \notin tainted /\ subnet[s] # None => s \in nad
      /\ s \notin tainted => \A x \in Requests : Holds(x, s) =>
            /\ s \in nad /\ subnet[s] = None
            /\ \A y \in Requests : Holds(y, s) => y = x
      /\ faults = 0 => tainted = {}
      /\ faults = 0 /\ s \in nad =>
            subnet[s] # None \/ \E x \in Requests : Holds(x, s)
  BY <1>0 DEF NadInv, SubnetHasNad, NadIsLock, NadLeaksOnlyByFault,
     FaultsCounted
<1>2. PICK o \in Outcomes(q.cancelled) :
        /\ Charge(o, q.cancelled)
        /\ nad' = IF o = "fail" THEN nad ELSE nad \ {q.sub}
        /\ req' = [req EXCEPT ![r] =
              IF Deleted(o, q.sub \in nad)
              THEN DeleteSubnetDone(q) ELSE DeleteFailed(q, DeleteError(o))]
  BY DEF DeleteNetAttach
<1>3. UNCHANGED <<subnet, tainted>>
  BY DEF DeleteNetAttach
<1>4. faults' = 0 => o = "ok" /\ faults = 0
  BY <1>0, <1>2, NoFaultMeansOk DEF NadInv
<1> DEFINE p == req'[r]
<1>5. req' = [req EXCEPT ![r] = p]
  BY <1>0, <1>2
<1>6. Holds(r, s)
  BY <1>0 DEF Holds, HoldPcs
<1>7. p.pc \notin HoldPcs /\ (p.cancelled => q.cancelled)
  <2>1. p = DeleteSubnetDone(q) \/ p = DeleteFailed(q, DeleteError(o))
    BY <1>0, <1>2
  <2>2. CASE p = DeleteSubnetDone(q)
    BY <1>0, <2>2, Returns DEF HoldPcs
  <2>3. CASE p = DeleteFailed(q, DeleteError(o))
    BY <1>0, <2>3, Returns DEF HoldPcs
  <2> QED BY <2>1, <2>2, <2>3
<1> HIDE DEF p
<1>8. ~Holds(r, s)'
  BY <1>0, <1>5, <1>7 DEF Holds
<1>9. \A x \in Requests : x # r => (Holds(x, s)' <=> Holds(x, s))
  BY <1>0, <1>5 DEF Holds
<1>10. /\ nad' = nad \/ nad' = nad \ {s}
       /\ o = "ok" => nad' = nad \ {s}
  BY <1>0, <1>2
<1> QED BY <1>0, <1>1, <1>3, <1>4, <1>5, <1>6, <1>7, <1>8, <1>9, <1>10, FocusStep

\* The steps of a handler that concern no subnet name.
QuietActions(r) ==
    \/ Call(r) \/ CreateNetworkObject(r)
    \/ CreateSubnetGetOverlay(r) \/ CreateSubnetGetUnderlay(r)
    \/ DeleteNetworkGetOverlay(r) \/ DeleteNetworkGetUnderlay(r)
    \/ DeleteSubnetGet(r) \/ DeleteNetworkObject(r)

\* Starting, looking up, and writing a Vpc or Vlan touch no lock.
LEMMA QuietFrame ==
    ASSUME TypeInv, NadInv, NEW r \in Requests, QuietActions(r)
    PROVE  /\ req[r].pc \notin HoldPcs /\ req'[r].pc \notin HoldPcs
           /\ req' = [req EXCEPT ![r] = req'[r]]
           /\ req'[r].cancelled => req[r].cancelled
           /\ faults' = 0 => faults = 0
           /\ UNCHANGED <<subnet, nad, tainted>>
<1> DEFINE q == req[r]
           p == req'[r]
<1> USE DEF QuietActions
<1>0. q \in Request /\ req \in [Requests -> Request] /\ TypeOK
  BY DEF TypeInv, TypeOK
<1>1. ASSUME q.pc \notin HoldPcs, p.pc \notin HoldPcs,
             req' = [req EXCEPT ![r] = p], p.cancelled => q.cancelled,
             faults' = 0 => faults = 0, UNCHANGED <<subnet, nad, tainted>>
      PROVE  /\ q.pc \notin HoldPcs /\ p.pc \notin HoldPcs
             /\ req' = [req EXCEPT ![r] = p]
             /\ p.cancelled => q.cancelled
             /\ faults' = 0 => faults = 0
             /\ UNCHANGED <<subnet, nad, tainted>>
  BY <1>1
<1>2. \A res : /\ Finish(q, res).pc \notin HoldPcs
               /\ ~Finish(q, res).cancelled
               /\ CreateSubnetFailed(q, res).pc \notin HoldPcs
               /\ CreateSubnetFailed(q, res).cancelled => q.cancelled
               /\ NextL3(q).pc \notin HoldPcs
               /\ NextL3(q).cancelled => q.cancelled
               /\ DeleteFailed(q, res).pc \notin HoldPcs
               /\ DeleteFailed(q, res).cancelled => q.cancelled
  BY <1>0, Returns DEF HoldPcs
<1>3. CASE Call(r)
  <2>1. /\ q.pc = "idle" /\ UNCHANGED <<subnet, nad, tainted, faults>>
    BY <1>3 DEF Call, CallCreateNetwork, CallCreateSubnet, CallTerminate, Reject,
       api
  <2>2. CASE CallCreateNetwork(r)
    <3>1. p.pc = "create" /\ ~p.cancelled /\ req' = [req EXCEPT ![r] = p]
      BY <1>0, <2>2 DEF CallCreateNetwork, Idle
    <3> QED BY <1>1, <2>1, <3>1 DEF HoldPcs
  <2>3. CASE CallCreateSubnet(r)
    <3>1. /\ p.pc \in {"cs_nad", "cs_vpc"} /\ ~p.cancelled
          /\ req' = [req EXCEPT ![r] = p]
      BY <1>0, <2>3 DEF CallCreateSubnet, Idle
    <3> QED BY <1>1, <2>1, <3>1 DEF HoldPcs
  <2>4. CASE CallTerminate(r)
    <3>1. p.pc = "dn_vpc" /\ ~p.cancelled /\ req' = [req EXCEPT ![r] = p]
      BY <1>0, <2>4 DEF CallTerminate, Idle
    <3> QED BY <1>1, <2>1, <3>1 DEF HoldPcs
  <2>5. CASE Reject(r)
    <3>1. p.pc = "done" /\ ~p.cancelled /\ req' = [req EXCEPT ![r] = p]
      BY <1>0, <2>5 DEF Reject, Finish, Idle
    <3> QED BY <1>1, <2>1, <3>1 DEF HoldPcs
  <2> QED BY <1>3, <2>2, <2>3, <2>4, <2>5 DEF Call
<1>4. CASE CreateNetworkObject(r)
  <2>1. PICK o \in Outcomes(q.cancelled) :
          /\ Charge(o, q.cancelled)
          /\ req' = [req EXCEPT ![r] =
                IF net[q.kind][q.name] = None /\ o = "ok"
                THEN NextL3(q) ELSE Finish(q, "err")]
    BY <1>4 DEF CreateNetworkObject
  <2>2. q.pc = "create" /\ UNCHANGED <<subnet, nad, tainted>>
    BY <1>4 DEF CreateNetworkObject
  <2>3. faults' = 0 => faults = 0
    BY <1>0, <2>1, NoFaultMeansOk DEF NadInv
  <2>4. /\ p = NextL3(q) \/ p = Finish(q, "err")
        /\ req' = [req EXCEPT ![r] = p]
    BY <1>0, <2>1
  <2>5. p.pc \notin HoldPcs /\ (p.cancelled => q.cancelled)
    BY <1>2, <2>4
  <2> QED BY <1>1, <2>2, <2>3, <2>4, <2>5 DEF HoldPcs
<1>5. CASE CreateSubnetGetOverlay(r) \/ CreateSubnetGetUnderlay(r)
  <2>1. /\ q.pc \in {"cs_vpc", "cs_vlan"}
        /\ UNCHANGED <<subnet, nad, tainted, faults>>
    BY <1>5 DEF CreateSubnetGetOverlay, CreateSubnetGetUnderlay, api
  <2>2. /\ req' = [req EXCEPT ![r] = p]
        /\ \/ \E k \in Kinds, n \in Names : p = CreateSubnetIn(q, k, n)
           \/ p = [q EXCEPT !.pc = "cs_vlan"]
           \/ p = CreateSubnetFailed(q, "notfound")
    BY <1>0, <1>5 DEF CreateSubnetGetOverlay, CreateSubnetGetUnderlay,
       GetNetwork, Kinds
  <2>3. \A k \in Kinds, n \in Names :
          /\ CreateSubnetIn(q, k, n).pc \notin HoldPcs
          /\ CreateSubnetIn(q, k, n).cancelled => q.cancelled
    BY <1>0, <1>2 DEF CreateSubnetIn, HoldPcs, Request
  <2>4. p.pc \notin HoldPcs /\ (p.cancelled => q.cancelled)
    <3> HIDE DEF p
    <3>1. CASE \E k \in Kinds, n \in Names : p = CreateSubnetIn(q, k, n)
      BY <2>3, <3>1
    <3>2. CASE p = [q EXCEPT !.pc = "cs_vlan"]
      BY <1>0, <3>2 DEF Request, HoldPcs
    <3>3. CASE p = CreateSubnetFailed(q, "notfound")
      BY <1>2, <3>3
    <3> QED BY <2>2, <3>1, <3>2, <3>3
  <2> QED BY <1>1, <2>1, <2>2, <2>4 DEF HoldPcs
<1>6. CASE DeleteNetworkGetOverlay(r) \/ DeleteNetworkGetUnderlay(r)
  <2>1. /\ q.pc \in {"dn_vpc", "dn_vlan"}
        /\ UNCHANGED <<subnet, nad, tainted, faults>>
    BY <1>6 DEF DeleteNetworkGetOverlay, DeleteNetworkGetUnderlay, api
  <2>2. /\ req' = [req EXCEPT ![r] = p]
        /\ \/ \E k \in Kinds, n \in Names : p = DeleteNetworkIn(q, k, n)
           \/ p = [q EXCEPT !.pc = "dn_vlan"]
           \/ p = DeleteFailed(q, "notfound")
    BY <1>0, <1>6 DEF DeleteNetworkGetOverlay, DeleteNetworkGetUnderlay,
       GetNetwork, Kinds
  <2>3. \A k \in Kinds, n \in Names :
          /\ DeleteNetworkIn(q, k, n).pc \notin HoldPcs
          /\ DeleteNetworkIn(q, k, n).cancelled => q.cancelled
    BY <1>0 DEF DeleteNetworkIn, HoldPcs, Request
  <2>4. p.pc \notin HoldPcs /\ (p.cancelled => q.cancelled)
    <3> HIDE DEF p
    <3>1. CASE \E k \in Kinds, n \in Names : p = DeleteNetworkIn(q, k, n)
      BY <2>3, <3>1
    <3>2. CASE p = [q EXCEPT !.pc = "dn_vlan"]
      BY <1>0, <3>2 DEF Request, HoldPcs
    <3>3. CASE p = DeleteFailed(q, "notfound")
      BY <1>2, <3>3
    <3> QED BY <2>2, <3>1, <3>2, <3>3
  <2> QED BY <1>1, <2>1, <2>2, <2>4 DEF HoldPcs
<1>7. CASE DeleteSubnetGet(r)
  <2>1. q.pc = "dn_loop" /\ UNCHANGED <<subnet, nad, tainted, faults>>
    BY <1>7 DEF DeleteSubnetGet, api
  <2>2. /\ req' = [req EXCEPT ![r] = p]
        /\ \/ \E s \in SubnetNames, u \in q.todo :
                p = [q EXCEPT !.pc = "ds_subnet", !.sub = s, !.todo = q.todo \ {u}]
           \/ p = DeleteFailed(q, "notfound")
    BY <1>0, <1>7 DEF DeleteSubnetGet
  <2>3. p.pc \notin HoldPcs /\ (p.cancelled => q.cancelled)
    <3> HIDE DEF p
    <3>1. CASE \E s \in SubnetNames, u \in q.todo :
                p = [q EXCEPT !.pc = "ds_subnet", !.sub = s, !.todo = q.todo \ {u}]
      BY <1>0, <3>1 DEF Request, HoldPcs
    <3>2. CASE p = DeleteFailed(q, "notfound")
      BY <1>2, <3>2
    <3> QED BY <2>2, <3>1, <3>2
  <2> QED BY <1>1, <2>1, <2>2, <2>3 DEF HoldPcs
<1>8. CASE DeleteNetworkObject(r)
  <2>1. PICK o \in Outcomes(q.cancelled) :
          /\ Charge(o, q.cancelled)
          /\ req' = [req EXCEPT ![r] =
                IF Deleted(o, net[q.found.kind][q.found.name] # None)
                THEN DeleteNetworkDone(q)
                ELSE DeleteFailed(q, DeleteError(o))]
    BY <1>8 DEF DeleteNetworkObject
  <2>2. q.pc = "dn_loop" /\ UNCHANGED <<subnet, nad, tainted>>
    BY <1>8 DEF DeleteNetworkObject
  <2>3. faults' = 0 => faults = 0
    BY <1>0, <2>1, NoFaultMeansOk DEF NadInv
  <2>4. /\ p = DeleteNetworkDone(q) \/ p = DeleteFailed(q, DeleteError(o))
        /\ req' = [req EXCEPT ![r] = p]
    BY <1>0, <2>1
  <2>5. p.pc \notin HoldPcs /\ (p.cancelled => q.cancelled)
    BY <1>2, <2>4 DEF DeleteNetworkDone
  <2> QED BY <1>1, <2>2, <2>3, <2>4, <2>5 DEF HoldPcs
<1> QED BY <1>3, <1>4, <1>5, <1>6, <1>7, <1>8

\* Hence they keep it.
LEMMA QuietKeeps ==
    ASSUME TypeInv, NadInv, NEW r \in Requests, QuietActions(r)
    PROVE  NadInv'
<1> DEFINE p == req'[r]
<1>1. /\ req[r].pc \notin HoldPcs /\ p.pc \notin HoldPcs
      /\ req' = [req EXCEPT ![r] = p]
      /\ p.cancelled => req[r].cancelled
      /\ faults' = 0 => faults = 0
      /\ UNCHANGED <<subnet, nad, tainted>>
  BY QuietFrame
<1> HIDE DEF p
<1> QED BY <1>1, QuietStep

\* The environment touches no lock; a crash drops every owner at once.
LEMMA EnvironmentKeeps ==
    ASSUME TypeInv, NadInv, Sync \/ Crash \/ \E r \in Requests : Cancel(r)
    PROVE  NadInv'
<1>0. req \in [Requests -> Request] /\ faults \in Nat
  BY DEF TypeInv, TypeOK
<1>1. CASE Sync
  <2>1. UNCHANGED <<subnet, nad, req, faults, tainted>>
    BY <1>1 DEF Sync, WatchNetworks, WatchSubnets, Reconcile, api
  <2> QED BY <2>1 DEF NadInv, SubnetHasNad, NadIsLock, NadLeaksOnlyByFault,
             FaultsCounted, Holds
<1>2. ASSUME NEW r \in Requests, Cancel(r)
      PROVE  NadInv'
  <2>1. /\ UNCHANGED <<subnet, nad, tainted>> /\ faults' = faults + 1
        /\ req' = [req EXCEPT ![r] = [req[r] EXCEPT !.cancelled = TRUE]]
    BY <1>2 DEF Cancel, api
  <2>2. \A x \in Requests : req'[x].pc = req[x].pc /\ req'[x].sub = req[x].sub
    BY <1>0, <2>1 DEF Request
  <2>3. \A x \in Requests : \A s : Holds(x, s)' <=> Holds(x, s)
    BY <2>2 DEF Holds
  <2>4. faults' # 0
    BY <1>0, <2>1
  <2> QED BY <2>1, <2>3, <2>4 DEF NadInv, SubnetHasNad, NadIsLock,
             NadLeaksOnlyByFault, FaultsCounted
<1>3. CASE Crash
  <2>1. UNCHANGED <<subnet, nad, tainted>> /\ faults' = faults + 1
    BY <1>3 DEF Crash, api
  <2>2. \A x \in Requests : req'[x].pc \in {"idle", "done"}
    BY <1>0, <1>3, Returns DEF Crash, Running
  <2>3. \A x \in Requests : \A s : ~Holds(x, s)'
    BY <2>2 DEF Holds, HoldPcs
  <2>4. faults' # 0
    BY <1>0, <2>1
  <2> QED BY <2>1, <2>3, <2>4 DEF NadInv, SubnetHasNad, NadIsLock,
             NadLeaksOnlyByFault, FaultsCounted
<1> QED BY <1>1, <1>2, <1>3

\* Every step of a handler keeps it.
LEMMA HandlerKeepsNads ==
    ASSUME TypeInv, NadInv, NEW r \in Requests, Call(r) \/ Step(r)
    PROVE  NadInv'
BY QuietKeeps, CreateNetAttachKeeps, CreateSubnetObjectKeeps,
   CleanupNetAttachKeeps, DeleteSubnetObjectKeeps, DeleteNetAttachKeeps
   DEF Step, QuietActions

\* So does a step that changes nothing.
LEMMA StutterKeepsNads ==
    ASSUME NadInv, UNCHANGED vars
    PROVE  NadInv'
BY DEF vars, NadInv, SubnetHasNad, NadIsLock, NadLeaksOnlyByFault, FaultsCounted, Holds

\* Before the first request there are no objects and no owners.
LEMMA InitNads == Init => NadInv
BY DEF Init, NadInv, SubnetHasNad, NadIsLock, NadLeaksOnlyByFault,
   FaultsCounted, Holds, HoldPcs, Idle

(* NadInv is inductive relative to TypeOK and CallTree. *)
LEMMA NadInvariant == Spec => []NadInv
<1>1. Init => NadInv
  BY InitNads
<1>2. TypeInv /\ NadInv /\ [Next]_vars => NadInv'
  <2> SUFFICES ASSUME TypeInv, NadInv, [Next]_vars PROVE NadInv'
    OBVIOUS
  <2>1. ASSUME NEW r \in Requests, Call(r) \/ Step(r) PROVE NadInv'
    BY <2>1, HandlerKeepsNads
  <2>2. CASE Sync \/ Crash \/ \E r \in Requests : Cancel(r)
    BY <2>2, EnvironmentKeeps
  <2>3. CASE UNCHANGED vars
    BY <2>3, StutterKeepsNads
  <2> QED BY <2>1, <2>2, <2>3 DEF Next
<1> QED BY <1>1, <1>2, TypeCorrect, PTL DEF Spec, TypeInv

(* Whatever handlers run, interleave, fail, are cancelled or crash: a live *)
(* subnet has its NetworkAttachmentDefinition, unless the reply to its     *)
(* Create was lost.                                                        *)
THEOREM SubnetsKeepTheirNad == Spec => []SubnetHasNad
BY NadInvariant, PTL DEF NadInv

\* Two handlers never both own the NAD of one subnet name.
THEOREM NadMutualExclusion == Spec => []NadIsLock
BY NadInvariant, PTL DEF NadInv

\* Without faults no interleaving leaks a NAD.
THEOREM NoLeakWithoutFault == Spec => []NadLeaksOnlyByFault
BY NadInvariant, PTL DEF NadInv

-----------------------------------------------------------------------------
(* KubeOvnNetwork implements SubnetSlot *)

\* In which phase a slot is, and who holds it, in terms of the objects.
SlotRow(s) ==
    /\ s \in tainted => SlotPhase(s) = "tainted" /\ SlotHolders(s) = {}
    /\ s \notin tainted =>
         /\ s \notin nad => SlotPhase(s) = "free" /\ SlotHolders(s) = {}
         /\ subnet[s] # None => SlotPhase(s) = "live" /\ SlotHolders(s) = {}
         /\ \A r \in Requests : Holds(r, s) =>
                SlotPhase(s) = "held" /\ SlotHolders(s) = {r}
         /\ s \in nad /\ subnet[s] = None
              /\ (\A r \in Requests : ~Holds(r, s)) =>
                SlotPhase(s) = "leaked" /\ SlotHolders(s) = {}

\* The refinement mapping is what SlotRow says whenever the NAD is a lock.
LEMMA SlotTable == NadInv => \A s \in SubnetNames : SlotRow(s)
<1> SUFFICES ASSUME NadInv, NEW s \in SubnetNames PROVE SlotRow(s)
  OBVIOUS
<1> USE DEF SlotRow
<1>1. CASE s \in tainted
  BY <1>1 DEF SlotPhase, SlotHolders
<1>2. CASE s \notin tainted
  <2>1. /\ subnet[s] # None => s \in nad
        /\ \A r \in Requests : Holds(r, s) =>
             /\ s \in nad /\ subnet[s] = None
             /\ \A p \in Requests : Holds(p, s) => p = r
    BY <1>2 DEF NadInv, SubnetHasNad, NadIsLock
  <2>2. SlotHolders(s) = {r \in Requests : Holds(r, s)}
    BY <1>2 DEF SlotHolders
  <2>3. \A r \in Requests : Holds(r, s) => SlotHolders(s) = {r}
    BY <2>1, <2>2
  <2>4. (\A r \in Requests : ~Holds(r, s)) => SlotHolders(s) = {}
    BY <2>2
  <2> QED BY <1>2, <2>1, <2>3, <2>4 DEF SlotPhase
<1> QED BY <1>1, <1>2

\* Where slot s stands before and after a step.
SlotGoes(s, from, fromWho, to, toWho) ==
    /\ SlotPhase(s) = from /\ SlotHolders(s) = fromWho
    /\ SlotPhase(s)' = to /\ SlotHolders(s)' = toWho

\* A slot whose objects and holders a step leaves alone does not move.
LEMMA SlotRests ==
    ASSUME NEW s \in SubnetNames,
           s \in tainted' <=> s \in tainted, s \in nad' <=> s \in nad,
           subnet'[s] = subnet[s],
           \A r \in Requests : Holds(r, s)' <=> Holds(r, s)
    PROVE  SlotPhase(s)' = SlotPhase(s) /\ SlotHolders(s)' = SlotHolders(s)
<1>1. SlotHolders(s)' = SlotHolders(s)
  BY DEF SlotHolders
<1> QED BY <1>1 DEF SlotPhase

\* If one slot goes somewhere and the others rest, that is one Move.
LEMMA OneSlotMoves ==
    ASSUME NEW s \in SubnetNames, NEW a, NEW A, NEW b, NEW B,
           SlotGoes(s, a, A, b, B),
           \A x \in SubnetNames : x # s =>
             SlotPhase(x)' = SlotPhase(x) /\ SlotHolders(x)' = SlotHolders(x)
    PROVE  Slot!Move(s, a, A, b, B)
<1>1. [x \in SubnetNames |-> SlotPhase(x)']
        = [[x \in SubnetNames |-> SlotPhase(x)] EXCEPT ![s] = b]
  BY DEF SlotGoes
<1>2. [x \in SubnetNames |-> SlotHolders(x)']
        = [[x \in SubnetNames |-> SlotHolders(x)] EXCEPT ![s] = B]
  BY DEF SlotGoes
<1>3. SlotPhase(s) = a /\ SlotHolders(s) = A
  BY DEF SlotGoes
<1> QED BY <1>1, <1>2, <1>3 DEF Slot!Move

\* Faults are only ever counted up.
FaultsGrow == faults > 0 => faults' > 0

\* A step may meet a fault, and never takes one back.
LEMMA AnyStepMayFail == FaultsGrow => Slot!MayFail
<1> SUFFICES ASSUME FaultsGrow PROVE (faults > 0)' \in {faults > 0, TRUE}
  BY DEF Slot!MayFail
<1>1. (faults' > 0) = (faults > 0) \/ (faults' > 0) = TRUE
  BY DEF FaultsGrow
<1> QED BY <1>1, Zenon

\* A step that moves no slot is a Rest.
LEMMA AllSlotsRest ==
    ASSUME FaultsGrow,
           \A x \in SubnetNames :
             SlotPhase(x)' = SlotPhase(x) /\ SlotHolders(x)' = SlotHolders(x)
    PROVE  Slot!SlotNext
<1>1. [x \in SubnetNames |-> SlotPhase(x)'] = [x \in SubnetNames |-> SlotPhase(x)]
  OBVIOUS
<1>2. [x \in SubnetNames |-> SlotHolders(x)']
        = [x \in SubnetNames |-> SlotHolders(x)]
  OBVIOUS
<1>4. Slot!Rest
  BY <1>1, <1>2, AnyStepMayFail DEF Slot!Rest
<1> QED BY <1>4 DEF Slot!SlotNext

\* The moves of one slot that the abstract specification allows.
LEMMA AllowedMove ==
    ASSUME NEW s \in SubnetNames, NEW r \in Requests, FaultsGrow,
           \A x \in SubnetNames : x # s =>
             SlotPhase(x)' = SlotPhase(x) /\ SlotHolders(x)' = SlotHolders(x),
           \/ SlotPhase(s)' = SlotPhase(s) /\ SlotHolders(s)' = SlotHolders(s)
           \/ SlotGoes(s, "free", {}, "held", {r})
           \/ SlotGoes(s, "held", {r}, "live", {})
           \/ SlotGoes(s, "live", {}, "held", {r})
           \/ SlotGoes(s, "held", {r}, "free", {})
           \/ faults' > 0 /\ SlotGoes(s, "free", {}, "leaked", {})
           \/ faults' > 0 /\ SlotGoes(s, "held", {r}, "leaked", {})
           \/ faults' > 0 /\ SlotGoes(s, "live", {}, "leaked", {})
           \/ faults' > 0 /\ SlotGoes(s, "held", {r}, "tainted", {})
    PROVE  Slot!SlotNext
<1>1. \A a, A, b, B : SlotGoes(s, a, A, b, B) => Slot!Move(s, a, A, b, B)
  BY OneSlotMoves
<1>2. Slot!MayFail
  BY AnyStepMayFail
<1>3. CASE SlotPhase(s)' = SlotPhase(s) /\ SlotHolders(s)' = SlotHolders(s)
  BY <1>3, AllSlotsRest
<1>4. CASE SlotGoes(s, "free", {}, "held", {r})
  BY <1>1, <1>2, <1>4 DEF Slot!SlotNext, Slot!Acquire
<1>5. CASE SlotGoes(s, "held", {r}, "live", {})
  BY <1>1, <1>2, <1>5 DEF Slot!SlotNext, Slot!Publish
<1>6. CASE SlotGoes(s, "live", {}, "held", {r})
  BY <1>1, <1>2, <1>6 DEF Slot!SlotNext, Slot!Withdraw
<1>7. CASE SlotGoes(s, "held", {r}, "free", {})
  BY <1>1, <1>2, <1>7 DEF Slot!SlotNext, Slot!Release
<1>8. CASE faults' > 0 /\ \/ SlotGoes(s, "free", {}, "leaked", {})
                          \/ SlotGoes(s, "held", {r}, "leaked", {})
                          \/ SlotGoes(s, "live", {}, "leaked", {})
  <2>1. Slot!Leak(s)
    BY <1>1, <1>8 DEF Slot!Leak
  <2> QED BY <2>1 DEF Slot!SlotNext
<1>9. CASE faults' > 0 /\ SlotGoes(s, "held", {r}, "tainted", {})
  BY <1>1, <1>9 DEF Slot!SlotNext, Slot!Taint
<1> QED BY <1>3, <1>4, <1>5, <1>6, <1>7, <1>8, <1>9

\* A write never takes a fault back; a failed or lost one leaves a trace.
LEMMA WriteCharges ==
    ASSUME TypeOK, FaultsCounted, NEW r \in Requests,
           NEW c \in {req[r].cancelled, FALSE},
           NEW o \in Outcomes(c), Charge(o, c)
    PROVE  /\ o \in {"ok", "fail", "lost"}
           /\ FaultsGrow
           /\ o # "ok" => faults' > 0
<1>1. faults \in Nat
  BY DEF TypeOK
<1>2. o \in {"ok", "fail", "lost"}
  BY DEF Outcomes
<1>3. CASE o = "ok" \/ ~c
  BY <1>1, <1>2, <1>3 DEF Charge, FaultsGrow
<1>4. CASE o # "ok" /\ c
  <2>1. faults' = faults
    BY <1>4 DEF Charge
  <2>2. faults # 0
    BY <1>4 DEF FaultsCounted
  <2> QED BY <1>1, <1>2, <2>1, <2>2 DEF FaultsGrow
<1> QED BY <1>3, <1>4

(* A step of handler r on the subnet name s that it works on: the other    *)
(* slots rest, and s moves as the table says.                              *)
LEMMA HandlerMovesOneSlot ==
    ASSUME TypeInv, NadInv, NadInv', NEW r \in Requests, NEW p,
           NEW s \in SubnetNames,
           req' = [req EXCEPT ![r] = p],
           req[r].sub = s, p.pc \in HoldPcs => p.sub = s,
           \A x \in SubnetNames : x # s =>
             /\ x \in nad' <=> x \in nad
             /\ x \in tainted' <=> x \in tainted
             /\ subnet'[x] = subnet[x]
    PROVE  /\ \A x \in SubnetNames : x # s =>
                SlotPhase(x)' = SlotPhase(x) /\ SlotHolders(x)' = SlotHolders(x)
           /\ \A x \in Requests : x # r => (Holds(x, s)' <=> Holds(x, s))
           /\ Holds(r, s) <=> req[r].pc \in HoldPcs
           /\ Holds(r, s)' <=> p.pc \in HoldPcs
<1>0. req \in [Requests -> Request]
  BY DEF TypeInv, TypeOK
<1>1. \A x \in Requests, y \in SubnetNames :
        (x # r \/ y # s) => (Holds(x, y)' <=> Holds(x, y))
  BY <1>0 DEF Holds
<1>2. Holds(r, s)' <=> p.pc \in HoldPcs
  BY <1>0 DEF Holds
<1>3. Holds(r, s) <=> req[r].pc \in HoldPcs
  BY DEF Holds
<1>4. \A x \in SubnetNames : x # s =>
        SlotPhase(x)' = SlotPhase(x) /\ SlotHolders(x)' = SlotHolders(x)
  BY <1>1, SlotRests
<1> QED BY <1>1, <1>2, <1>3, <1>4

\* The table holds after a step too.
LEMMA SlotTableNext == NadInv' => (\A s \in SubnetNames : SlotRow(s))'
BY SlotTable, PTL

\* Creating the NAD acquires a free slot, or leaks it when the reply is lost.
LEMMA CreateNetAttachMovesSlot ==
    ASSUME TypeInv, NadInv, NadInv', NEW r \in Requests, CreateNetAttach(r)
    PROVE  Slot!SlotNext
<1> DEFINE q == req[r]
<1>a. q \in GoodRequest
  BY RequestsGood
<1>b. PICK s \in SubnetNames : s = q.sub
  BY <1>a DEF CreateNetAttach, GoodRequest, WellFormed, CsPcs, DsPcs
<1>0. /\ q \in Request /\ q.pc = "cs_nad" /\ q.sub = s
      /\ req \in [Requests -> Request] /\ nad \subseteq SubnetNames
      /\ subnet \in [SubnetNames -> SubnetObj \union {None}]
      /\ TypeOK
  BY <1>a, <1>b DEF CreateNetAttach, GoodRequest, TypeInv, TypeOK
<1>1. SlotRow(s) /\ SlotRow(s)'
  BY SlotTable, SlotTableNext
<1>2. PICK o \in Outcomes(q.cancelled) :
        /\ Charge(o, q.cancelled)
        /\ nad' = IF o = "fail" THEN nad ELSE nad \union {q.sub}
        /\ req' = [req EXCEPT ![r] =
              IF q.sub \notin nad /\ o = "ok"
              THEN [q EXCEPT !.pc = "cs_subnet"]
              ELSE CreateSubnetFailed(q, "err")]
  BY DEF CreateNetAttach, NetAttachRefused
<1>3. UNCHANGED <<subnet, tainted>>
  BY DEF CreateNetAttach
<1>4. /\ o \in {"ok", "fail", "lost"} /\ FaultsGrow
      /\ o # "ok" => faults' > 0
  BY <1>0, <1>2, WriteCharges DEF NadInv
<1> DEFINE p == req'[r]
<1>5. req' = [req EXCEPT ![r] = p]
  BY <1>0, <1>2
<1>6. /\ s \notin nad /\ o = "ok" => p.pc = "cs_subnet" /\ p.sub = s
      /\ ~(s \notin nad /\ o = "ok") => p.pc \notin HoldPcs
  <2>1. CASE s \notin nad /\ o = "ok"
    BY <1>0, <1>2, <2>1 DEF Request
  <2>2. CASE ~(s \notin nad /\ o = "ok")
    BY <1>0, <1>2, <2>2, Returns DEF HoldPcs
  <2> QED BY <2>1, <2>2
<1> HIDE DEF p
<1>7. /\ \A x \in SubnetNames : x # s =>
           SlotPhase(x)' = SlotPhase(x) /\ SlotHolders(x)' = SlotHolders(x)
      /\ \A x \in Requests : x # r => (Holds(x, s)' <=> Holds(x, s))
      /\ ~Holds(r, s) /\ (Holds(r, s)' <=> p.pc \in HoldPcs)
  <2>1. /\ p.pc \in HoldPcs => p.sub = s
        /\ \A x \in SubnetNames : x # s =>
             /\ x \in nad' <=> x \in nad
             /\ x \in tainted' <=> x \in tainted
             /\ subnet'[x] = subnet[x]
    BY <1>0, <1>2, <1>3, <1>6 DEF HoldPcs
  <2>2. /\ \A x \in SubnetNames : x # s =>
             SlotPhase(x)' = SlotPhase(x) /\ SlotHolders(x)' = SlotHolders(x)
        /\ \A x \in Requests : x # r => (Holds(x, s)' <=> Holds(x, s))
        /\ Holds(r, s) <=> req[r].pc \in HoldPcs
        /\ Holds(r, s)' <=> p.pc \in HoldPcs
    BY <1>0, <1>5, <2>1, HandlerMovesOneSlot
  <2> QED BY <1>0, <2>2 DEF HoldPcs
<1>8. CASE s \in tainted \/ s \in nad \/ o = "fail"
  <2>1. SlotPhase(s)' = SlotPhase(s) /\ SlotHolders(s)' = SlotHolders(s)
    <3>1. CASE s \in tainted
      BY <1>1, <1>3, <3>1 DEF SlotRow
    <3>2. CASE s \in nad \/ o = "fail"
      BY <1>0, <1>2, <1>3, <1>6, <1>7, <3>2, SlotRests
    <3> QED BY <1>8, <3>1, <3>2
  <2> QED BY <1>4, <1>7, <2>1, AllowedMove
<1>9. CASE s \notin tainted /\ s \notin nad /\ o = "ok"
  <2>1. SlotGoes(s, "free", {}, "held", {r})
    BY <1>1, <1>3, <1>6, <1>7, <1>9 DEF SlotGoes, SlotRow, HoldPcs
  <2> QED BY <1>4, <1>7, <2>1, AllowedMove
<1>10. CASE s \notin tainted /\ s \notin nad /\ o = "lost"
  <2>1. /\ s \in nad' /\ subnet'[s] = None /\ s \notin tainted'
        /\ \A x \in Requests : ~Holds(x, s)
    BY <1>0, <1>2, <1>3, <1>10 DEF NadInv, SubnetHasNad, NadIsLock
  <2>2. SlotGoes(s, "free", {}, "leaked", {})
    BY <1>1, <1>6, <1>7, <1>10, <2>1 DEF SlotGoes, SlotRow
  <2> QED BY <1>4, <1>7, <1>10, <2>2, AllowedMove
<1> QED BY <1>4, <1>8, <1>9, <1>10

\* Creating the Subnet publishes the slot, or taints it when the reply is lost.
LEMMA CreateSubnetObjectMovesSlot ==
    ASSUME TypeInv, NadInv, NadInv', NEW r \in Requests, CreateSubnetObject(r)
    PROVE  Slot!SlotNext
<1> DEFINE q == req[r]
<1>a. q \in GoodRequest
  BY RequestsGood
<1>b. PICK s \in SubnetNames : s = q.sub
  BY <1>a DEF CreateSubnetObject, GoodRequest, WellFormed, CsPcs, DsPcs
<1>0. /\ q \in Request /\ q.pc = "cs_subnet" /\ q.sub = s
      /\ req \in [Requests -> Request] /\ nad \subseteq SubnetNames
      /\ subnet \in [SubnetNames -> SubnetObj \union {None}]
      /\ TypeOK
  BY <1>a, <1>b DEF CreateSubnetObject, GoodRequest, TypeInv, TypeOK
<1>1. SlotRow(s) /\ SlotRow(s)'
  BY SlotTable, SlotTableNext
<1>2. PICK o \in Outcomes(q.cancelled) :
        /\ Charge(o, q.cancelled)
        /\ IF subnet[q.sub] = None /\ o # "fail"
           THEN /\ subnet' = [subnet EXCEPT ![q.sub] = NewSubnet(r)]
                /\ tainted' = IF o = "lost" THEN tainted \union {q.sub}
                                            ELSE tainted
           ELSE UNCHANGED <<subnet, tainted>>
        /\ req' = [req EXCEPT ![r] =
              IF subnet[q.sub] = None /\ o = "ok"
              THEN NextL3(q) ELSE [q EXCEPT !.pc = "cs_cleanup"]]
  BY DEF CreateSubnetObject
<1>3. UNCHANGED nad
  BY DEF CreateSubnetObject
<1>4. /\ o \in {"ok", "fail", "lost"} /\ FaultsGrow
      /\ o # "ok" => faults' > 0
  BY <1>0, <1>2, WriteCharges DEF NadInv
<1> DEFINE p == req'[r]
<1>5. req' = [req EXCEPT ![r] = p]
  BY <1>0, <1>2
<1>6. /\ subnet[s] = None /\ o = "ok" => p.pc \notin HoldPcs
      /\ ~(subnet[s] = None /\ o = "ok") => p.pc = "cs_cleanup" /\ p.sub = s
  <2>1. CASE subnet[s] = None /\ o = "ok"
    BY <1>0, <1>2, <2>1, Returns DEF HoldPcs
  <2>2. CASE ~(subnet[s] = None /\ o = "ok")
    BY <1>0, <1>2, <2>2 DEF Request
  <2> QED BY <2>1, <2>2
<1> HIDE DEF p
<1>7. /\ \A x \in SubnetNames : x # s =>
           SlotPhase(x)' = SlotPhase(x) /\ SlotHolders(x)' = SlotHolders(x)
      /\ \A x \in Requests : x # r => (Holds(x, s)' <=> Holds(x, s))
      /\ Holds(r, s) /\ (Holds(r, s)' <=> p.pc \in HoldPcs)
  <2>1. /\ p.pc \in HoldPcs => p.sub = s
        /\ \A x \in SubnetNames : x # s =>
             /\ x \in nad' <=> x \in nad
             /\ x \in tainted' <=> x \in tainted
             /\ subnet'[x] = subnet[x]
    BY <1>0, <1>2, <1>3, <1>6 DEF HoldPcs
  <2>2. /\ \A x \in SubnetNames : x # s =>
             SlotPhase(x)' = SlotPhase(x) /\ SlotHolders(x)' = SlotHolders(x)
        /\ \A x \in Requests : x # r => (Holds(x, s)' <=> Holds(x, s))
        /\ Holds(r, s) <=> req[r].pc \in HoldPcs
        /\ Holds(r, s)' <=> p.pc \in HoldPcs
    BY <1>0, <1>5, <2>1, HandlerMovesOneSlot
  <2> QED BY <1>0, <2>2 DEF HoldPcs
<1>8. CASE s \in tainted \/ o = "fail"
  <2>1. SlotPhase(s)' = SlotPhase(s) /\ SlotHolders(s)' = SlotHolders(s)
    <3>1. CASE s \in tainted
      BY <1>1, <1>2, <3>1 DEF SlotRow
    <3>2. CASE o = "fail"
      BY <1>0, <1>2, <1>3, <1>6, <1>7, <3>2, SlotRests DEF HoldPcs
    <3> QED BY <1>8, <3>1, <3>2
  <2> QED BY <1>4, <1>7, <2>1, AllowedMove
<1>9. CASE s \notin tainted /\ o # "fail"
  <2>1. subnet[s] = None /\ SlotPhase(s) = "held" /\ SlotHolders(s) = {r}
    BY <1>1, <1>7, <1>9 DEF SlotRow, NadInv, NadIsLock
  <2>2. CASE o = "ok"
    <3>1. NewSubnet(r) # None
      <4>1. q.found \in FoundNet \union {None} /\ SubUid(r, q.idx) \in Uids
        BY <1>0 DEF Request, SubUid, Uids
      <4>2. NewSubnet(r) \in SubnetObj
        BY <4>1 DEF NewSubnet, SubnetObj, FoundNet
      <4> QED BY <4>2, ConstantsAssumption
    <3>2. s \notin tainted' /\ subnet'[s] # None
      BY <1>0, <1>2, <1>9, <2>1, <2>2, <3>1
    <3>3. SlotGoes(s, "held", {r}, "live", {})
      BY <1>1, <2>1, <3>2 DEF SlotGoes, SlotRow
    <3> QED BY <1>4, <1>7, <3>3, AllowedMove
  <2>3. CASE o = "lost"
    <3>1. s \in tainted'
      BY <1>0, <1>2, <2>1, <2>3
    <3>2. SlotGoes(s, "held", {r}, "tainted", {})
      BY <1>1, <2>1, <3>1 DEF SlotGoes, SlotRow
    <3> QED BY <1>4, <1>7, <2>3, <3>2, AllowedMove
  <2> QED BY <1>4, <1>9, <2>2, <2>3
<1> QED BY <1>8, <1>9

\* The cleanup releases the slot, or leaks it when the delete fails.
LEMMA CleanupNetAttachMovesSlot ==
    ASSUME TypeInv, NadInv, NadInv', NEW r \in Requests, CleanupNetAttach(r)
    PROVE  Slot!SlotNext
<1> DEFINE q == req[r]
<1>a. q \in GoodRequest
  BY RequestsGood
<1>b. PICK s \in SubnetNames : s = q.sub
  BY <1>a DEF CleanupNetAttach, GoodRequest, WellFormed, CsPcs, DsPcs
<1>0. /\ q \in Request /\ q.pc = "cs_cleanup" /\ q.sub = s
      /\ req \in [Requests -> Request] /\ nad \subseteq SubnetNames
      /\ subnet \in [SubnetNames -> SubnetObj \union {None}]
      /\ TypeOK
  BY <1>a, <1>b DEF CleanupNetAttach, GoodRequest, TypeInv, TypeOK
<1>1. SlotRow(s) /\ SlotRow(s)'
  BY SlotTable, SlotTableNext
<1>2. PICK o \in Outcomes(FALSE) :
        /\ Charge(o, FALSE)
        /\ nad' = IF o = "fail" THEN nad ELSE nad \ {q.sub}
        /\ req' = [req EXCEPT ![r] = CreateSubnetFailed(q, "err")]
  BY DEF CleanupNetAttach
<1>3. UNCHANGED <<subnet, tainted>>
  BY DEF CleanupNetAttach
<1>4. /\ o \in {"ok", "fail", "lost"} /\ FaultsGrow
      /\ o # "ok" => faults' > 0
  BY <1>0, <1>2, WriteCharges DEF NadInv
<1> DEFINE p == req'[r]
<1>5. req' = [req EXCEPT ![r] = p]
  BY <1>0, <1>2
<1>6. p.pc \notin HoldPcs
  BY <1>0, <1>2, Returns DEF HoldPcs
<1> HIDE DEF p
<1>7. /\ \A x \in SubnetNames : x # s =>
           SlotPhase(x)' = SlotPhase(x) /\ SlotHolders(x)' = SlotHolders(x)
      /\ \A x \in Requests : x # r => (Holds(x, s)' <=> Holds(x, s))
      /\ Holds(r, s) /\ (Holds(r, s)' <=> p.pc \in HoldPcs)
  <2>1. /\ p.pc \in HoldPcs => p.sub = s
        /\ \A x \in SubnetNames : x # s =>
             /\ x \in nad' <=> x \in nad
             /\ x \in tainted' <=> x \in tainted
             /\ subnet'[x] = subnet[x]
    BY <1>0, <1>2, <1>3, <1>6 DEF HoldPcs
  <2>2. /\ \A x \in SubnetNames : x # s =>
             SlotPhase(x)' = SlotPhase(x) /\ SlotHolders(x)' = SlotHolders(x)
        /\ \A x \in Requests : x # r => (Holds(x, s)' <=> Holds(x, s))
        /\ Holds(r, s) <=> req[r].pc \in HoldPcs
        /\ Holds(r, s)' <=> p.pc \in HoldPcs
    BY <1>0, <1>5, <2>1, HandlerMovesOneSlot
  <2> QED BY <1>0, <2>2 DEF HoldPcs
<1>8. CASE s \in tainted
  <2>1. SlotPhase(s)' = SlotPhase(s) /\ SlotHolders(s)' = SlotHolders(s)
    BY <1>1, <1>3, <1>8 DEF SlotRow
  <2> QED BY <1>4, <1>7, <2>1, AllowedMove
<1>9. CASE s \notin tainted
  <2>1. /\ SlotPhase(s) = "held" /\ SlotHolders(s) = {r}
        /\ s \notin tainted' /\ s \in nad /\ subnet'[s] = None
        /\ \A x \in Requests : ~Holds(x, s)'
    BY <1>1, <1>3, <1>6, <1>7, <1>9 DEF SlotRow, NadInv, NadIsLock
  <2>2. CASE o = "fail"
    <3>1. s \in nad'
      BY <1>2, <2>1, <2>2
    <3>2. SlotGoes(s, "held", {r}, "leaked", {})
      BY <1>1, <2>1, <3>1 DEF SlotGoes, SlotRow
    <3> QED BY <1>4, <1>7, <2>2, <3>2, AllowedMove
  <2>3. CASE o # "fail"
    <3>1. s \notin nad'
      BY <1>0, <1>2, <2>3
    <3>2. SlotGoes(s, "held", {r}, "free", {})
      BY <1>1, <2>1, <3>1 DEF SlotGoes, SlotRow
    <3> QED BY <1>4, <1>7, <3>2, AllowedMove
  <2> QED BY <2>2, <2>3
<1> QED BY <1>8, <1>9

\* Deleting the NAD releases the slot, or leaks it when the delete fails.
LEMMA DeleteNetAttachMovesSlot ==
    ASSUME TypeInv, NadInv, NadInv', NEW r \in Requests, DeleteNetAttach(r)
    PROVE  Slot!SlotNext
<1> DEFINE q == req[r]
<1>a. q \in GoodRequest
  BY RequestsGood
<1>b. PICK s \in SubnetNames : s = q.sub
  BY <1>a DEF DeleteNetAttach, GoodRequest, WellFormed, CsPcs, DsPcs
<1>0. /\ q \in Request /\ q.pc = "ds_nad" /\ q.sub = s
      /\ req \in [Requests -> Request] /\ nad \subseteq SubnetNames
      /\ subnet \in [SubnetNames -> SubnetObj \union {None}]
      /\ TypeOK
  BY <1>a, <1>b DEF DeleteNetAttach, GoodRequest, TypeInv, TypeOK
<1>1. SlotRow(s) /\ SlotRow(s)'
  BY SlotTable, SlotTableNext
<1>2. PICK o \in Outcomes(q.cancelled) :
        /\ Charge(o, q.cancelled)
        /\ nad' = IF o = "fail" THEN nad ELSE nad \ {q.sub}
        /\ req' = [req EXCEPT ![r] =
              IF Deleted(o, q.sub \in nad)
              THEN DeleteSubnetDone(q) ELSE DeleteFailed(q, DeleteError(o))]
  BY DEF DeleteNetAttach
<1>3. UNCHANGED <<subnet, tainted>>
  BY DEF DeleteNetAttach
<1>4. /\ o \in {"ok", "fail", "lost"} /\ FaultsGrow
      /\ o # "ok" => faults' > 0
  BY <1>0, <1>2, WriteCharges DEF NadInv
<1> DEFINE p == req'[r]
<1>5. req' = [req EXCEPT ![r] = p]
  BY <1>0, <1>2
<1>6. p.pc \notin HoldPcs
  <2>1. p = DeleteSubnetDone(q) \/ p = DeleteFailed(q, DeleteError(o))
    BY <1>0, <1>2
  <2>2. CASE p = DeleteSubnetDone(q)
    BY <1>0, <2>2, Returns DEF HoldPcs
  <2>3. CASE p = DeleteFailed(q, DeleteError(o))
    BY <1>0, <2>3, Returns DEF HoldPcs
  <2> QED BY <2>1, <2>2, <2>3
<1> HIDE DEF p
<1>7. /\ \A x \in SubnetNames : x # s =>
           SlotPhase(x)' = SlotPhase(x) /\ SlotHolders(x)' = SlotHolders(x)
      /\ \A x \in Requests : x # r => (Holds(x, s)' <=> Holds(x, s))
      /\ Holds(r, s) /\ (Holds(r, s)' <=> p.pc \in HoldPcs)
  <2>1. /\ p.pc \in HoldPcs => p.sub = s
        /\ \A x \in SubnetNames : x # s =>
             /\ x \in nad' <=> x \in nad
             /\ x \in tainted' <=> x \in tainted
             /\ subnet'[x] = subnet[x]
    BY <1>0, <1>2, <1>3, <1>6 DEF HoldPcs
  <2>2. /\ \A x \in SubnetNames : x # s =>
             SlotPhase(x)' = SlotPhase(x) /\ SlotHolders(x)' = SlotHolders(x)
        /\ \A x \in Requests : x # r => (Holds(x, s)' <=> Holds(x, s))
        /\ Holds(r, s) <=> req[r].pc \in HoldPcs
        /\ Holds(r, s)' <=> p.pc \in HoldPcs
    BY <1>0, <1>5, <2>1, HandlerMovesOneSlot
  <2> QED BY <1>0, <2>2 DEF HoldPcs
<1>8. CASE s \in tainted
  <2>1. SlotPhase(s)' = SlotPhase(s) /\ SlotHolders(s)' = SlotHolders(s)
    BY <1>1, <1>3, <1>8 DEF SlotRow
  <2> QED BY <1>4, <1>7, <2>1, AllowedMove
<1>9. CASE s \notin tainted
  <2>1. /\ SlotPhase(s) = "held" /\ SlotHolders(s) = {r}
        /\ s \notin tainted' /\ s \in nad /\ subnet'[s] = None
        /\ \A x \in Requests : ~Holds(x, s)'
    BY <1>1, <1>3, <1>6, <1>7, <1>9 DEF SlotRow, NadInv, NadIsLock
  <2>2. CASE o = "fail"
    <3>1. s \in nad'
      BY <1>2, <2>1, <2>2
    <3>2. SlotGoes(s, "held", {r}, "leaked", {})
      BY <1>1, <2>1, <3>1 DEF SlotGoes, SlotRow
    <3> QED BY <1>4, <1>7, <2>2, <3>2, AllowedMove
  <2>3. CASE o # "fail"
    <3>1. s \notin nad'
      BY <1>0, <1>2, <2>3
    <3>2. SlotGoes(s, "held", {r}, "free", {})
      BY <1>1, <2>1, <3>1 DEF SlotGoes, SlotRow
    <3> QED BY <1>4, <1>7, <3>2, AllowedMove
  <2> QED BY <2>2, <2>3
<1> QED BY <1>8, <1>9

\* Deleting the Subnet withdraws the slot, or leaks it when the reply is lost.
LEMMA DeleteSubnetObjectMovesSlot ==
    ASSUME TypeInv, NadInv, NadInv', NEW r \in Requests, DeleteSubnetObject(r)
    PROVE  Slot!SlotNext
<1> DEFINE q == req[r]
<1>a. q \in GoodRequest
  BY RequestsGood
<1>b. PICK s \in SubnetNames : s = q.sub
  BY <1>a DEF DeleteSubnetObject, GoodRequest, WellFormed, CsPcs, DsPcs
<1>0. /\ q \in Request /\ q.pc = "ds_subnet" /\ q.sub = s
      /\ req \in [Requests -> Request] /\ nad \subseteq SubnetNames
      /\ subnet \in [SubnetNames -> SubnetObj \union {None}]
      /\ TypeOK
  BY <1>a, <1>b DEF DeleteSubnetObject, GoodRequest, TypeInv, TypeOK
<1>1. SlotRow(s) /\ SlotRow(s)'
  BY SlotTable, SlotTableNext
<1>2. PICK o \in Outcomes(q.cancelled) :
        /\ Charge(o, q.cancelled)
        /\ subnet' = IF o = "fail" THEN subnet
                     ELSE [subnet EXCEPT ![q.sub] = None]
        /\ req' = [req EXCEPT ![r] =
              IF Deleted(o, subnet[q.sub] # None)
              THEN SubnetDeleted(q)
              ELSE DeleteFailed(q, DeleteError(o))]
  BY DEF DeleteSubnetObject
<1>3. UNCHANGED <<nad, tainted>>
  BY DEF DeleteSubnetObject
<1>4. /\ o \in {"ok", "fail", "lost"} /\ FaultsGrow
      /\ o # "ok" => faults' > 0
  BY <1>0, <1>2, WriteCharges DEF NadInv
<1> DEFINE p == req'[r]
<1>5. req' = [req EXCEPT ![r] = p]
  BY <1>0, <1>2
<1>6. /\ subnet[s] # None /\ o = "ok" => p.pc = "ds_nad" /\ p.sub = s
      /\ ~(subnet[s] # None /\ o = "ok") => p.pc \notin HoldPcs
  <2>1. CASE subnet[s] # None /\ o = "ok"
    BY <1>0, <1>2, <2>1 DEF Deleted, SubnetDeleted, Request
  <2>2. CASE ~(subnet[s] # None /\ o = "ok")
    <3>1. p = DeleteFailed(q, DeleteError(o))
      BY <1>0, <1>2, <2>2 DEF Deleted
    <3> QED BY <1>0, <2>2, <3>1, Returns DEF HoldPcs
  <2> QED BY <2>1, <2>2
<1> HIDE DEF p
<1>7. /\ \A x \in SubnetNames : x # s =>
           SlotPhase(x)' = SlotPhase(x) /\ SlotHolders(x)' = SlotHolders(x)
      /\ \A x \in Requests : x # r => (Holds(x, s)' <=> Holds(x, s))
      /\ ~Holds(r, s) /\ (Holds(r, s)' <=> p.pc \in HoldPcs)
  <2>1. /\ p.pc \in HoldPcs => p.sub = s
        /\ \A x \in SubnetNames : x # s =>
             /\ x \in nad' <=> x \in nad
             /\ x \in tainted' <=> x \in tainted
             /\ subnet'[x] = subnet[x]
    BY <1>0, <1>2, <1>3, <1>6 DEF HoldPcs
  <2>2. /\ \A x \in SubnetNames : x # s =>
             SlotPhase(x)' = SlotPhase(x) /\ SlotHolders(x)' = SlotHolders(x)
        /\ \A x \in Requests : x # r => (Holds(x, s)' <=> Holds(x, s))
        /\ Holds(r, s) <=> req[r].pc \in HoldPcs
        /\ Holds(r, s)' <=> p.pc \in HoldPcs
    BY <1>0, <1>5, <2>1, HandlerMovesOneSlot
  <2> QED BY <1>0, <2>2 DEF HoldPcs
<1>8. CASE s \in tainted \/ subnet[s] = None \/ o = "fail"
  <2>1. SlotPhase(s)' = SlotPhase(s) /\ SlotHolders(s)' = SlotHolders(s)
    <3>1. CASE s \in tainted
      BY <1>1, <1>3, <3>1 DEF SlotRow
    <3>2. CASE subnet[s] = None \/ o = "fail"
      BY <1>0, <1>2, <1>3, <1>6, <1>7, <3>2, SlotRests
    <3> QED BY <1>8, <3>1, <3>2
  <2> QED BY <1>4, <1>7, <2>1, AllowedMove
<1>9. CASE s \notin tainted /\ subnet[s] # None /\ o # "fail"
  <2>1. /\ SlotPhase(s) = "live" /\ SlotHolders(s) = {}
        /\ s \notin tainted' /\ s \in nad' /\ subnet'[s] = None
        /\ \A x \in Requests : ~Holds(x, s)
    BY <1>0, <1>1, <1>2, <1>3, <1>9 DEF SlotRow, NadInv, SubnetHasNad, NadIsLock
  <2>2. CASE o = "ok"
    <3>1. Holds(r, s)'
      BY <1>6, <1>7, <1>9, <2>2 DEF HoldPcs
    <3>2. SlotGoes(s, "live", {}, "held", {r})
      BY <1>1, <2>1, <3>1 DEF SlotGoes, SlotRow
    <3> QED BY <1>4, <1>7, <3>2, AllowedMove
  <2>3. CASE o = "lost"
    <3>1. SlotGoes(s, "live", {}, "leaked", {})
      BY <1>1, <1>6, <1>7, <2>1, <2>3 DEF SlotGoes, SlotRow
    <3> QED BY <1>4, <1>7, <2>3, <3>1, AllowedMove
  <2> QED BY <1>4, <1>9, <2>2, <2>3
<1> QED BY <1>8, <1>9

\* A step that neither makes nor unmakes an owner and writes no subnet.
LEMMA QuietStepMovesNoSlot ==
    ASSUME TypeInv, TypeInv', NEW r \in Requests, NEW p,
           req' = [req EXCEPT ![r] = p],
           req[r].pc \notin HoldPcs, p.pc \notin HoldPcs,
           faults' = 0 => faults = 0,
           UNCHANGED <<subnet, nad, tainted>>
    PROVE  Slot!SlotNext
<1>0. req \in [Requests -> Request] /\ faults \in Nat /\ faults' \in Nat
  BY DEF TypeInv, TypeOK
<1>1. \A x \in Requests : \A s : Holds(x, s)' <=> Holds(x, s)
  BY <1>0 DEF Holds
<1>2. \A s \in SubnetNames :
        SlotPhase(s)' = SlotPhase(s) /\ SlotHolders(s)' = SlotHolders(s)
  BY <1>1, SlotRests
<1>3. FaultsGrow
  BY <1>0 DEF FaultsGrow
<1> QED BY <1>2, <1>3, AllSlotsRest

\* A handler that concerns no subnet name moves no slot.
LEMMA QuietMovesNoSlot ==
    ASSUME TypeInv, TypeInv', NadInv, NEW r \in Requests, QuietActions(r)
    PROVE  Slot!SlotNext
<1> DEFINE p == req'[r]
<1>1. /\ req[r].pc \notin HoldPcs /\ p.pc \notin HoldPcs
      /\ req' = [req EXCEPT ![r] = p]
      /\ faults' = 0 => faults = 0
      /\ UNCHANGED <<subnet, nad, tainted>>
  BY QuietFrame
<1> HIDE DEF p
<1> QED BY <1>1, QuietStepMovesNoSlot

\* Watches, the controller and cancellations move no slot.
LEMMA SyncMovesNoSlot ==
    ASSUME TypeInv, Sync \/ \E r \in Requests : Cancel(r)
    PROVE  Slot!SlotNext
<1>0. req \in [Requests -> Request] /\ faults \in Nat
  BY DEF TypeInv, TypeOK
<1>1. UNCHANGED <<subnet, nad, tainted>>
  BY DEF Sync, WatchNetworks, WatchSubnets, Reconcile, Cancel, api
<1>2. \A x \in Requests : req'[x].pc = req[x].pc /\ req'[x].sub = req[x].sub
  <2>1. CASE Sync
    BY <2>1 DEF Sync, WatchNetworks, WatchSubnets, Reconcile
  <2>2. ASSUME NEW r \in Requests, Cancel(r)
        PROVE  \A x \in Requests :
                 req'[x].pc = req[x].pc /\ req'[x].sub = req[x].sub
    BY <1>0, <2>2 DEF Cancel, Request
  <2> QED BY <2>1, <2>2
<1>3. \A x \in Requests : \A s : Holds(x, s)' <=> Holds(x, s)
  BY <1>2 DEF Holds
<1>4. \A s \in SubnetNames :
        SlotPhase(s)' = SlotPhase(s) /\ SlotHolders(s)' = SlotHolders(s)
  BY <1>1, <1>3, SlotRests
<1>5. FaultsGrow
  BY <1>0 DEF FaultsGrow, Sync, WatchNetworks, WatchSubnets, Reconcile, Cancel
<1> QED BY <1>4, <1>5, AllSlotsRest

\* A crash takes every slot from its holder at once.
LEMMA CrashLosesHolders ==
    ASSUME TypeInv, NadInv, NadInv', Crash
    PROVE  Slot!SlotNext
<1>0. req \in [Requests -> Request] /\ faults \in Nat
  BY DEF TypeInv, TypeOK
<1>1. UNCHANGED <<subnet, nad, tainted>> /\ faults' > 0
  BY <1>0 DEF Crash, api
<1>2. \A x \in Requests : req'[x].pc \in {"idle", "done"}
  BY <1>0, Returns DEF Crash, Running
<1>3. \A x \in Requests : \A s : ~Holds(x, s)'
  BY <1>2 DEF Holds, HoldPcs
<1>4. ASSUME NEW s \in SubnetNames
      PROVE  /\ SlotHolders(s)' = {}
             /\ SlotPhase(s)' =
                  IF SlotPhase(s) = "held" THEN "leaked" ELSE SlotPhase(s)
  <2>1. SlotRow(s) /\ SlotRow(s)'
    BY SlotTable, SlotTableNext
  <2>2. CASE s \in tainted \/ s \notin nad \/ subnet[s] # None
    BY <1>1, <2>1, <2>2 DEF SlotRow
  <2>3. CASE s \notin tainted /\ s \in nad /\ subnet[s] = None
    <3>1. SlotPhase(s) \in {"held", "leaked"}
      BY <2>1, <2>3 DEF SlotRow
    <3>2. SlotPhase(s)' = "leaked" /\ SlotHolders(s)' = {}
      BY <1>1, <1>3, <2>1, <2>3 DEF SlotRow
    <3> QED BY <3>1, <3>2
  <2> QED BY <2>2, <2>3
<1>5. Slot!LoseHolders
  BY <1>1, <1>4 DEF Slot!LoseHolders
<1> QED BY <1>5 DEF Slot!SlotNext

\* Every step of a handler is a move of one slot, or moves none.
LEMMA HandlerMovesSlots ==
    ASSUME TypeInv, TypeInv', NadInv, NadInv', NEW r \in Requests, Call(r) \/ Step(r)
    PROVE  Slot!SlotNext
BY QuietMovesNoSlot, CreateNetAttachMovesSlot, CreateSubnetObjectMovesSlot,
   CleanupNetAttachMovesSlot, DeleteSubnetObjectMovesSlot, DeleteNetAttachMovesSlot
   DEF Step, QuietActions

\* A step that leaves kube-ovn's state alone.
LEMMA StutterMovesNoSlot ==
    ASSUME UNCHANGED vars
    PROVE  UNCHANGED Slot!slotVars
<1>1. \A s \in SubnetNames :
        SlotPhase(s)' = SlotPhase(s) /\ SlotHolders(s)' = SlotHolders(s)
  BY SlotRests DEF vars, Holds
<1> QED BY <1>1 DEF Slot!slotVars, vars

\* Every slot is free before the first request.
LEMMA InitSlots == Init => Slot!SlotInit
<1> SUFFICES ASSUME Init PROVE Slot!SlotInit
  OBVIOUS
<1>1. \A s \in SubnetNames : SlotPhase(s) = "free" /\ SlotHolders(s) = {}
  BY DEF Init, SlotPhase, SlotHolders, Holds, HoldPcs, Idle
<1>2. (faults > 0) = FALSE
  BY DEF Init
<1> QED BY <1>1, <1>2 DEF Slot!SlotInit

(* CreateSubnet and DeleteSubnet implement exclusive slots: every write of *)
(* every handler, every failure, cancellation and crash is a move that     *)
(* SubnetSlot allows, or moves no slot.                                    *)
THEOREM SlotRefinementCorrect == Spec => SlotsAreExclusive
<1>1. Init => Slot!SlotInit
  BY InitSlots
<1>2. TypeInv /\ TypeInv' /\ NadInv /\ NadInv' /\ [Next]_vars
        => [Slot!SlotNext]_(Slot!slotVars)
  <2> SUFFICES ASSUME TypeInv, TypeInv', NadInv, NadInv', [Next]_vars
               PROVE  [Slot!SlotNext]_(Slot!slotVars)
    OBVIOUS
  <2>1. ASSUME NEW r \in Requests, Call(r) \/ Step(r) PROVE Slot!SlotNext
    BY <2>1, HandlerMovesSlots
  <2>2. CASE Sync \/ Crash \/ \E r \in Requests : Cancel(r)
    BY <2>2, SyncMovesNoSlot, CrashLosesHolders
  <2>3. CASE UNCHANGED vars
    BY <2>3, StutterMovesNoSlot
  <2> QED BY <2>1, <2>2, <2>3 DEF Next
<1> QED BY <1>1, <1>2, TypeCorrect, NadInvariant, PTL
        DEF Spec, TypeInv, SlotsAreExclusive, Slot!SlotSpec

=============================================================================
