----------------------------- MODULE MgmtProofs -----------------------------
(***************************************************************************)
(* Proofs about MgmtNetwork, for any number of replicas, restarts and      *)
(* interventions by others.                                                *)
(***************************************************************************)
EXTENDS MgmtNetwork, TLAPS

-----------------------------------------------------------------------------
(* What the operators return *)

\* The required labels: which there are, and their values.
LEMMA RequiredFacts ==
  ASSUME NEW k \in Kinds, NEW u \in Nat
  PROVE  /\ DOMAIN Required(k, u) \subseteq RequiredKeys(k)
         /\ RequiredKeys(k) \subseteq Keys \ {"extra"}
         /\ u # 0 \/ k = "vpc" => DOMAIN Required(k, u) = RequiredKeys(k)
         /\ "networkId" \notin RequiredKeys("vpc")
         /\ \A key \in DOMAIN Required(k, u) :
               Required(k, u)[key] = IF key = "networkId" THEN u ELSE 1
BY DEF Required, RequiredKeys, Kinds, Keys

\* MergeLabels yields labels, changes the required ones and no other.
LEMMA MergeFacts ==
  ASSUME NEW k \in Kinds, NEW u \in Nat, NEW cur \in Labels
  PROVE  LET m == MergeLabels(cur, Required(k, u)) IN
         /\ m \in Labels
         /\ \A key \in Keys : m[key] =
              IF key \in DOMAIN Required(k, u)
              THEN IF key = "networkId" THEN u ELSE 1
              ELSE cur[key]
<1> DEFINE m == MergeLabels(cur, Required(k, u))
<1>1. m = [key \in Keys |-> IF key \in DOMAIN Required(k, u)
                            THEN Required(k, u)[key] ELSE cur[key]]
  BY DEF MergeLabels
<1>2. \A key \in Keys : m[key] =
          IF key \in DOMAIN Required(k, u)
          THEN IF key = "networkId" THEN u ELSE 1
          ELSE cur[key]
  BY <1>1, RequiredFacts
<1>3. \A key \in Keys : m[key] \in Nat
  BY <1>2 DEF Labels
<1>4. m \in Labels
  BY <1>1, <1>3 DEF Labels
<1> QED BY <1>2, <1>4

\* A patch changes labels only, and those where merged differs from base.
LEMMA PatchedFacts ==
  ASSUME NEW p, NEW o \in Object, NEW base \in Labels, NEW merged \in Labels
  PROVE  LET n == Patched(p, o, base, merged) IN
         /\ n \in Object
         /\ n.uid = o.uid /\ n.cidr = o.cidr
         /\ n.labels = [key \in Keys |->
                IF merged[key] # base[key] THEN merged[key] ELSE o.labels[key]]
<1> DEFINE n == Patched(p, o, base, merged)
           l == [key \in Keys |->
                    IF merged[key] # base[key] THEN merged[key] ELSE o.labels[key]]
<1>1. n = [o EXCEPT !.labels = l]
  BY DEF Patched
<1>2. l \in Labels
  BY DEF Labels, Object
<1> HIDE DEF l
<1>3. n.labels = l /\ n.uid = o.uid /\ n.cidr = o.cidr /\ n \in Object
  BY <1>1, <1>2 DEF Object
<1> QED BY <1>3 DEF l

\* An object without labels is typed.
LEMMA NoLabelsType == NoLabels \in Labels
BY DEF NoLabels, Labels

\* A new object has a fresh UID and the required labels.
LEMMA NewObjectFacts ==
  ASSUME TypeOK, NEW p \in Replicas, NEW k \in Kinds
  PROVE  /\ NewObject(p, k) \in Object
         /\ NewObject(p, k).uid = uids + 1
         /\ NewObject(p, k).labels =
               MergeLabels(NoLabels, Required(k, rep[p].vpcUid))
<1>1. rep[p].vpcUid \in Nat
  BY DEF TypeOK, Replica
<1>2. MergeLabels(NoLabels, Required(k, rep[p].vpcUid)) \in Labels
  BY <1>1, MergeFacts, NoLabelsType
<1>3. CidrOf[p] \in Cidrs
  BY MgmtAssumption
<1> QED BY <1>2, <1>3 DEF NewObject, Object, TypeOK

\* Where a pass goes after the object of kind k, and what it remembers.
LEMMA AdvanceFacts ==
  ASSUME NEW q \in Replica, NEW k \in Kinds, NEW u \in Nat
  PROVE  LET r == Advance(q, k, u) IN
         /\ r \in Replica
         /\ k = "vpc" => r.pc = "get" /\ r.kind = "subnet" /\ r.vpcUid = u
         /\ k = "subnet" => r.pc = "get" /\ r.kind = "nad" /\ r.vpcUid = q.vpcUid
         /\ k = "nad" => r.pc = "ready" /\ r.kind = q.kind /\ r.vpcUid = q.vpcUid
BY DEF Advance, Replica, Kinds

\* A pass goes on, or is ready after the NAD.
LEMMA AdvanceShape ==
  ASSUME NEW q \in Replica, NEW k \in Kinds, NEW u \in Nat, q.kind = k
  PROVE  /\ Advance(q, k, u).pc \in {"get", "ready"}
         /\ Advance(q, k, u).pc = "ready" => Advance(q, k, u).kind = "nad"
BY AdvanceFacts DEF Kinds

\* A replica that does not run is typed.
LEMMA OffType == Off \in Replica /\ Off.pc = "off"
BY NoLabelsType DEF Off, Replica, Kinds

-----------------------------------------------------------------------------
(* Type correctness *)

\* TypeOK is preserved by every step.
LEMMA TypeStep ==
  ASSUME TypeOK, [Next]_vars
  PROVE  TypeOK'
<1>u. CASE UNCHANGED vars
  BY <1>u DEF TypeOK, vars
<1>r. ASSUME NEW p \in Replicas PROVE rep[p] \in Replica
  BY DEF TypeOK
<1>o. ASSUME NEW k \in Kinds, obj[k] # None PROVE obj[k] \in Object
  BY <1>o DEF TypeOK
<1>1. ASSUME NEW p \in Replicas, Start(p) PROVE TypeOK'
  <2>1. [Off EXCEPT !.pc = "get"] \in Replica
    BY OffType DEF Replica
  <2>2. rep' \in [Replicas -> Replica]
    BY <1>1, <2>1 DEF Start, TypeOK
  <2>3. clean' \in [Replicas -> BOOLEAN]
    BY <1>1 DEF Start, TypeOK
  <2>4. starts' \in 0..MaxStarts
    BY <1>1, MgmtAssumption DEF Start, TypeOK
  <2> QED BY <1>1, <2>2, <2>3, <2>4 DEF Start, TypeOK
<1>2. ASSUME NEW p \in Replicas, Get(p) PROVE TypeOK'
  <2> DEFINE q == rep[p]  k == q.kind  o == obj[k]
  <2>1. q \in Replica /\ k \in Kinds /\ q.vpcUid \in Nat
    BY <1>r DEF Replica
  <2>2. CASE o = None
    <3>1. [q EXCEPT !.pc = "create"] \in Replica
      BY <2>1 DEF Replica
    <3> QED BY <1>2, <2>2, <3>1 DEF Get, Read, TypeOK, bounds
  <2>3. CASE o # None
    <3>1. o \in Object /\ o.uid \in Nat /\ o.labels \in Labels
      BY <1>o, <2>1, <2>3 DEF Object
    <3>2. Advance(q, k, o.uid) \in Replica
      BY <2>1, <3>1, AdvanceFacts
    <3>3. [q EXCEPT !.pc = "patch", !.base = o.labels] \in Replica
      BY <2>1, <3>1 DEF Replica
    <3> QED BY <1>2, <2>3, <3>2, <3>3 DEF Get, Read, TypeOK, bounds
  <2> QED BY <2>2, <2>3
<1>p. ASSUME NEW p \in Replicas, NEW k \in Kinds, obj[k] # None, rep[p].kind = k
      PROVE  Patched(p, obj[k], rep[p].base,
                MergeLabels(rep[p].base, Required(k, rep[p].vpcUid))) \in Object
  <2>1. rep[p].base \in Labels /\ rep[p].vpcUid \in Nat
    BY <1>r DEF Replica
  <2>2. MergeLabels(rep[p].base, Required(k, rep[p].vpcUid)) \in Labels
    BY <2>1, MergeFacts
  <2> QED BY <1>o, <1>p, <2>1, <2>2, PatchedFacts
<1>3. ASSUME NEW p \in Replicas, Patch(p) PROVE TypeOK'
  <2> DEFINE q == rep[p]  k == q.kind
  <2>1. q \in Replica /\ k \in Kinds /\ q.vpcUid \in Nat
    BY <1>r DEF Replica
  <2>2. /\ obj[k] # None => Advance(q, k, obj[k].uid) \in Replica
        /\ [q EXCEPT !.pc = "failed"] \in Replica
    <3>1. obj[k] # None => obj[k].uid \in Nat
      BY <1>o, <2>1 DEF Object
    <3> QED BY <2>1, <3>1, AdvanceFacts DEF Replica
  <2>3. obj' \in [Kinds -> Object \union {None}]
    BY <1>3, <1>p, <2>1 DEF Patch, TypeOK
  <2>4. rep' \in [Replicas -> Replica]
    BY <1>3, <2>2 DEF Patch, TypeOK
  <2> QED BY <1>3, <2>3, <2>4 DEF Patch, TypeOK, bounds
<1>4. ASSUME NEW p \in Replicas, Create(p) PROVE TypeOK'
  <2> DEFINE q == rep[p]  k == q.kind
  <2>1. q \in Replica /\ k \in Kinds /\ q.vpcUid \in Nat /\ uids \in Nat
    BY <1>r DEF Replica, TypeOK
  <2>2. /\ Advance(q, k, uids + 1) \in Replica
        /\ Advance(q, k, 0) \in Replica
        /\ [q EXCEPT !.pc = "reread"] \in Replica
        /\ NewObject(p, k) \in Object
    BY <2>1, AdvanceFacts, NewObjectFacts DEF Replica
  <2>3. obj' \in [Kinds -> Object \union {None}] /\ uids' \in Nat
    BY <1>4, <2>1, <2>2 DEF Create, TypeOK
  <2>4. rep' \in [Replicas -> Replica]
    BY <1>4, <2>2 DEF Create, TypeOK
  <2> QED BY <1>4, <2>3, <2>4 DEF Create, TypeOK, bounds
<1>5. ASSUME NEW p \in Replicas, Reread(p) PROVE TypeOK'
  <2> DEFINE q == rep[p]
  <2>1. q \in Replica /\ [q EXCEPT !.pc = "failed"] \in Replica /\ "vpc" \in Kinds
    BY <1>r DEF Replica, Kinds
  <2>2. obj["vpc"] # None => Advance(q, "vpc", obj["vpc"].uid) \in Replica
    BY <1>o, <2>1, AdvanceFacts DEF Object
  <2> QED BY <1>5, <2>1, <2>2 DEF Reread, Read, TypeOK, bounds
<1>6. ASSUME NEW p \in Replicas, Fail(p) \/ Stop(p) PROVE TypeOK'
  <2>1. [rep[p] EXCEPT !.pc = "failed"] \in Replica
    BY <1>r DEF Replica
  <2> QED BY <1>6, <2>1, OffType DEF Fail, Stop, TypeOK, bounds
<1>7. ASSUME NEW p \in Replicas, LostReply(p) PROVE TypeOK'
  <2> DEFINE q == rep[p]  k == q.kind
  <2>1. q \in Replica /\ k \in Kinds /\ [q EXCEPT !.pc = "failed"] \in Replica
    BY <1>r DEF Replica
  <2>2. NewObject(p, k) \in Object
    BY <2>1, NewObjectFacts
  <2>3. obj' \in [Kinds -> Object \union {None}] /\ uids' \in Nat
    BY <1>7, <1>p, <2>1, <2>2 DEF LostReply, TypeOK
  <2>4. rep' \in [Replicas -> Replica]
    BY <1>7, <2>1 DEF LostReply, TypeOK
  <2> QED BY <1>7, <2>3, <2>4 DEF LostReply, TypeOK, bounds
<1>8. ASSUME NEW k \in Kinds, OthersCreate(k) PROVE TypeOK'
  <2>1. PICK c \in IF k = "subnet" THEN Cidrs ELSE {None} :
          obj' = [obj EXCEPT ![k] = [uid |-> uids + 1, labels |-> NoLabels, cidr |-> c]]
    BY <1>8 DEF OthersCreate
  <2>2. [uid |-> uids + 1, labels |-> NoLabels, cidr |-> c] \in Object
    BY NoLabelsType DEF Object, TypeOK
  <2>3. creates' \in 0..MaxCreates
    BY <1>8, MgmtAssumption DEF OthersCreate, TypeOK
  <2> QED BY <1>8, <2>1, <2>2, <2>3 DEF OthersCreate, Interfere, TypeOK
<1>9. ASSUME NEW k \in Kinds, OthersEdit(k) PROVE TypeOK'
  <2>1. obj[k] \in Object /\ obj[k].labels \in Labels
    BY <1>9, <1>o DEF OthersEdit, Object
  <2>2. ASSUME NEW key \in Keys
        PROVE  [obj EXCEPT ![k].labels[key] = IF key = "extra" THEN @ + 1 ELSE 0]
                  \in [Kinds -> Object \union {None}]
    <3> DEFINE v == IF key = "extra" THEN obj[k].labels[key] + 1 ELSE 0
               l == [obj[k].labels EXCEPT ![key] = v]
               n == [obj[k] EXCEPT !.labels = l]
    <3>1. v \in Nat
      BY <2>1 DEF Labels
    <3> HIDE DEF v
    <3>2. l \in Labels
      BY <2>1, <3>1 DEF Labels
    <3> HIDE DEF l
    <3>3. n \in Object
      BY <2>1, <3>2 DEF Object
    <3> HIDE DEF n
    <3>4. [obj EXCEPT ![k] = n] \in [Kinds -> Object \union {None}]
      BY <3>3 DEF TypeOK
    <3> QED BY <3>4 DEF n, l, v
  <2>3. obj' \in [Kinds -> Object \union {None}]
    BY <1>9, <2>2 DEF OthersEdit, TypeOK
  <2>4. edits' \in 0..MaxEdits
    BY <1>9, MgmtAssumption DEF OthersEdit, TypeOK
  <2> QED BY <1>9, <2>3, <2>4 DEF OthersEdit, Interfere, TypeOK
<1> QED BY <1>u, <1>1, <1>2, <1>3, <1>4, <1>5, <1>6, <1>7, <1>8, <1>9 DEF Next, Pass

\* The initial states are typed.
LEMMA TypeInit == Init => TypeOK
BY OffType, MgmtAssumption DEF Init, TypeOK

(* Every reachable state is well typed.                                    *)
THEOREM MgmtTypeCorrect == Spec => []TypeOK
<1>1. Init => TypeOK
  BY TypeInit
<1>2. TypeOK /\ [Next]_vars => TypeOK'
  BY TypeStep
<1> QED BY <1>1, <1>2, PTL DEF Spec


-----------------------------------------------------------------------------
(* An undisturbed pass only ever improves the objects *)

(* How the objects may change: none goes away or is replaced, no required  *)
(* label gets worse, and a new object is labelled from the start.          *)
Improves ==
    \A k \in Kinds :
        /\ obj[k] # None => obj'[k] # None /\ obj'[k].uid = obj[k].uid
        /\ \A key \in RequiredKeys(k) : LabelOK(k, key) => LabelOK(k, key)'
        /\ obj[k] = None => obj'[k] = None \/ Labelled(k)'

\* A patch of an undisturbed pass labels its object and improves the rest.
LEMMA PatchImproves ==
  ASSUME TypeOK, Shape, NEW p \in Replicas, NEW k \in Kinds, rep[p].kind = k,
         PatchWillDo(rep[p]), k # "vpc" => KnowsVpc(rep[p]),
         obj' = [obj EXCEPT ![k] =
             Patched(p, obj[k], rep[p].base,
                     MergeLabels(rep[p].base, Required(k, rep[p].vpcUid)))]
  PROVE  Improves /\ Labelled(k)'
<1> PICK q \in Replica : q = rep[p]
  BY DEF TypeOK
<1> PICK u \in Nat : u = q.vpcUid
  BY DEF Replica
<1> PICK base \in Labels : base = q.base
  BY DEF Replica
<1> PICK o \in Object : o = obj[k] /\ o # None
  BY MgmtAssumption DEF TypeOK, PatchWillDo
<1> PICK m \in Labels : m = MergeLabels(base, Required(k, u))
  BY MergeFacts
<1> PICK n \in Object : n = Patched(p, o, base, m)
  BY PatchedFacts
<1>1. obj' = [obj EXCEPT ![k] = n]
  OBVIOUS
<1>2. /\ obj["vpc"] # None
      /\ k # "vpc" => u = obj["vpc"].uid /\ u # 0
  BY DEF KnowsVpc, Shape, Kinds
<1>3. /\ n.uid = o.uid /\ n # None
      /\ n.labels = [key \in Keys |-> IF m[key] # base[key] THEN m[key]
                                      ELSE o.labels[key]]
  BY PatchedFacts, MgmtAssumption
<1>4. \A key \in RequiredKeys(k) :
        /\ key \in Keys
        /\ m[key] = IF key = "networkId" THEN u ELSE 1
        /\ Required(k, u)[key] = IF key = "networkId" THEN u ELSE 1
        /\ key = "networkId" => k # "vpc"
  BY <1>2, RequiredFacts, MergeFacts
<1>5. ASSUME NEW key \in RequiredKeys(k)
      PROVE  n.labels[key] = IF key = "networkId" THEN u ELSE 1
  <2>1. base[key] # m[key] \/ LabelOK(k, key)
    BY <1>4, <1>5 DEF PatchWillDo
  <2>2. LabelOK(k, key) => o.labels[key] = IF key = "networkId" THEN u ELSE 1
    BY <1>2, <1>4, <1>5 DEF LabelOK
  <2> QED BY <1>3, <1>4, <1>5, <2>1, <2>2
<1>6. obj'["vpc"] # None /\ obj'["vpc"].uid = obj["vpc"].uid
  BY <1>1, <1>2, <1>3 DEF TypeOK, Kinds
<1>7. obj'[k] = n
  BY <1>1 DEF TypeOK
<1>11. ASSUME NEW key \in RequiredKeys(k) PROVE LabelOK(k, key)'
  BY <1>2, <1>3, <1>4, <1>5, <1>6, <1>7, <1>11 DEF LabelOK
<1>8. Labelled(k)'
  BY <1>3, <1>7, <1>11 DEF Labelled
<1>9. ASSUME NEW j \in Kinds, j # k PROVE obj'[j] = obj[j]
  BY <1>1, <1>9 DEF TypeOK
<1>10. ASSUME NEW j \in Kinds, j # k, NEW key \in RequiredKeys(j), LabelOK(j, key)
       PROVE  LabelOK(j, key)'
  BY <1>2, <1>6, <1>9, <1>10 DEF LabelOK
<1> QED BY <1>3, <1>7, <1>8, <1>9, <1>10, <1>11 DEF Improves

\* So does the Create of an undisturbed pass.
LEMMA CreateImproves ==
  ASSUME TypeOK, Shape, NEW p \in Replicas, NEW k \in Kinds, rep[p].kind = k,
         k # "vpc" => KnowsVpc(rep[p]),
         obj[k] = None,
         obj' = [obj EXCEPT ![k] = NewObject(p, k)]
  PROVE  Improves /\ Labelled(k)' /\ obj'[k].uid = uids + 1
<1> PICK q \in Replica : q = rep[p]
  BY DEF TypeOK
<1> PICK u \in Nat : u = q.vpcUid
  BY DEF Replica
<1> PICK n \in Object : n = NewObject(p, k)
  BY NewObjectFacts
<1>1. obj'[k] = n /\ n # None
  BY MgmtAssumption DEF TypeOK
<1>2. n.labels = MergeLabels(NoLabels, Required(k, u)) /\ n.uid = uids + 1
  BY NewObjectFacts
<1>3. k # "vpc" => obj["vpc"] # None /\ u = obj["vpc"].uid /\ u # 0
  BY DEF KnowsVpc, Shape, Kinds
<1>4. ASSUME NEW key \in RequiredKeys(k), u # 0 \/ k = "vpc"
      PROVE  n.labels[key] = IF key = "networkId" THEN u ELSE 1
  <2>1. key \in DOMAIN Required(k, u)
    BY <1>4, RequiredFacts DEF Required
  <2>2. key \in Keys
    BY <1>4, RequiredFacts
  <2> QED BY <1>2, <2>1, <2>2, MergeFacts, NoLabelsType
<1>5. ASSUME NEW j \in Kinds, j # k PROVE obj'[j] = obj[j]
  BY <1>5 DEF TypeOK
<1>6. k # "vpc" => obj'["vpc"] = obj["vpc"]
  BY <1>5 DEF Kinds
<1>7. ASSUME NEW key \in RequiredKeys(k) PROVE LabelOK(k, key)'
  <2>1. k = "vpc" => key # "networkId"
    BY <1>7, RequiredFacts
  <2> QED BY <1>1, <1>3, <1>4, <1>6, <2>1 DEF LabelOK
<1>8. Labelled(k)'
  BY <1>1, <1>7 DEF Labelled
<1>9. ASSUME NEW j \in Kinds, NEW key \in RequiredKeys(j), LabelOK(j, key)
      PROVE  LabelOK(j, key)'
  <2>1. j # k
    BY <1>9 DEF LabelOK
  <2>2. key = "networkId" => k # "vpc"
    BY <1>9 DEF LabelOK
  <2> QED BY <1>5, <1>6, <1>9, <2>1, <2>2 DEF LabelOK
<1>10. \A j \in Kinds : obj[j] # None => j # k
  OBVIOUS
<1> QED BY <1>1, <1>2, <1>5, <1>8, <1>9, <1>10 DEF Improves

\* What a pass relies on survives improvements made by others.
LEMMA ImprovesKeepsPassOK ==
  ASSUME TypeOK, Shape, Improves, NEW r \in Replica, PassOK(r)
  PROVE  PassOK(r)'
<1>1. ASSUME NEW k \in Kinds, Labelled(k) PROVE Labelled(k)'
  BY <1>1 DEF Improves, Labelled
<1>2. KnowsVpc(r) => KnowsVpc(r)'
  BY DEF Improves, KnowsVpc, Kinds
<1>3. r.kind \in Kinds
  BY DEF Replica
<1>4. PatchWillDo(r) => PatchWillDo(r)'
  BY <1>2, <1>3 DEF Improves, PatchWillDo
<1>5. ASSUME NEW k \in Kinds, Past(r, k) PROVE Labelled(k)'
  BY <1>1, <1>5 DEF PassOK
<1>6. obj[r.kind] = None \/ Labelled(r.kind)
        => obj'[r.kind] = None \/ Labelled(r.kind)'
  BY <1>1, <1>3 DEF Improves
<1>7. obj["vpc"] # None => obj'["vpc"] # None
  BY DEF Improves, Kinds
<1> QED BY <1>2, <1>4, <1>5, <1>6, <1>7 DEF PassOK


\* A step that leaves the objects alone improves them.
LEMMA StutterImproves ==
  ASSUME obj' = obj
  PROVE  Improves
BY DEF Improves, LabelOK

\* Going on to the next object is right once this one is labelled.
LEMMA AdvanceOK ==
  ASSUME NEW q \in Replica, NEW k \in Kinds, NEW u \in Nat, q.kind = k,
         q.pc # "ready", PassOK(q)', Labelled(k)',
         k = "vpc" => obj'["vpc"].uid = u
  PROVE  PassOK(Advance(q, k, u))'
<1> PICK r \in Replica : r = Advance(q, k, u)
  BY AdvanceFacts
<1>1. ASSUME NEW j \in Kinds, Past(r, j) PROVE Labelled(j)'
  <2>1. Past(q, j) \/ j = k
    BY <1>1, AdvanceFacts DEF Past, Kinds
  <2> QED BY <1>1, <2>1 DEF PassOK
<1>2. r.kind # "vpc" => KnowsVpc(r)'
  <2>1. CASE k = "vpc"
    BY <2>1, AdvanceFacts DEF KnowsVpc, Labelled
  <2>2. CASE k # "vpc"
    <3>1. KnowsVpc(q)'
      BY <2>2 DEF PassOK
    <3>2. r.vpcUid = q.vpcUid
      BY <2>2, AdvanceFacts DEF Kinds
    <3> QED BY <3>1, <3>2 DEF KnowsVpc
  <2> QED BY <2>1, <2>2
<1>3. r.pc \in {"get", "ready"}
  BY AdvanceFacts DEF Kinds
<1> QED BY <1>1, <1>2, <1>3 DEF PassOK

\* A step of one pass keeps the invariant if it improves the objects.
LEMMA OwnStep ==
  ASSUME TypeOK, PassInv, NEW p \in Replicas, NEW r \in Replica, Running(p),
         rep' = [rep EXCEPT ![p] = r], clean' = clean,
         clean[p] => Improves,
         clean[p] /\ r.pc # "failed" => PassOK(r)',
         r.pc \in {"get", "patch", "create", "reread", "ready", "failed"},
         r.pc = "ready" => r.kind = "nad",
         r.pc = "reread" => r.kind = "vpc",
         \A k \in Kinds : obj'[k] # None => obj'[k].uid # 0
  PROVE  PassInv'
<1>1. rep'[p] = r /\ \A x \in Replicas : x # p => rep'[x] = rep[x]
  BY DEF TypeOK
<1>2. Shape'
  BY <1>1 DEF PassInv, Shape
<1>3. ASSUME NEW x \in Replicas, clean[x], Active(x)'
      PROVE  \A y \in Replicas : Running(y) => clean[y]
  <2>1. Active(x)
    BY <1>1, <1>3 DEF Active, Running
  <2> QED BY <1>3, <2>1 DEF PassInv, CleanTogether
<1>4. ASSUME NEW y \in Replicas, Running(y)' PROVE Running(y)
  BY <1>1, <1>4 DEF Running
<1>5. CleanTogether'
  <2> SUFFICES ASSUME NEW x \in Replicas, clean'[x], Active(x)',
                      NEW y \in Replicas, Running(y)'
               PROVE  clean'[y]
    BY DEF CleanTogether
  <2> QED BY <1>3, <1>4
<1>6. ASSUME NEW x \in Replicas, clean[x], Active(x)' PROVE PassOK(rep[x])' \/ x = p
  <2> SUFFICES ASSUME x # p PROVE PassOK(rep[x])'
    OBVIOUS
  <2>1. clean[p]
    BY <1>3, <1>6
  <2>2. Active(x)
    BY <1>1, <1>6 DEF Active, Running
  <2> PICK q \in Replica : q = rep[x]
    BY DEF TypeOK
  <2>3. PassOK(q)
    BY <1>6, <2>2 DEF PassInv
  <2>4. PassOK(q)'
    BY <2>1, <2>3, ImprovesKeepsPassOK DEF PassInv
  <2>5. q = rep'[x]
    BY <1>1
  <2> QED BY <2>4, <2>5
<1>7. ASSUME clean[p], Active(p)' PROVE PassOK(rep[p])'
  <2>1. r.pc # "failed"
    BY <1>1, <1>7 DEF Active, Running
  <2>2. PassOK(r)' /\ r = rep'[p]
    BY <1>1, <1>7, <2>1
  <2> QED BY <2>2
<1>8. \A x \in Replicas : clean'[x] /\ Active(x)' => PassOK(rep[x])'
  BY <1>6, <1>7
<1> QED BY <1>2, <1>5, <1>8 DEF PassInv

\* What an undisturbed pass knows before its next step.
LEMMA OwnFacts ==
  ASSUME TypeOK, PassInv, NEW p \in Replicas, Running(p)
  PROVE  /\ rep[p] \in Replica /\ rep[p].kind \in Kinds
         /\ rep[p].vpcUid \in Nat /\ rep[p].base \in Labels
         /\ clean[p] => PassOK(rep[p])
         /\ Shape
BY DEF TypeOK, Replica, PassInv, Active

\* A read keeps PassInv.
LEMMA GetKeepsInv ==
  ASSUME TypeOK, PassInv, NEW p \in Replicas, Get(p)
  PROVE  PassInv'
<1>1. Running(p) /\ obj' = obj /\ clean' = clean
  BY DEF Get, Running
<1> PICK q \in Replica : q = rep[p]
  BY DEF TypeOK
<1> PICK k \in Kinds : k = q.kind
  BY DEF Replica
<1> PICK u \in Nat : u = q.vpcUid
  BY DEF Replica
<1>2. q.pc = "get"
  BY DEF Get
<1>3. Improves
  BY <1>1, StutterImproves
<1>4. clean[p] => PassOK(q)'
  BY <1>1, <1>3, OwnFacts, ImprovesKeepsPassOK
<1>5. \A j \in Kinds : obj'[j] # None => obj'[j].uid # 0
  BY <1>1 DEF PassInv, Shape
<1>6. CASE obj[k] = None
  <2> PICK r \in Replica : r = [q EXCEPT !.pc = "create"]
    BY DEF Replica
  <2>1. rep' = [rep EXCEPT ![p] = r]
    BY <1>6 DEF Get, Read
  <2>2. r.pc = "create" /\ r.kind = k /\ r.vpcUid = u
    BY DEF Replica
  <2>3. ASSUME clean[p] PROVE PassOK(r)'
    <3>1. \A j \in Kinds : Past(r, j) => Past(q, j)
      BY <2>2 DEF Past, Kinds
    <3>2. KnowsVpc(q)' => KnowsVpc(r)'
      BY <2>2 DEF KnowsVpc
    <3> QED BY <1>1, <1>4, <1>6, <2>2, <2>3, <3>1, <3>2 DEF PassOK
  <2> QED BY <1>1, <1>3, <1>5, <2>1, <2>2, <2>3, OwnStep
<1>7. CASE obj[k] # None
  <2> PICK o \in Object : o = obj[k]
    BY <1>7 DEF TypeOK
  <2>1. o.uid \in Nat /\ o.labels \in Labels
    BY DEF Object
  <2>2. ASSUME clean[p]
        PROVE  /\ k # "vpc" => obj["vpc"] # None /\ u = obj["vpc"].uid
               /\ u # 0 \/ k = "vpc"
    BY <1>1, <2>2, OwnFacts DEF PassOK, KnowsVpc, Shape, Kinds
  <2>3. ASSUME clean[p], NEW key \in RequiredKeys(k),
               o.labels[key] = Required(k, u)[key]
        PROVE  LabelOK(k, key)
    <3>1. Required(k, u)[key] = IF key = "networkId" THEN u ELSE 1
      BY <2>2, <2>3, RequiredFacts
    <3>2. key = "networkId" => k # "vpc"
      BY <2>3, RequiredFacts
    <3> QED BY <1>7, <2>2, <2>3, <3>1, <3>2 DEF LabelOK
  <2>4. CASE MergeLabels(o.labels, Required(k, u)) = o.labels
    <3> PICK r \in Replica : r = Advance(q, k, o.uid)
      BY <2>1, AdvanceFacts
    <3>1. rep' = [rep EXCEPT ![p] = r]
      BY <1>7, <2>4 DEF Get, Read
    <3>2. /\ r.pc \in {"get", "ready"}
          /\ r.pc = "ready" => r.kind = "nad"
      BY <2>1, AdvanceShape
    <3>3. ASSUME clean[p] PROVE PassOK(r)'
      <4>1. ASSUME NEW key \in RequiredKeys(k) PROVE LabelOK(k, key)
        <5>1. key \in DOMAIN Required(k, u) /\ key \in Keys
          BY <2>2, <3>3, <4>1, RequiredFacts
        <5>2. o.labels[key] = Required(k, u)[key]
          BY <2>1, <2>4, <5>1, MergeFacts, RequiredFacts
        <5> QED BY <2>3, <3>3, <4>1, <5>2
      <4>2. Labelled(k)
        BY <1>7, <4>1 DEF Labelled
      <4>3. Labelled(k)'
        BY <1>1, <4>2 DEF Labelled, LabelOK
      <4>4. k = "vpc" => obj'["vpc"].uid = o.uid
        BY <1>1
      <4> QED BY <1>2, <1>4, <2>1, <3>3, <4>3, <4>4, AdvanceOK
    <3> QED BY <1>1, <1>3, <1>5, <3>1, <3>2, <3>3, OwnStep
  <2>5. CASE MergeLabels(o.labels, Required(k, u)) # o.labels
    <3> PICK r \in Replica : r = [q EXCEPT !.pc = "patch", !.base = o.labels]
      BY <2>1 DEF Replica
    <3>1. rep' = [rep EXCEPT ![p] = r]
      BY <1>7, <2>5 DEF Get, Read
    <3>2. r.pc = "patch" /\ r.kind = k /\ r.vpcUid = u /\ r.base = o.labels
      BY DEF Replica
    <3>3. ASSUME clean[p] PROVE PassOK(r)'
      <4>1. \A j \in Kinds : Past(r, j) => Past(q, j)
        BY <3>2 DEF Past, Kinds
      <4>2. k # "vpc" => KnowsVpc(r)'
        BY <1>1, <1>7, <2>2, <3>2, <3>3 DEF KnowsVpc
      <4>3. ASSUME NEW key \in RequiredKeys(k)
            PROVE  o.labels[key] # Required(k, u)[key] \/ LabelOK(k, key)'
        <5>1. CASE k # "vpc"
          <6>1. o.labels[key] # Required(k, u)[key] \/ LabelOK(k, key)
            BY <2>3, <3>3, <4>3, <5>1
          <6> QED BY <1>1, <6>1 DEF LabelOK
        <5>2. CASE k = "vpc"
          <6>1. Required(k, u)[key] = 1 /\ key # "networkId"
            BY <4>3, <5>2, RequiredFacts
          <6> QED BY <1>1, <1>7, <6>1 DEF LabelOK
        <5> QED BY <5>1, <5>2
      <4>4. PatchWillDo(r)'
        BY <1>1, <1>7, <3>2, <4>3 DEF PatchWillDo
      <4> QED BY <1>4, <3>2, <3>3, <4>1, <4>2, <4>4 DEF PassOK
    <3> QED BY <1>1, <1>3, <1>5, <3>1, <3>2, <3>3, OwnStep
  <2> QED BY <2>4, <2>5
<1> QED BY <1>6, <1>7


\* The write of Patch, whether or not its answer arrives.
LEMMA PatchWrite ==
  ASSUME TypeOK, PassInv, NEW p \in Replicas, rep[p].pc = "patch",
         NEW k \in Kinds, rep[p].kind = k, obj[k] # None,
         obj' = [obj EXCEPT ![k] = Patched(p, obj[k], rep[p].base,
                    MergeLabels(rep[p].base, Required(k, rep[p].vpcUid)))]
  PROVE  /\ clean[p] => Improves /\ Labelled(k)' /\ PassOK(rep[p])
         /\ \A j \in Kinds : obj'[j] # None => obj'[j].uid # 0
<1>1. Running(p)
  BY DEF Running
<1>2. rep[p].base \in Labels /\ rep[p].vpcUid \in Nat /\ Shape
  BY <1>1, OwnFacts
<1>3. MergeLabels(rep[p].base, Required(k, rep[p].vpcUid)) \in Labels
  BY <1>2, MergeFacts
<1>4. obj[k] \in Object
  BY DEF TypeOK
<1>5. Patched(p, obj[k], rep[p].base,
              MergeLabels(rep[p].base, Required(k, rep[p].vpcUid))).uid = obj[k].uid
  BY <1>4 DEF Patched, Object
<1>6. \A j \in Kinds : obj'[j] # None => obj'[j].uid # 0
  BY <1>2, <1>5 DEF TypeOK, Shape
<1>7. ASSUME clean[p]
      PROVE  PassOK(rep[p]) /\ PatchWillDo(rep[p]) /\ (k # "vpc" => KnowsVpc(rep[p]))
  BY <1>1, <1>7, OwnFacts DEF PassOK
<1>8. ASSUME clean[p] PROVE Improves /\ Labelled(k)'
  BY <1>2, <1>7, <1>8, PatchImproves
<1> QED BY <1>6, <1>7, <1>8

\* A patch keeps PassInv.
LEMMA PatchKeepsInv ==
  ASSUME TypeOK, PassInv, NEW p \in Replicas, Patch(p)
  PROVE  PassInv'
<1>1. Running(p) /\ clean' = clean /\ rep[p].pc = "patch"
  BY DEF Patch, Running
<1> PICK q \in Replica : q = rep[p]
  BY DEF TypeOK
<1> PICK k \in Kinds : k = q.kind
  BY DEF Replica
<1>2. CASE obj[k] = None
  <2> PICK r \in Replica : r = [q EXCEPT !.pc = "failed"]
    BY DEF Replica
  <2>1. rep' = [rep EXCEPT ![p] = r] /\ r.pc = "failed"
    BY <1>2 DEF Patch, Replica
  <2>2. obj' = obj
    BY <1>2 DEF Patch, TypeOK
  <2>3. \A j \in Kinds : obj'[j] # None => obj'[j].uid # 0
    BY <2>2 DEF PassInv, Shape
  <2> QED BY <1>1, <2>1, <2>2, <2>3, StutterImproves, OwnStep
<1>3. CASE obj[k] # None
  <2> PICK u \in Nat : u = obj[k].uid
    BY <1>3 DEF TypeOK, Object
  <2> PICK r \in Replica : r = Advance(q, k, u)
    BY AdvanceFacts
  <2>1. rep' = [rep EXCEPT ![p] = r]
    BY <1>3 DEF Patch
  <2>2. obj' = [obj EXCEPT ![k] = Patched(p, obj[k], rep[p].base,
                    MergeLabels(rep[p].base, Required(k, rep[p].vpcUid)))]
    BY <1>3 DEF Patch
  <2>3. /\ clean[p] => Improves /\ Labelled(k)' /\ PassOK(rep[p])
        /\ \A j \in Kinds : obj'[j] # None => obj'[j].uid # 0
    BY <1>1, <1>3, <2>2, PatchWrite
  <2>4. r.pc \in {"get", "ready"} /\ (r.pc = "ready" => r.kind = "nad")
    BY AdvanceShape
  <2>5. ASSUME clean[p] PROVE PassOK(r)'
    <3>1. PassOK(q) /\ PassOK(q)'
      BY <2>3, <2>5, ImprovesKeepsPassOK DEF PassInv
    <3>3. obj'[k].uid = u
      <4>1. obj[k] \in Object
        BY <1>3 DEF TypeOK
      <4> QED BY <2>2, <4>1 DEF Patched, TypeOK, Object
    <3> QED BY <1>1, <2>3, <2>5, <3>1, <3>3, AdvanceOK
  <2> QED BY <1>1, <2>1, <2>3, <2>4, <2>5, OwnStep
<1> QED BY <1>2, <1>3

\* The write of Create, whether or not its answer arrives.
LEMMA CreateWrite ==
  ASSUME TypeOK, PassInv, NEW p \in Replicas, rep[p].pc = "create",
         NEW k \in Kinds, rep[p].kind = k, obj[k] = None,
         obj' = [obj EXCEPT ![k] = NewObject(p, k)]
  PROVE  /\ clean[p] => Improves /\ Labelled(k)' /\ PassOK(rep[p])
         /\ obj'[k].uid = uids + 1
         /\ \A j \in Kinds : obj'[j] # None => obj'[j].uid # 0
<1>1. Running(p)
  BY DEF Running
<1>2. Shape
  BY <1>1, OwnFacts
<1>3. obj'[k].uid = uids + 1
  BY NewObjectFacts DEF TypeOK
<1>4. \A j \in Kinds : obj'[j] # None => obj'[j].uid # 0
  BY <1>2, <1>3 DEF TypeOK, Shape
<1>5. ASSUME clean[p] PROVE PassOK(rep[p]) /\ Improves /\ Labelled(k)'
  <2>1. PassOK(rep[p])
    BY <1>1, <1>5, OwnFacts
  <2>2. k # "vpc" => KnowsVpc(rep[p])
    BY <2>1 DEF PassOK
  <2> QED BY <1>2, <2>1, <2>2, CreateImproves
<1> QED BY <1>3, <1>4, <1>5

\* A create keeps PassInv.
LEMMA CreateKeepsInv ==
  ASSUME TypeOK, PassInv, NEW p \in Replicas, Create(p)
  PROVE  PassInv'
<1>1. Running(p) /\ clean' = clean /\ rep[p].pc = "create"
  BY DEF Create, Running
<1> PICK q \in Replica : q = rep[p]
  BY DEF TypeOK
<1> PICK k \in Kinds : k = q.kind
  BY DEF Replica
<1>u. uids \in Nat
  BY DEF TypeOK
<1>2. CASE obj[k] = None
  <2> PICK u \in Nat : u = uids + 1
    BY <1>u
  <2> PICK r \in Replica : r = Advance(q, k, u)
    BY AdvanceFacts
  <2>1. rep' = [rep EXCEPT ![p] = r] /\ obj' = [obj EXCEPT ![k] = NewObject(p, k)]
    BY <1>2 DEF Create
  <2>2. /\ clean[p] => Improves /\ Labelled(k)' /\ PassOK(rep[p])
        /\ obj'[k].uid = u
        /\ \A j \in Kinds : obj'[j] # None => obj'[j].uid # 0
    BY <1>1, <1>2, <2>1, CreateWrite
  <2>3. r.pc \in {"get", "ready"} /\ (r.pc = "ready" => r.kind = "nad")
    BY AdvanceShape
  <2>4. ASSUME clean[p] PROVE PassOK(r)'
    <3>1. PassOK(q)'
      BY <2>2, <2>4, ImprovesKeepsPassOK DEF PassInv
    <3> QED BY <1>1, <2>2, <2>4, <3>1, AdvanceOK
  <2> QED BY <1>1, <2>1, <2>2, <2>3, <2>4, OwnStep
<1>3. CASE obj[k] # None
  <2>1. obj' = obj /\ Improves
    BY <1>3, StutterImproves DEF Create
  <2>2. \A j \in Kinds : obj'[j] # None => obj'[j].uid # 0
    BY <2>1 DEF PassInv, Shape
  <2>3. ASSUME clean[p] PROVE PassOK(q)' /\ Labelled(k)'
    <3>1. PassOK(q)'
      BY <1>1, <2>1, <2>3, OwnFacts, ImprovesKeepsPassOK
    <3> QED BY <1>1, <1>3, <2>1, <3>1 DEF PassOK
  <2>4. CASE k = "vpc"
    <3> PICK r \in Replica : r = [q EXCEPT !.pc = "reread"]
      BY DEF Replica
    <3>1. rep' = [rep EXCEPT ![p] = r]
      BY <1>3, <2>4 DEF Create
    <3>2. r.pc = "reread" /\ r.kind = k
      BY DEF Replica
    <3>3. ASSUME clean[p] PROVE PassOK(r)'
      <4>1. \A j \in Kinds : ~Past(r, j)
        BY <2>4, <3>2 DEF Past, Kinds
      <4> QED BY <1>3, <2>1, <2>3, <2>4, <3>2, <3>3, <4>1 DEF PassOK
    <3> QED BY <1>1, <2>1, <2>2, <2>4, <3>1, <3>2, <3>3, OwnStep
  <2>5. CASE k # "vpc"
    <3> PICK r \in Replica : r = Advance(q, k, 0)
      BY AdvanceFacts
    <3>1. rep' = [rep EXCEPT ![p] = r]
      BY <1>3, <2>5 DEF Create
    <3>2. r.pc \in {"get", "ready"} /\ (r.pc = "ready" => r.kind = "nad")
      BY AdvanceShape
    <3>3. ASSUME clean[p] PROVE PassOK(r)'
      BY <1>1, <2>3, <2>5, <3>3, AdvanceOK
    <3> QED BY <1>1, <2>1, <2>2, <3>1, <3>2, <3>3, OwnStep
  <2> QED BY <2>4, <2>5
<1> QED BY <1>2, <1>3

\* The second read after a lost create keeps PassInv.
LEMMA RereadKeepsInv ==
  ASSUME TypeOK, PassInv, NEW p \in Replicas, Reread(p)
  PROVE  PassInv'
<1>1. Running(p) /\ clean' = clean /\ rep[p].pc = "reread" /\ obj' = obj
  BY DEF Reread, Running
<1> PICK q \in Replica : q = rep[p]
  BY DEF TypeOK
<1>2. q.kind = "vpc" /\ "vpc" \in Kinds
  BY <1>1 DEF PassInv, Shape, Kinds
<1>3. Improves
  BY <1>1, StutterImproves
<1>4. \A j \in Kinds : obj'[j] # None => obj'[j].uid # 0
  BY <1>1 DEF PassInv, Shape
<1>5. CASE obj["vpc"] = None
  <2> PICK r \in Replica : r = [q EXCEPT !.pc = "failed"]
    BY DEF Replica
  <2>1. rep' = [rep EXCEPT ![p] = r] /\ r.pc = "failed"
    BY <1>5 DEF Reread, Read, Replica
  <2> QED BY <1>1, <1>3, <1>4, <2>1, OwnStep
<1>6. CASE obj["vpc"] # None
  <2> PICK u \in Nat : u = obj["vpc"].uid
    BY <1>2, <1>6 DEF TypeOK, Object
  <2> PICK r \in Replica : r = Advance(q, "vpc", u)
    BY <1>2, AdvanceFacts
  <2>1. rep' = [rep EXCEPT ![p] = r]
    BY <1>6 DEF Reread, Read
  <2>2. r.pc \in {"get", "ready"} /\ (r.pc = "ready" => r.kind = "nad")
    BY <1>2, AdvanceShape
  <2>3. ASSUME clean[p] PROVE PassOK(r)'
    <3>1. PassOK(q)'
      BY <1>1, <1>3, <2>3, OwnFacts, ImprovesKeepsPassOK
    <3>2. Labelled("vpc")'
      BY <1>1, <1>2, <1>6, <3>1 DEF PassOK
    <3> QED BY <1>1, <1>2, <3>1, <3>2, AdvanceOK
  <2> QED BY <1>1, <1>3, <1>4, <2>1, <2>2, <2>3, OwnStep
<1> QED BY <1>5, <1>6

\* A failing pass keeps PassInv.
LEMMA FailKeepsInv ==
  ASSUME TypeOK, PassInv, NEW p \in Replicas, Fail(p) \/ LostReply(p)
  PROVE  PassInv'
<1>1. Running(p) /\ clean' = clean
  BY DEF Fail, LostReply, Running
<1> PICK q \in Replica : q = rep[p]
  BY DEF TypeOK
<1> PICK k \in Kinds : k = q.kind
  BY DEF Replica
<1> PICK r \in Replica : r = [q EXCEPT !.pc = "failed"]
  BY DEF Replica
<1>2. rep' = [rep EXCEPT ![p] = r] /\ r.pc = "failed"
  BY DEF Fail, LostReply, Replica
<1>3. /\ clean[p] => Improves
      /\ \A j \in Kinds : obj'[j] # None => obj'[j].uid # 0
  <2>1. CASE Fail(p)
    <3>1. obj' = obj
      BY <2>1 DEF Fail
    <3> QED BY <3>1, StutterImproves DEF PassInv, Shape
  <2>2. CASE LostReply(p) /\ q.pc = "create"
    BY <2>2, CreateWrite DEF LostReply
  <2>3. CASE LostReply(p) /\ q.pc # "create"
    BY <2>3, PatchWrite DEF LostReply
  <2> QED BY <2>1, <2>2, <2>3
<1> QED BY <1>1, <1>2, <1>3, OwnStep

\* A pass begins undisturbed only if all the passes under way are.
LEMMA StartKeepsInv ==
  ASSUME TypeOK, PassInv, NEW p \in Replicas, Start(p)
  PROVE  PassInv'
<1> PICK r \in Replica : r = [Off EXCEPT !.pc = "get"]
  BY OffType DEF Replica
<1>1. r.pc = "get" /\ r.kind = "vpc"
  BY DEF Off
<1>2. obj' = obj /\ rep' = [rep EXCEPT ![p] = r]
  BY DEF Start
<1>3. clean'[p] = (\A y \in Replicas : Running(y) => clean[y])
  BY DEF Start, TypeOK
<1>4. \A x \in Replicas : x # p => clean'[x] = clean[x]
  BY DEF Start, TypeOK
<1>5. rep'[p] = r /\ \A x \in Replicas : x # p => rep'[x] = rep[x]
  BY <1>2 DEF TypeOK
<1>6. Shape'
  BY <1>1, <1>2, <1>5 DEF PassInv, Shape
<1>7. ASSUME NEW x \in Replicas, clean'[x], Active(x)'
      PROVE  \A y \in Replicas : Running(y) => clean[y]
  <2>1. CASE x = p
    BY <1>3, <1>7, <2>1
  <2>2. CASE x # p
    <3>1. clean[x] /\ Active(x)
      BY <1>4, <1>5, <1>7, <2>2 DEF Active, Running
    <3> QED BY <3>1 DEF PassInv, CleanTogether
  <2> QED BY <2>1, <2>2
<1>8. CleanTogether'
  <2> SUFFICES ASSUME NEW x \in Replicas, clean'[x], Active(x)',
                      NEW y \in Replicas, Running(y)'
               PROVE  clean'[y]
    BY DEF CleanTogether
  <2>1. \A z \in Replicas : Running(z) => clean[z]
    BY <1>7
  <2>2. CASE y = p
    BY <1>3, <2>1, <2>2
  <2>3. CASE y # p
    <3>1. Running(y)
      BY <1>5, <2>3 DEF Running
    <3> QED BY <1>4, <2>1, <2>3, <3>1
  <2> QED BY <2>2, <2>3
<1>9. ASSUME NEW x \in Replicas, clean'[x], Active(x)' PROVE PassOK(rep[x])'
  <2>1. CASE x = p
    <3>1. PassOK(r)'
      BY <1>1 DEF PassOK, Past, Kinds
    <3> QED BY <1>5, <2>1, <3>1
  <2>2. CASE x # p
    <3> PICK q \in Replica : q = rep[x]
      BY DEF TypeOK
    <3>1. clean[x] /\ Active(x)
      BY <1>4, <1>5, <1>9, <2>2 DEF Active, Running
    <3>2. PassOK(q)
      BY <3>1 DEF PassInv
    <3>3. PassOK(q)'
      BY <1>2, <3>2, StutterImproves, ImprovesKeepsPassOK DEF PassInv
    <3> QED BY <1>5, <2>2, <3>3
  <2> QED BY <2>1, <2>2
<1> QED BY <1>6, <1>8, <1>9 DEF PassInv

\* A replica that stops keeps PassInv.
LEMMA StopKeepsInv ==
  ASSUME TypeOK, PassInv, NEW p \in Replicas, Stop(p)
  PROVE  PassInv'
<1>1. obj' = obj /\ clean' = clean
  BY DEF Stop
<1>2. rep'[p] = Off /\ \A x \in Replicas : x # p => rep'[x] = rep[x]
  BY OffType DEF Stop, TypeOK
<1>4. Shape'
  BY <1>1, <1>2 DEF PassInv, Shape, Off
<1>5. CleanTogether'
  <2> SUFFICES ASSUME NEW x \in Replicas, clean'[x], Active(x)',
                      NEW y \in Replicas, Running(y)'
               PROVE  clean'[y]
    BY DEF CleanTogether
  <2>1. clean[x] /\ Active(x) /\ Running(y)
    BY <1>1, <1>2 DEF Active, Running, Off
  <2> QED BY <1>1, <2>1 DEF PassInv, CleanTogether
<1>6. ASSUME NEW x \in Replicas, clean'[x], Active(x)' PROVE PassOK(rep[x])'
  <2> PICK q \in Replica : q = rep[x]
    BY DEF TypeOK
  <2>1. clean[x] /\ Active(x) /\ x # p
    BY <1>1, <1>2, <1>6 DEF Active, Running, Off
  <2>2. PassOK(q)
    BY <2>1 DEF PassInv
  <2>3. PassOK(q)'
    BY <1>1, <2>2, StutterImproves, ImprovesKeepsPassOK DEF PassInv
  <2> QED BY <1>2, <2>1, <2>3
<1> QED BY <1>4, <1>5, <1>6 DEF PassInv

\* After others have interfered no pass is undisturbed.
LEMMA OthersKeepInv ==
  ASSUME TypeOK, PassInv, NEW k \in Kinds, OthersCreate(k) \/ OthersEdit(k)
  PROVE  PassInv'
<1>1. rep' = rep /\ \A x \in Replicas : ~clean'[x]
  BY DEF OthersCreate, OthersEdit, Interfere
<1>2. ASSUME NEW j \in Kinds, obj'[j] # None PROVE obj'[j].uid # 0
  <2>1. CASE OthersCreate(k)
    <3>1. j = k => obj'[j].uid = uids + 1
      BY <2>1 DEF OthersCreate, TypeOK
    <3>2. j # k => obj'[j] = obj[j]
      BY <2>1 DEF OthersCreate, TypeOK
    <3> QED BY <1>2, <3>1, <3>2 DEF TypeOK, PassInv, Shape
  <2>2. CASE OthersEdit(k)
    <3>1. j # k => obj'[j] = obj[j]
      BY <2>2 DEF OthersEdit, TypeOK
    <3>2. j = k => obj'[j].uid = obj[k].uid /\ obj[k] # None
      BY <1>2, <2>2 DEF OthersEdit, TypeOK, Object
    <3> QED BY <1>2, <3>1, <3>2 DEF PassInv, Shape
  <2> QED BY <2>1, <2>2
<1>3. Shape'
  BY <1>1, <1>2 DEF PassInv, Shape
<1> QED BY <1>1, <1>3 DEF PassInv, CleanTogether

\* Every step keeps PassInv.
LEMMA PassStep ==
  ASSUME TypeOK, PassInv, [Next]_vars
  PROVE  PassInv'
<1>1. ASSUME NEW p \in Replicas, Start(p) PROVE PassInv'
  BY <1>1, StartKeepsInv
<1>2. ASSUME NEW p \in Replicas, Pass(p) PROVE PassInv'
  BY <1>2, GetKeepsInv, PatchKeepsInv, CreateKeepsInv, RereadKeepsInv,
     FailKeepsInv DEF Pass
<1>3. ASSUME NEW p \in Replicas, Stop(p) PROVE PassInv'
  BY <1>3, StopKeepsInv
<1>4. ASSUME NEW k \in Kinds, OthersCreate(k) \/ OthersEdit(k) PROVE PassInv'
  BY <1>4, OthersKeepInv
<1>5. ASSUME UNCHANGED vars PROVE PassInv'
  <2>1. Shape' /\ CleanTogether'
    BY <1>5 DEF vars, PassInv, Shape, CleanTogether, Active, Running
  <2>2. ASSUME NEW x \in Replicas, clean'[x], Active(x)' PROVE PassOK(rep[x])'
    <3> PICK q \in Replica : q = rep[x]
      BY DEF TypeOK
    <3>1. clean[x] /\ Active(x)
      BY <1>5, <2>2 DEF vars, Active, Running
    <3>2. PassOK(q)
      BY <3>1 DEF PassInv
    <3>3. obj' = obj /\ rep' = rep
      BY <1>5 DEF vars
    <3>4. PassOK(q)'
      BY <3>2, <3>3, StutterImproves, ImprovesKeepsPassOK DEF PassInv
    <3> QED BY <3>3, <3>4
  <2> QED BY <2>1, <2>2 DEF PassInv
<1> QED BY <1>1, <1>2, <1>3, <1>4, <1>5 DEF Next

\* PassInv holds initially.
LEMMA PassInit == Init => PassInv
BY DEF Init, Off, PassInv, Shape, CleanTogether, Active, Running, Kinds

(* PassInv is an invariant.                                                *)
THEOREM PassInvariant == Spec => []PassInv
<1>1. TypeOK /\ PassInv /\ [Next]_vars => PassInv'
  BY PassStep
<1> QED BY <1>1, PassInit, MgmtTypeCorrect, PTL DEF Spec

(* A pass of EnsureManagementNetwork that reports ready and met only other *)
(* replicas has left the Vpc, the Subnet and the NAD in place with every   *)
(* required label, for any number of replicas, starts and interventions.   *)
THEOREM PassRepairs == Spec => []UndisturbedPassRepairs
<1>1. PassInv => UndisturbedPassRepairs
  <2> SUFFICES ASSUME PassInv, NEW p \in Replicas, rep[p].pc = "ready", clean[p]
               PROVE  Ready
    BY DEF UndisturbedPassRepairs
  <2>1. PassOK(rep[p]) /\ rep[p].kind = "nad"
    BY DEF PassInv, Shape, Active
  <2>2. \A k \in Kinds : Past(rep[p], k)
    BY <2>1 DEF Past, Kinds
  <2> QED BY <2>1, <2>2 DEF PassOK, Ready
<1> QED BY <1>1, PassInvariant, PTL

\* What a step of kube-vim writes: nothing, a new object or a patch.
LEMMA Writes ==
  ASSUME TypeOK, Next, rep' # rep
  PROVE  \/ obj' = obj
         \/ \E p \in Replicas, k \in Kinds :
               /\ obj[k] = None /\ rep[p].pc = "create" /\ rep[p].kind = k
               /\ obj' = [obj EXCEPT ![k] = NewObject(p, k)]
         \/ \E p \in Replicas, k \in Kinds :
               /\ obj[k] # None /\ rep[p].pc = "patch" /\ rep[p].kind = k
               /\ obj' = [obj EXCEPT ![k] = Patched(p, obj[k], rep[p].base,
                            MergeLabels(rep[p].base, Required(k, rep[p].vpcUid)))]
<1>1. ASSUME NEW k \in Kinds PROVE ~OthersCreate(k) /\ ~OthersEdit(k)
  BY DEF OthersCreate, OthersEdit
<1> PICK p \in Replicas : Start(p) \/ Pass(p) \/ Stop(p)
  BY <1>1 DEF Next
<1> PICK k \in Kinds : rep[p].kind = k
  BY DEF TypeOK, Replica
<1>2. CASE Start(p) \/ Stop(p) \/ Get(p) \/ Reread(p) \/ Fail(p)
  BY <1>2 DEF Start, Stop, Get, Reread, Fail
<1>3. CASE Patch(p)
  <2>1. CASE obj[k] = None
    BY <1>3, <2>1 DEF Patch, TypeOK
  <2>2. CASE obj[k] # None
    <3>1. obj' = [obj EXCEPT ![k] = Patched(p, obj[k], rep[p].base,
                            MergeLabels(rep[p].base, Required(k, rep[p].vpcUid)))]
      BY <1>3, <2>2 DEF Patch
    <3>2. rep[p].pc = "patch"
      BY <1>3 DEF Patch
    <3> QED BY <2>2, <3>1, <3>2
  <2> QED BY <2>1, <2>2
<1>4. CASE Create(p)
  BY <1>4 DEF Create
<1>5. CASE LostReply(p)
  BY <1>5 DEF LostReply
<1> QED BY <1>2, <1>3, <1>4, <1>5 DEF Pass

(* No step of a pass replaces or deletes an object, changes the CIDR or    *)
(* takes back a label of somebody else.                                    *)
THEOREM PassLeavesTheRestAlone == Spec => LeavesTheRestAlone
<1> DEFINE Kept(k) == /\ obj'[k] # None
                      /\ obj'[k].uid = obj[k].uid
                      /\ obj'[k].cidr = obj[k].cidr
                      /\ obj'[k].labels["extra"] = obj[k].labels["extra"]
           Alone == \A p \in Replicas, k \in Kinds :
                       rep'[p] # rep[p] /\ obj[k] # None => Kept(k)
<1>1. TypeOK /\ [Next]_vars => [Alone]_vars
  <2> SUFFICES ASSUME TypeOK, Next, NEW x \in Replicas, NEW j \in Kinds,
                      rep'[x] # rep[x], obj[j] # None
               PROVE  Kept(j)
    OBVIOUS
  <2>1. rep' # rep
    OBVIOUS
  <2>2. CASE obj' = obj
    BY <2>2
  <2>3. ASSUME NEW p \in Replicas, NEW k \in Kinds, obj[k] = None,
               obj' = [obj EXCEPT ![k] = NewObject(p, k)]
        PROVE  Kept(j)
    BY <2>3 DEF TypeOK
  <2>4. ASSUME NEW p \in Replicas, NEW k \in Kinds, obj[k] # None,
               obj' = [obj EXCEPT ![k] = Patched(p, obj[k], rep[p].base,
                         MergeLabels(rep[p].base, Required(k, rep[p].vpcUid)))]
        PROVE  Kept(j)
    <3>1. CASE j # k
      BY <2>4, <3>1 DEF TypeOK
    <3>2. CASE j = k
      <4> PICK o \in Object : o = obj[k]
        BY <2>4 DEF TypeOK
      <4> PICK b \in Labels : b = rep[p].base
        BY DEF TypeOK, Replica
      <4> PICK u \in Nat : u = rep[p].vpcUid
        BY DEF TypeOK, Replica
      <4> PICK m \in Labels : m = MergeLabels(b, Required(k, u))
        BY MergeFacts
      <4>1. m["extra"] = b["extra"]
        BY MergeFacts, RequiredFacts DEF Keys
      <4>2. obj'[k] = Patched(p, o, b, m)
        BY <2>4 DEF TypeOK
      <4>3. Patched(p, o, b, m) \in Object
        BY PatchedFacts
      <4>4. /\ Patched(p, o, b, m).uid = o.uid
            /\ Patched(p, o, b, m).cidr = o.cidr
            /\ Patched(p, o, b, m).labels["extra"] = o.labels["extra"]
        <5> PICK n \in Object : n = Patched(p, o, b, m)
          BY <4>3
        <5>1. /\ n.uid = o.uid /\ n.cidr = o.cidr
              /\ n.labels = [key \in Keys |-> IF m[key] # b[key] THEN m[key]
                                             ELSE o.labels[key]]
          BY PatchedFacts
        <5>2. "extra" \in Keys
          BY DEF Keys
        <5> QED BY <4>1, <5>1, <5>2
      <4> QED BY <3>2, <4>2, <4>3, <4>4, MgmtAssumption
    <3> QED BY <3>1, <3>2
  <2> QED BY <2>1, <2>2, <2>3, <2>4, Writes
<1> QED BY <1>1, MgmtTypeCorrect, PTL DEF Spec, LeavesTheRestAlone

(* Once the network is ready, passes that met nobody but each other write  *)
(* nothing more.                                                           *)
THEOREM ReadyStaysAsItIs == Spec => ReadyIsFinal
<1> DEFINE Final == /\ Ready
                    /\ \E p \in Replicas : rep'[p] # rep[p]
                    /\ \A p \in Replicas : Running(p) => clean[p]
                    => obj' = obj
<1>1. TypeOK /\ PassInv /\ [Next]_vars => [Final]_vars
  <2> SUFFICES ASSUME TypeOK, PassInv, Next, Ready, rep' # rep,
                      \A p \in Replicas : Running(p) => clean[p]
               PROVE  obj' = obj
    OBVIOUS
  <2>1. ASSUME NEW p \in Replicas, NEW k \in Kinds, obj[k] = None PROVE FALSE
    BY <2>1 DEF Ready, Labelled
  <2>2. ASSUME NEW p \in Replicas, NEW k \in Kinds, obj[k] # None,
               rep[p].pc = "patch", rep[p].kind = k,
               obj' = [obj EXCEPT ![k] = Patched(p, obj[k], rep[p].base,
                         MergeLabels(rep[p].base, Required(k, rep[p].vpcUid)))]
        PROVE  obj' = obj
    <3> PICK o \in Object : o = obj[k]
      BY <2>2 DEF TypeOK
    <3> PICK b \in Labels : b = rep[p].base
      BY DEF TypeOK, Replica
    <3> PICK u \in Nat : u = rep[p].vpcUid
      BY DEF TypeOK, Replica
    <3> PICK m \in Labels : m = MergeLabels(b, Required(k, u))
      BY MergeFacts
    <3>1. k # "vpc" => u = obj["vpc"].uid
      BY <2>2 DEF Running, Active, PassInv, PassOK, KnowsVpc
    <3>2. ASSUME NEW key \in Keys, m[key] # b[key] PROVE m[key] = o.labels[key]
      <4>1. key \in DOMAIN Required(k, u)
        BY <3>2, MergeFacts
      <4>2. /\ key \in RequiredKeys(k) /\ m[key] = IF key = "networkId" THEN u ELSE 1
            /\ key = "networkId" => k # "vpc"
        BY <4>1, MergeFacts, RequiredFacts
      <4>3. LabelOK(k, key)
        BY <4>2 DEF Ready, Labelled
      <4> QED BY <3>1, <4>2, <4>3 DEF LabelOK
    <3>3. o.labels \in Labels /\ o = [uid |-> o.uid, labels |-> o.labels, cidr |-> o.cidr]
      BY DEF Object
    <3>4. [key \in Keys |-> IF m[key] # b[key] THEN m[key] ELSE o.labels[key]] = o.labels
      BY <3>2, <3>3 DEF Labels
    <3>5. Patched(p, o, b, m) = [o EXCEPT !.labels = o.labels]
      BY <3>4 DEF Patched
    <3>6. Patched(p, o, b, m) = o
      BY <3>3, <3>5 DEF Object
    <3> QED BY <2>2, <3>6 DEF TypeOK
  <2> QED BY <2>1, <2>2, Writes
<1> QED BY <1>1, MgmtTypeCorrect, PassInvariant, PTL DEF Spec, ReadyIsFinal

=============================================================================
