----------------------------- MODULE IpamProofs -----------------------------
(***************************************************************************)
(* Machine-checked proofs about Ipam, for any set of networks, subnets and *)
(* addresses, any names (reused in any way), any requests (of any length)  *)
(* and any number of changes to the cluster.                               *)
(***************************************************************************)
EXTENDS Ipam, TLAPS, WellFoundedInduction

-----------------------------------------------------------------------------
(* The first of a set of positions, and the codes of errors *)

\* A set of natural numbers has a least member.
LEMMA MinimumExists ==
  ASSUME NEW K, K \subseteq Nat, K # {}
  PROVE  \E k \in K : \A j \in K : k <= j
<1>1. \E x \in K : \A y \in K : ~ (<<y, x>> \in OpToRel(<, Nat))
  BY NatLessThanWellFounded, WFMin
<1>2. PICK x \in K : \A y \in K : ~ (<<y, x>> \in OpToRel(<, Nat))
  BY <1>1
<1>3. \A y \in K : ~ (y < x)
  BY <1>2 DEF OpToRel
<1> QED BY <1>3

\* The entry that a search finds is one of those it looks for.
LEMMA FirstIn ==
  ASSUME NEW K, K \subseteq Nat, K # {}
  PROVE  First(K) \in K
BY MinimumExists DEF First

\* Tuples as long as the converters are sequences.
LEMMA TuplesAreSeqs ==
  ASSUME NEW a, NEW b, NEW c, NEW d, NEW e, NEW f, NEW g, NEW h
  PROVE  /\ <<a>> \in Seq({a})
         /\ <<a, b, c>> \in Seq({a, b, c})
         /\ <<a, b, c, d, e, f, g>> \in Seq({a, b, c, d, e, f, g})
         /\ <<a, b, c, d, e, f, g, h>> \in Seq({a, b, c, d, e, f, g, h})
OBVIOUS

\* Sequences over different sets, one after the other.
LEMMA ConcatUnion ==
  ASSUME NEW A, NEW B, NEW s \in Seq(A), NEW t \in Seq(B)
  PROVE  s \o t \in Seq(A \union B)
OBVIOUS

\* The registered converters form a sequence.
LEMMA ConvertersSeq == \E S : Converters \in Seq(S)
<1>1. PICK A : CommonErrorConverter \in Seq(A)
  BY TuplesAreSeqs, Zenon DEF CommonErrorConverter
<1>2. PICK B : K8sErrorConverter \in Seq(B)
  BY TuplesAreSeqs, Zenon DEF K8sErrorConverter
<1>3. PICK C : ImageErrorConverter \in Seq(C)
  BY TuplesAreSeqs, Zenon DEF ImageErrorConverter
<1>4. PICK D : ComputeErrorConverter \in Seq(D)
  BY TuplesAreSeqs, Zenon DEF ComputeErrorConverter
<1>5. CommonErrorConverter \o K8sErrorConverter \in Seq(A \union B)
  BY <1>1, <1>2, ConcatUnion
<1>6. CommonErrorConverter \o K8sErrorConverter \o ImageErrorConverter
        \in Seq((A \union B) \union C)
  BY <1>5, <1>3, ConcatUnion
<1>7. Converters \in Seq(((A \union B) \union C) \union D)
  BY <1>6, <1>4, ConcatUnion DEF Converters
<1> QED BY <1>7

\* Every error becomes the code of a converter, or Internal.
LEMMA ErrorHasCode ==
  ASSUME NEW err
  PROVE  ToGRPCError(err) \in Codes
<1> DEFINE known == {i \in DOMAIN Converters : Converters[i][1] \in err}
<1>1. known \subseteq Nat /\ known \subseteq DOMAIN Converters
  BY ConvertersSeq
<1>2. CASE known = {}
  BY <1>2 DEF ToGRPCError, Codes
<1>3. CASE known # {}
  <2>1. First(known) \in known
    BY <1>1, <1>3, FirstIn
  <2>2. ToGRPCError(err) = Converters[First(known)][2]
    BY <1>3 DEF ToGRPCError, First
  <2> HIDE DEF known
  <2> QED BY <2>1, <2>2, <1>1 DEF Codes
<1> QED BY <1>2, <1>3

-----------------------------------------------------------------------------
(* What the searches in the IPAM entries return *)

\* The entries for a subnet.
Keys(es, ref) == {k \in DOMAIN es : es[k].sub = ref}

\* subnetIpam returns an entry for the subnet it was asked about.
LEMMA SubnetEntryFacts ==
  ASSUME NEW es \in Seq(IpamData), NEW ref \in Refs \union {Empty}
  PROVE  /\ SubnetEntry(es, ref) \in IpamData
         /\ SubnetEntry(es, ref).sub = ref
<1>1. Keys(es, ref) \subseteq Nat /\ Keys(es, ref) \subseteq DOMAIN es
  BY DEF Keys
<1>2. CASE Keys(es, ref) = {}
  <2>1. SubnetEntry(es, ref) = [net |-> None, sub |-> ref, ip |-> None, mac |-> None]
    BY <1>2 DEF SubnetEntry, Keys
  <2> QED BY <2>1 DEF IpamData
<1>3. CASE Keys(es, ref) # {}
  <2>1. First(Keys(es, ref)) \in Keys(es, ref)
    BY <1>1, <1>3, FirstIn
  <2>2. SubnetEntry(es, ref) = es[First(Keys(es, ref))]
    BY <1>3 DEF SubnetEntry, Keys
  <2>3. PICK k : k = First(Keys(es, ref))
    OBVIOUS
  <2>4. k \in DOMAIN es /\ es[k].sub = ref
    BY <2>1, <2>3 DEF Keys
  <2> QED BY <2>2, <2>3, <2>4
<1> QED BY <1>2, <1>3

\* networkIpam starts from the first entry of the network, if it has one.
LEMMA NetworkEntryFacts ==
  ASSUME ipams \in Seq(IpamData), NEW n \in Nets
  PROVE  /\ NetworkEntry(n) \in IpamData
         /\ NetworkEntries(n) = {} => NetworkEntry(n).sub = None
         /\ NetworkEntries(n) # {} =>
              /\ First(NetworkEntries(n)) \in DOMAIN ipams
              /\ NetworkEntry(n) = ipams[First(NetworkEntries(n))]
              /\ ipams[First(NetworkEntries(n))].net = n
<1>1. NetworkEntries(n) \subseteq Nat
  BY DEF NetworkEntries
<1>2. CASE NetworkEntries(n) = {}
  BY <1>2 DEF NetworkEntry, IpamData
<1>3. CASE NetworkEntries(n) # {}
  <2>1. First(NetworkEntries(n)) \in NetworkEntries(n)
    BY <1>1, <1>3, FirstIn
  <2>2. /\ First(NetworkEntries(n)) \in DOMAIN ipams
        /\ ipams[First(NetworkEntries(n))].net = n
    BY <2>1, Zenon DEF NetworkEntries
  <2>3. NetworkEntry(n) = ipams[First(NetworkEntries(n))]
    BY <1>3, Zenon DEF NetworkEntry
  <2> QED BY <2>2, <2>3, <1>3
<1> QED BY <1>2, <1>3

-----------------------------------------------------------------------------
(* The inductive invariant *)

Resolving == {"next", "cidr", "byip", "first", "init"}
Choosing == {"cidr", "init"}

(* The round of an interface is about an interface of the request, and     *)
(* networkIpam looks for a subnet when no entry of the network names one.  *)
Progress ==
    /\ Len(out) <= Len(ifs)
    /\ pc \in Resolving \ {"next"} => Len(out) < Len(ifs)
    /\ pc \in {"byip", "first"} =>
          /\ Iface.sub = None /\ Iface.net \in Nets
          /\ NetType[Iface.net] # "sriov"
          /\ NetworkEntry(Iface.net).sub = None

(* The status of a network lists subnets that it has or had; at any time  *)
(* a name has one bearer of each kind, and what is there was created.      *)
ClusterInv ==
    /\ \A n \in Nets : listed[n] \subseteq NamesIn(SubnetsOf(n) \ unborn)
    /\ Distinct(live) /\ Distinct(nets \intersect Sriov)
    /\ (live \union nets) \intersect unborn = {}

(* An entry differs from the one that arrived only in its subnet, and only *)
(* if it came with a network and no subnet: it then names a subnet of that *)
(* network, or one that took the name of such a subnet.                    *)
EntriesTraced ==
    /\ DOMAIN ipams = DOMAIN given
    /\ \A k \in DOMAIN given :
         /\ ipams[k].net = given[k].net
         /\ ipams[k].ip = given[k].ip
         /\ ipams[k].mac = given[k].mac
         /\ ipams[k].sub # given[k].sub =>
              /\ given[k].sub = None
              /\ \E s \in Subnets : ipams[k].sub = Uid(s) /\ OfNetwork(given[k].net, s)

\* An interface of the VM has the NAD of this name.
Used(m) == \E j \in DOMAIN out : NameOf[out[j].to[2]] = m

\* A subnet that an entry was rewritten to has an interface, or gets one now.
RewrittenIsUsed ==
    pc \in Resolving =>
      \A k \in DOMAIN given : \A s \in Subnets :
        /\ ipams[k].sub = Uid(s)
        /\ given[k].sub # Uid(s)
        => Used(NameOf[s]) \/ (pc \in Choosing /\ pick.sub = Uid(s))

\* Nothing is annotated for a NAD without an interface.
UnusedHasNoAddress == \A m \in Names : ~Used(m) => ann[m] = NoAddress

(* A reference to a subnet of network n, to one that took the name of such *)
(* a subnet, or to where the request sends interfaces on n.                *)
Allowed(n, ref) ==
    \A s \in Subnets : Means(ref, s) => OfNetwork(n, s) \/ SentTo(n, s)

\* The chosen entry is for a place the current interface may be put.
PickPlaced ==
    /\ Iface.sub # None => pick.sub = Iface.sub /\ InNetwork(Iface)
    /\ Iface.sub = None =>
         /\ Iface.net \in Nets /\ NetType[Iface.net] # "sriov"
         /\ pick.sub \in Refs => Allowed(Iface.net, pick.sub)

(* The first interface on a subnet that it names is given what the request *)
(* asks for that subnet.                                                   *)
PickOwn ==
    Iface.sub # None =>
      \E s \in Subnets :
        /\ Iface.sub = Uid(s)
        /\ ~Used(NameOf[s]) => [ip |-> pick.ip, mac |-> pick.mac] = Asked(s)

\* An address has been checked against the subnet with that UID.
PickFits ==
    /\ pc = "init" /\ pick.ip # None /\ pick.sub \in Refs
    => pick.sub.by = "uid" /\ pick.ip \in Cidr[pick.sub.s]

PickInv ==
    pc \in Choosing =>
      /\ pick \in IpamData /\ pick.sub # None
      /\ PickFits /\ PickPlaced /\ PickOwn

\* OwnAddress while the resolution is still going on.
OwnSoFar ==
    \A k \in DOMAIN out :
      ifs[k].sub # None =>
        \E s \in Subnets :
          /\ ifs[k].sub = Uid(s)
          /\ (\A j \in DOMAIN out : NameOf[out[j].to[2]] = NameOf[out[k].to[2]] => j = k)
               => ann[NameOf[s]] = Asked(s)

\* Interfaces are resolved to objects that are there.
OutBorn == \A k \in DOMAIN out : out[k].to[2] \notin unborn

AttachInv ==
    /\ UnusedHasNoAddress /\ OwnSoFar /\ StaticAddressFits /\ AttachedWhereAsked
    /\ OutBorn

\* The attachment that the view looks at.
Shown == out[Len(view) + 1].to

(* The view runs along the VM's interfaces; an SR-IOV network is looked    *)
(* for among the NADs of subnets only if it is shadowed or was deleted.    *)
ViewInv ==
    /\ Len(view) <= Len(out)
    /\ ViewSurvivesDeletion
    /\ pc = "view_sub" =>
         /\ Len(view) < Len(out)
         /\ Shown[1] = "sriov" => shadowed # {} \/ Deleted(Shown[2])

IpamInv ==
    /\ IpamTypeOK /\ Progress /\ ClusterInv
    /\ EntriesTraced /\ RewrittenIsUsed /\ PickInv
    /\ AttachInv /\ ViewInv

-----------------------------------------------------------------------------
(* What steps leave alone *)

\* What is deleted stays deleted, and nothing is created twice.
Grows ==
    /\ live' \union nets' \union unborn' \subseteq live \union nets \union unborn
    /\ unborn' \subseteq unborn /\ shadowed \subseteq shadowed'

\* A cluster that does not change.
LEMMA RestGrows ==
  ASSUME UNCHANGED cluster
  PROVE  Grows /\ (ClusterInv => ClusterInv')
BY DEF cluster, objects, Grows, ClusterInv, NamesIn, SubnetsOf, Distinct, Sriov

\* Deletion is for good.
LEMMA DeletionStays ==
  ASSUME Grows
  PROVE  /\ \A x : Deleted(x) => Deleted(x)'
         /\ \A n, s : OfNetwork(n, s) => OfNetwork(n, s)'
<1>1. ASSUME NEW x, Deleted(x) PROVE Deleted(x)'
  BY <1>1 DEF Grows, Deleted
<1>2. ASSUME NEW n, NEW s, OfNetwork(n, s) PROVE OfNetwork(n, s)'
  BY <1>1, <1>2 DEF OfNetwork, SubnetsOf
<1> QED BY <1>1, <1>2

\* The request as it arrived decides Asked and SentTo.
LEMMA GivenFrame ==
  ASSUME UNCHANGED given
  PROVE  /\ \A s \in Subnets : Asked(s)' = Asked(s)
         /\ \A n, s : SentTo(n, s)' = SentTo(n, s)
<1>1. ASSUME NEW s \in Subnets PROVE Asked(s)' = Asked(s)
  BY Zenon DEF Asked, NoAddress
<1>2. ASSUME NEW n, NEW s PROVE SentTo(n, s)' = SentTo(n, s)
  BY Zenon DEF SentTo
<1> QED BY <1>1, <1>2

\* What the interfaces so far are attached to depends on little else.
LEMMA AttachFrame ==
  ASSUME AttachInv, Grows, UNCHANGED <<out, ifs, given, ann>>
  PROVE  AttachInv'
<1>1. \A s \in Subnets : Asked(s)' = Asked(s)
  BY GivenFrame
<1>2. \A n, s : SentTo(n, s)' = SentTo(n, s)
  BY GivenFrame
<1>3. UnusedHasNoAddress'
  BY Zenon DEF AttachInv, UnusedHasNoAddress, Used, NoAddress
<1>4. OwnSoFar'
  BY <1>1, Zenon DEF AttachInv, OwnSoFar, Uid
<1>5. StaticAddressFits'
  BY Zenon DEF AttachInv, StaticAddressFits
<1>6. AttachedWhereAsked'
  <2>1. \A n, s : OfNetwork(n, s) => OfNetwork(n, s)'
    BY DeletionStays
  <2> QED BY <1>2, <2>1, Zenon DEF AttachInv, AttachedWhereAsked
<1>7. OutBorn'
  BY DEF AttachInv, OutBorn, Grows
<1> QED BY <1>3, <1>4, <1>5, <1>6, <1>7 DEF AttachInv

\* The entries' history does not depend on the rest.
LEMMA EntriesFrame ==
  ASSUME EntriesTraced, Grows, UNCHANGED <<ipams, given>>
  PROVE  EntriesTraced'
<1>1. \A n, s : OfNetwork(n, s) => OfNetwork(n, s)'
  BY DeletionStays
<1> QED BY <1>1, Zenon DEF EntriesTraced, Uid

\* ViewInv depends on the view and the interfaces, and survives changes.
LEMMA ViewFrame ==
  ASSUME ViewInv, Grows, UNCHANGED <<view, vres, out>>, pc' \in {pc} \/ pc' # "view_sub"
  PROVE  ViewInv'
<1>1. \A x : Deleted(x) => Deleted(x)'
  BY DeletionStays
<1>2. \A k, x : Replaced(k, x) => Replaced(k, x)'
  BY <1>1 DEF Replaced
<1>3. shadowed # {} => shadowed' # {}
  BY DEF Grows
<1>4. Sriov \ unborn \subseteq Sriov \ unborn'
  BY DEF Grows
<1>5. ViewSurvivesDeletion'
  <2>1. \A k \in DOMAIN view' : view'[k] \in {Gone, out'[k].to} \/ Replaced(k, view[k])'
    BY <1>2, Zenon DEF ViewInv, ViewSurvivesDeletion
  <2>2. \/ vres' \in {"none", "OK"}
        \/ shadowed' # {}
        \/ \E k \in DOMAIN out' : \E n \in Sriov \ unborn' : Replaced(k, <<"sriov", n>>)'
    BY <1>2, <1>3, <1>4 DEF ViewInv, ViewSurvivesDeletion
  <2> QED BY <2>1, <2>2, Zenon DEF ViewSurvivesDeletion, Gone, Sriov
<1>6. Shown' = Shown
  BY DEF Shown
<1> QED BY <1>1, <1>3, <1>5, <1>6 DEF ViewInv

\* An error, a panic or success ends the resolution and disturbs nothing.
LEMMA HaltStep ==
  ASSUME IpamInv, NEW code \in Codes \union {"OK", "panic"}, Return(code),
         UNCHANGED <<cluster, query, ifs, given>>
  PROVE  IpamInv'
<1> USE DEF IpamInv, Return, cluster, objects, query
<1>1. IpamTypeOK'
  BY DEF IpamTypeOK, Pcs
<1>2. Progress'
  BY DEF Progress, Resolving
<1>3. ClusterInv'
  BY RestGrows
<1>4. EntriesTraced'
  BY EntriesFrame, RestGrows
<1>5. RewrittenIsUsed'
  BY DEF RewrittenIsUsed, Resolving
<1>6. PickInv'
  BY DEF PickInv, Choosing
<1>7. AttachInv'
  BY AttachFrame, RestGrows
<1>8. ViewInv'
  BY ViewFrame, RestGrows
<1> QED BY <1>1, <1>2, <1>3, <1>4, <1>5, <1>6, <1>7, <1>8

\* The same for an error of the given kind.
LEMMA FailStep ==
  ASSUME IpamInv, NEW kind, Fail(kind), UNCHANGED <<cluster, query, ifs, given>>
  PROVE  IpamInv'
<1>1. ToGRPCError({kind}) \in Codes
  BY ErrorHasCode
<1>2. Return(ToGRPCError({kind}))
  BY DEF Fail
<1> QED BY <1>1, <1>2, HaltStep

-----------------------------------------------------------------------------
(* The steps that choose an entry *)

\* The current interface is one of the request's.
LEMMA IfaceType ==
  ASSUME IpamTypeOK, Len(out) < Len(ifs)
  PROVE  Iface \in IfaceData
<1>1. Len(out) + 1 \in 1..Len(ifs)
  BY DEF IpamTypeOK
<1> QED BY <1>1 DEF IpamTypeOK, Iface

\* What choosing an entry leaves to be shown.
LEMMA ChooseStep ==
  ASSUME IpamInv, NEW es \in Seq(IpamData), NEW ref \in Refs \union {Empty},
         SubnetIpam(es, ref), ipams' = es, Len(out) < Len(ifs),
         UNCHANGED <<cluster, query, ifs, given, out, ann, res>>,
         EntriesTraced', RewrittenIsUsed', PickPlaced', PickOwn'
  PROVE  IpamInv'
<1> USE DEF IpamInv, cluster, objects, query
<1>1. pick' \in IpamData /\ pick'.sub = ref
  BY SubnetEntryFacts DEF SubnetIpam
<1>2. pc' \in Choosing /\ (pc' = "init" => pick'.ip = None)
  BY DEF SubnetIpam, Choosing
<1>3. ref # None
  BY IpamAssumption
<1>4. IpamTypeOK'
  BY <1>1, <1>2 DEF IpamTypeOK, Pcs, Choosing
<1>5. Progress'
  BY <1>2 DEF Progress, Choosing
<1>6. ClusterInv'
  BY RestGrows
<1>7. PickInv'
  BY <1>1, <1>2, <1>3 DEF PickInv, PickFits
<1>8. AttachInv'
  BY AttachFrame, RestGrows
<1>9. ViewInv'
  BY <1>2, ViewFrame, RestGrows DEF Choosing
<1> QED BY <1>4, <1>5, <1>6, <1>7, <1>8, <1>9

\* Between two interfaces, an entry names a subnet without interface as it arrived.
LEMMA UnusedKeys ==
  ASSUME IpamInv, pc = "next", NEW s \in Subnets, ~Used(NameOf[s])
  PROVE  Keys(ipams, Uid(s)) = Keys(given, Uid(s))
<1>1. Uid(s) # None
  BY IpamAssumption DEF Refs, Uid
<1>2. ASSUME NEW k \in DOMAIN given PROVE ipams[k].sub = Uid(s) <=> given[k].sub = Uid(s)
  <2>1. ipams[k].sub = Uid(s) => given[k].sub = Uid(s)
    BY <1>2 DEF IpamInv, RewrittenIsUsed, Resolving, Choosing
  <2>2. ipams[k].sub = given[k].sub \/ given[k].sub = None
    BY <1>2 DEF IpamInv, EntriesTraced
  <2> QED BY <2>1, <2>2, <1>1
<1>3. DOMAIN ipams = DOMAIN given
  BY DEF IpamInv, EntriesTraced
<1> QED BY <1>2, <1>3 DEF Keys

\* So the search finds what the request asks for that subnet.
LEMMA EntryIsAsked ==
  ASSUME IpamInv, pc = "next", NEW s \in Subnets, ~Used(NameOf[s])
  PROVE  LET e == SubnetEntry(ipams, Uid(s)) IN [ip |-> e.ip, mac |-> e.mac] = Asked(s)
<1> DEFINE K == Keys(ipams, Uid(s))
           e == SubnetEntry(ipams, Uid(s))
<1>1. K = Keys(given, Uid(s))
  BY UnusedKeys
<1>2. CASE K = {}
  <2>1. e = [net |-> None, sub |-> Uid(s), ip |-> None, mac |-> None]
    BY <1>2 DEF SubnetEntry, Keys
  <2>2. Asked(s) = NoAddress
    BY <1>1, <1>2 DEF Asked, Keys
  <2> QED BY <2>1, <2>2 DEF NoAddress
<1>3. CASE K # {}
  <2>1. K \subseteq Nat
    BY DEF Keys, IpamInv, IpamTypeOK
  <2>2. First(K) \in K
    BY <1>3, <2>1, FirstIn
  <2>3. e = ipams[First(K)]
    BY <1>3 DEF SubnetEntry, Keys
  <2>4. Asked(s) = [ip |-> given[First(K)].ip, mac |-> given[First(K)].mac]
    BY <1>1, <1>3 DEF Asked, Keys
  <2>5. First(K) \in DOMAIN given
    BY <2>2, <1>1 DEF Keys
  <2>6. ipams[First(K)].ip = given[First(K)].ip /\ ipams[First(K)].mac = given[First(K)].mac
    BY <2>5 DEF IpamInv, EntriesTraced
  <2> QED BY <2>3, <2>4, <2>6
<1> QED BY <1>2, <1>3

\* An interface that names its subnet.
LEMMA BySubnetStep ==
  ASSUME IpamInv, BySubnet
  PROVE  IpamInv'
<1>1. CASE ~HasUid(Iface.sub) /\ Fail("ErrNotFound")
  BY <1>1, FailStep DEF BySubnet
<1>2. CASE HasUid(Iface.sub) /\ ~InNetwork(Iface) /\ Fail("other")
  BY <1>2, FailStep DEF BySubnet
<1>3. CASE /\ HasUid(Iface.sub) /\ InNetwork(Iface)
           /\ SubnetIpam(ipams, Iface.sub)
           /\ UNCHANGED <<ipams, out, ann, res>>
  <2>1. /\ pc = "next" /\ Len(out) < Len(ifs) /\ Iface.sub # None
        /\ UNCHANGED <<cluster, query, ifs, given>>
    BY DEF BySubnet
  <2>2. ipams \in Seq(IpamData)
    BY DEF IpamInv, IpamTypeOK
  <2>3. PICK s \in Subnets : Iface.sub = Uid(s)
    BY <1>3 DEF HasUid, Refs, Uid
  <2>4. Uid(s) \in Refs
    BY DEF Refs, Uid
  <2>5. pick' = SubnetEntry(ipams, Uid(s)) /\ pick'.sub = Uid(s)
    BY <1>3, <2>2, <2>3, <2>4, SubnetEntryFacts DEF SubnetIpam
  <2>6. Iface' = Iface
    BY <1>3, <2>1 DEF Iface
  <2>7. EntriesTraced'
    BY <1>3, <2>1, EntriesFrame, RestGrows DEF IpamInv
  <2>8. RewrittenIsUsed'
    BY <1>3, <2>1 DEF IpamInv, RewrittenIsUsed, Used, Resolving, Choosing, Uid
  <2>9. PickPlaced'
    BY <1>3, <2>1, <2>3, <2>5, <2>6 DEF PickPlaced, InNetwork
  <2>10. Used(NameOf[s])' = Used(NameOf[s])
    BY <1>3 DEF Used
  <2>11. Asked(s)' = Asked(s)
    BY <2>1, GivenFrame
  <2>12. ~Used(NameOf[s]) => [ip |-> pick'.ip, mac |-> pick'.mac] = Asked(s)
    BY <2>1, <2>5, EntryIsAsked
  <2>13. PickOwn'
    BY <2>3, <2>6, <2>10, <2>11, <2>12 DEF PickOwn, Uid
  <2> QED BY <1>3, <2>1, <2>2, <2>3, <2>4, <2>7, <2>8, <2>9, <2>13, ChooseStep
<1> QED BY <1>1, <1>2, <1>3 DEF BySubnet

\* Places stay allowed.
LEMMA AllowedStays ==
  ASSUME Grows, UNCHANGED given, NEW n, NEW ref, Allowed(n, ref)
  PROVE  Allowed(n, ref)'
<1>1. \A s : OfNetwork(n, s) => OfNetwork(n, s)'
  BY DeletionStays
<1>2. \A s : SentTo(n, s)' = SentTo(n, s)
  BY GivenFrame
<1> QED BY <1>1, <1>2, Zenon DEF Allowed, Means

\* What the entry of a network names is allowed.
LEMMA EntrySends ==
  ASSUME IpamInv, NEW n \in Nets, NetworkEntry(n).sub # None
  PROVE  /\ NetworkEntry(n).sub \in Refs \union {Empty}
         /\ NetworkEntry(n).sub \in Refs => Allowed(n, NetworkEntry(n).sub)
<1>1. PICK k \in DOMAIN ipams : NetworkEntry(n) = ipams[k] /\ ipams[k].net = n
  BY NetworkEntryFacts DEF IpamInv, IpamTypeOK
<1>2. ipams[k] \in IpamData
  BY DEF IpamInv, IpamTypeOK
<1>3. ipams[k].sub \in Refs \union {Empty}
  BY <1>1, <1>2 DEF IpamData
<1>4. k \in DOMAIN given /\ given[k].net = n
  BY <1>1 DEF IpamInv, EntriesTraced
<1>5. CASE ipams[k].sub = given[k].sub
  BY <1>1, <1>3, <1>4, <1>5 DEF SentTo, Allowed
<1>6. CASE ipams[k].sub # given[k].sub
  <2>1. PICK t \in Subnets : ipams[k].sub = Uid(t) /\ OfNetwork(n, t)
    BY <1>4, <1>6 DEF IpamInv, EntriesTraced
  <2>2. \A s : Means(Uid(t), s) => s = t
    BY DEF Means, Uid
  <2> QED BY <1>1, <1>3, <2>1, <2>2 DEF Allowed
<1> QED BY <1>5, <1>6

\* networkIpam, for an interface that names a network with subnets.
LEMMA NetworkIpamStep ==
  ASSUME IpamInv, pc = "next", Len(out) < Len(ifs), Iface.sub = None, Iface.net \in Nets,
         NetType[Iface.net] # "sriov", NEW b \in BOOLEAN, NetworkIpam(Iface.net, b),
         UNCHANGED <<cluster, query, ifs, given>>
  PROVE  IpamInv'
<1> DEFINE e == NetworkEntry(Iface.net)
<1>1. CASE e.sub # None /\ SubnetIpam(ipams, e.sub) /\ UNCHANGED <<ipams, out, ann, res>>
  <2>1. /\ e.sub \in Refs \union {Empty}
        /\ e.sub \in Refs => Allowed(Iface.net, e.sub)
    BY <1>1, EntrySends
  <2>2. ipams \in Seq(IpamData)
    BY DEF IpamInv, IpamTypeOK
  <2>3. pick'.sub = e.sub
    BY <1>1, <2>1, <2>2, SubnetEntryFacts DEF SubnetIpam
  <2>4. Iface' = Iface
    BY <1>1 DEF Iface
  <2>5. EntriesTraced'
    BY <1>1, EntriesFrame, RestGrows DEF IpamInv
  <2>6. RewrittenIsUsed'
    BY <1>1 DEF IpamInv, RewrittenIsUsed, Used, Resolving, Choosing, Uid
  <2>7. \A n, ref : Allowed(n, ref) => Allowed(n, ref)'
    BY AllowedStays, RestGrows
  <2>8. PickPlaced'
    <3> HIDE DEF e
    <3> QED BY <2>1, <2>3, <2>4, <2>7 DEF PickPlaced, Refs
  <2>9. PickOwn'
    BY <2>4 DEF PickOwn
  <2> QED BY <1>1, <2>1, <2>2, <2>5, <2>6, <2>8, <2>9, ChooseStep
<1>2. CASE e.sub = None /\ pc' \in {"byip", "first"} /\ UNCHANGED <<ipams, pick, out, ann, res>>
  <2> USE DEF IpamInv, cluster, objects, query
  <2>1. IpamTypeOK'
    BY <1>2 DEF IpamTypeOK, Pcs
  <2>2. Iface' = Iface
    BY <1>2 DEF Iface
  <2>3. NetworkEntry(Iface.net)' = e
    BY <1>2, <2>2, Zenon DEF NetworkEntry, NetworkEntries
  <2>4. Progress'
    BY <1>2, <2>2, <2>3 DEF Progress
  <2>5. ClusterInv'
    BY RestGrows
  <2>6. EntriesTraced'
    BY <1>2, EntriesFrame, RestGrows
  <2>7. RewrittenIsUsed'
    BY <1>2 DEF RewrittenIsUsed, Used, Resolving, Choosing, Uid
  <2>8. PickInv'
    BY <1>2 DEF PickInv, Choosing
  <2>9. AttachInv'
    BY <1>2, AttachFrame, RestGrows
  <2>10. ViewInv'
    BY <1>2, ViewFrame, RestGrows
  <2> QED BY <2>1, <2>4, <2>5, <2>6, <2>7, <2>8, <2>9, <2>10
<1>3. CASE Fail("ErrIPAMConfigurationMissing")
  BY <1>3, FailStep
<1> QED BY <1>1, <1>2, <1>3 DEF NetworkIpam

(* The subnet that has a name of the network's status is one of the        *)
(* network, or has the name of one that was deleted.                       *)
LEMMA ListedIsOfNetwork ==
  ASSUME IpamTypeOK, ClusterInv, NEW n \in Nets, NEW m \in listed[n], NEW s \in Bearers(m)
  PROVE  s \in Subnets /\ OfNetwork(n, s)
<1>1. s \in live /\ s \in Subnets /\ NameOf[s] = m
  BY DEF Bearers, IpamTypeOK
<1>2. PICK t \in SubnetsOf(n) \ unborn : NameOf[t] = m
  BY DEF ClusterInv, NamesIn
<1>3. t \in Subnets /\ NetOf[t] = n
  BY <1>2 DEF SubnetsOf
<1>4. CASE t \in live
  BY <1>1, <1>2, <1>3, <1>4 DEF ClusterInv, Distinct, OfNetwork
<1>5. CASE t \notin live
  <2>1. t \notin nets
    BY <1>3, IpamAssumption DEF IpamTypeOK
  <2>2. Deleted(t)
    BY <1>2, <1>5, <2>1 DEF Deleted
  <2> QED BY <1>1, <1>2, <2>2 DEF OfNetwork
<1> QED BY <1>4, <1>5

\* networkIpam's last resort: some subnet of the network.
LEMMA FirstSubnetStep ==
  ASSUME IpamInv, FirstSubnet
  PROVE  IpamInv'
<1> DEFINE n == Iface.net
           K == NetworkEntries(n)
<1>1. CASE Fail("ErrNotFound")
  BY <1>1, FailStep DEF FirstSubnet
<1>2. CASE Fail("ErrInvalidArgument")
  BY <1>2, FailStep DEF FirstSubnet
<1>3. ASSUME NEW m \in listed[n], NEW s \in Bearers(m),
             ipams' = IF K = {} THEN ipams ELSE [ipams EXCEPT ![First(K)].sub = Uid(s)],
             SubnetIpam(ipams', Uid(s)), UNCHANGED <<out, ann, res>>
      PROVE  IpamInv'
  <2>1. pc = "first" /\ UNCHANGED <<cluster, query, ifs, given>>
    BY DEF FirstSubnet
  <2>2. Len(out) < Len(ifs) /\ Iface.sub = None /\ n \in Nets /\ NetType[n] # "sriov"
    BY <2>1 DEF IpamInv, Progress, Resolving
  <2>3. s \in Subnets /\ OfNetwork(n, s)
    BY <1>3, <2>2, ListedIsOfNetwork DEF IpamInv
  <2>4. Uid(s) \in Refs /\ Uid(s).s = s
    BY <2>3 DEF Refs, Uid
  <2>5. ipams \in Seq(IpamData)
    BY DEF IpamInv, IpamTypeOK
  <2>6. NetworkEntry(n).sub = None
    BY <2>1 DEF IpamInv, Progress
  <2>7. K # {} => /\ First(K) \in DOMAIN ipams
                  /\ ipams[First(K)].net = n /\ ipams[First(K)].sub = None
    BY <2>2, <2>5, <2>6, NetworkEntryFacts
  <2>8. PICK f : f = First(K)
    OBVIOUS
  <2> HIDE DEF n, K
  <2>9. ASSUME K # {}
        PROVE  /\ ipams' \in Seq(IpamData) /\ DOMAIN ipams' = DOMAIN ipams
               /\ \A k \in DOMAIN ipams : k # f => ipams'[k] = ipams[k]
               /\ ipams'[f] = [ipams[f] EXCEPT !.sub = Uid(s)]
    <3>1. ipams[f] \in IpamData
      BY <2>5, <2>7, <2>8, <2>9
    <3>2. [ipams[f] EXCEPT !.sub = Uid(s)] \in IpamData
      BY <3>1, <2>4 DEF IpamData
    <3>3. ipams' = [ipams EXCEPT ![f] = [ipams[f] EXCEPT !.sub = Uid(s)]]
      BY <1>3, <2>7, <2>8, <2>9
    <3> QED BY <3>2, <3>3, <2>5, <2>7, <2>8, <2>9
  <2>10. ipams' \in Seq(IpamData)
    BY <1>3, <2>5, <2>9
  <2>11. \A k \in DOMAIN ipams : ipams'[k].sub # ipams[k].sub => K # {} /\ k = f
    BY <1>3, <2>9
  <2>12. EntriesTraced'
    <3>1. DOMAIN ipams' = DOMAIN given'
      BY <1>3, <2>1, <2>9 DEF IpamInv, EntriesTraced
    <3>2. ASSUME NEW k \in DOMAIN given
          PROVE  /\ ipams'[k].net = given[k].net
                 /\ ipams'[k].ip = given[k].ip
                 /\ ipams'[k].mac = given[k].mac
                 /\ ipams'[k].sub # given[k].sub =>
                      /\ given[k].sub = None
                      /\ \E t \in Subnets :
                           ipams'[k].sub = Uid(t) /\ OfNetwork(given[k].net, t)
      <4>1. /\ k \in DOMAIN ipams
            /\ ipams[k].net = given[k].net
            /\ ipams[k].ip = given[k].ip
            /\ ipams[k].mac = given[k].mac
            /\ ipams[k].sub # given[k].sub =>
                 /\ given[k].sub = None
                 /\ \E t \in Subnets :
                      ipams[k].sub = Uid(t) /\ OfNetwork(given[k].net, t)
        BY <3>2 DEF IpamInv, EntriesTraced
      <4>2. CASE K = {} \/ k # f
        <5>1. ipams'[k] = ipams[k]
          BY <1>3, <2>9, <4>1, <4>2
        <5> QED BY <4>1, <5>1
      <4>3. CASE K # {} /\ k = f
        <5>1. ipams[k] \in IpamData
          BY <2>5, <4>1
        <5>2. /\ ipams'[k].net = ipams[k].net /\ ipams'[k].ip = ipams[k].ip
              /\ ipams'[k].mac = ipams[k].mac /\ ipams'[k].sub = Uid(s)
          BY <2>9, <4>3, <5>1 DEF IpamData
        <5>3. OfNetwork(given[k].net, s)
          BY <2>3, <2>7, <2>8, <4>1, <4>3
        <5>4. given[k].sub = None
          BY <2>7, <2>8, <4>1, <4>3
        <5> QED BY <2>3, <4>1, <5>2, <5>3, <5>4
      <4> QED BY <4>2, <4>3
    <3>3. given' = given
      BY <2>1
    <3>4. \A l, t : OfNetwork(l, t) => OfNetwork(l, t)'
      BY <2>1, DeletionStays, RestGrows
    <3> QED BY <3>1, <3>2, <3>3, <3>4, Zenon DEF EntriesTraced, Uid
  <2>13. pick'.sub = Uid(s) /\ pc' \in Choosing
    BY <1>3, <2>4, <2>10, SubnetEntryFacts DEF SubnetIpam, Choosing
  <2>14. RewrittenIsUsed'
    <3>1. ASSUME NEW k \in DOMAIN given, NEW t \in Subnets,
                 ipams'[k].sub = Uid(t), given[k].sub # Uid(t)
          PROVE  Used(NameOf[t]) \/ pick'.sub = Uid(t)
      <4>1. k \in DOMAIN ipams
        BY <3>1 DEF IpamInv, EntriesTraced
      <4>2. CASE ipams'[k].sub = ipams[k].sub
        BY <3>1, <4>2, <2>1 DEF IpamInv, RewrittenIsUsed, Resolving, Choosing
      <4>3. CASE K # {} /\ k = f
        <5>1. ipams[k] \in IpamData
          BY <2>5, <4>1
        <5>2. ipams'[k].sub = Uid(s)
          BY <2>9, <4>3, <5>1 DEF IpamData
        <5> QED BY <5>2, <3>1, <2>13
      <4> QED BY <4>1, <4>2, <4>3, <2>11
    <3>2. \A l : Used(l)' = Used(l)
      BY <1>3 DEF Used
    <3> QED BY <3>1, <3>2, <2>1, <2>13 DEF RewrittenIsUsed, Uid
  <2>15. Iface' = Iface
    BY <1>3, <2>1 DEF Iface
  <2>16. PickPlaced'
    <3>1. Allowed(n, Uid(s))
      BY <2>3 DEF Allowed, Means, Uid
    <3>2. PICK l : l = n
      OBVIOUS
    <3>3. Allowed(l, Uid(s))'
      BY <2>1, <3>1, <3>2, AllowedStays, RestGrows
    <3>4. pick.sub' = Uid(s) /\ Iface.net' = l
      BY <2>13, <2>15, <3>2 DEF n
    <3> QED BY <2>2, <2>15, <3>2, <3>3, <3>4 DEF PickPlaced, n
  <2>17. PickOwn'
    BY <2>2, <2>15 DEF PickOwn
  <2> QED BY <1>3, <2>1, <2>2, <2>4, <2>10, <2>12, <2>14, <2>16, <2>17, ChooseStep
<1>4. CASE \E s \in UNION {Bearers(m) : m \in listed[n]} :
               /\ ipams' = IF K = {} THEN ipams
                           ELSE [ipams EXCEPT ![First(K)].sub = Uid(s)]
               /\ SubnetIpam(ipams', Uid(s))
               /\ UNCHANGED <<out, ann, res>>
  BY <1>3, <1>4
<1> QED BY <1>1, <1>2, <1>4 DEF FirstSubnet

-----------------------------------------------------------------------------
(* The steps that attach an interface *)

\* One more interface of the VM.
LEMMA AppendFacts ==
  ASSUME IpamTypeOK, NEW x \in [to : Targets, mac : Macs \union {None}],
         out' = Append(out, x)
  PROVE  /\ out' \in Seq([to : Targets, mac : Macs \union {None}])
         /\ Len(out) \in Nat
         /\ Len(out') = Len(out) + 1
         /\ DOMAIN out' = DOMAIN out \union {Len(out) + 1}
         /\ Len(out) + 1 \notin DOMAIN out
         /\ \A k \in DOMAIN out : out'[k] = out[k]
         /\ out'[Len(out) + 1] = x
BY DEF IpamTypeOK

\* The view, if any, stays a prefix.
LEMMA ViewAppend ==
  ASSUME IpamTypeOK, ViewInv, NEW x \in [to : Targets, mac : Macs \union {None}],
         out' = Append(out, x), pc' = "next", UNCHANGED <<view, vres, cluster>>
  PROVE  ViewInv'
<1>1. \A k \in DOMAIN view : k \in DOMAIN out
  BY DEF IpamTypeOK, ViewInv
<1>2. /\ Len(out) \in Nat
      /\ Len(out') = Len(out) + 1
      /\ \A k \in DOMAIN out : out'[k] = out[k]
  BY AppendFacts
<1>3. Len(view) \in Nat
  BY DEF IpamTypeOK
<1>4. \A k \in DOMAIN out : \A y : Replaced(k, y) => Replaced(k, y)'
  <2>1. \A y : Deleted(y) => Deleted(y)'
    BY RestGrows, DeletionStays
  <2> QED BY <1>2, <2>1 DEF Replaced
<1>5. DOMAIN out \subseteq DOMAIN out'
  BY AppendFacts
<1>6. UNCHANGED <<shadowed, unborn>>
  BY DEF cluster, objects
<1>7. ViewSurvivesDeletion'
  <2>1. \A k \in DOMAIN view' : view'[k] \in {Gone, out'[k].to} \/ Replaced(k, view[k])'
    BY <1>1, <1>2, <1>4 DEF ViewInv, ViewSurvivesDeletion
  <2>2. \/ vres' \in {"none", "OK"}
        \/ shadowed' # {}
        \/ \E k \in DOMAIN out' : \E n \in Sriov \ unborn' : Replaced(k, <<"sriov", n>>)'
    BY <1>4, <1>5, <1>6 DEF ViewInv, ViewSurvivesDeletion
  <2> QED BY <2>1, <2>2, Zenon DEF ViewSurvivesDeletion, Gone, Sriov
<1> QED BY <1>2, <1>3, <1>7 DEF ViewInv

\* initSriovNetwork.
LEMMA SriovStep ==
  ASSUME IpamInv, pc = "next", Len(out) < Len(ifs), Iface.sub = None, Iface.net \in Nets,
         Iface.net \in nets, NetType[Iface.net] = "sriov", InitSriovNetwork(Iface.net),
         UNCHANGED <<cluster, query, ifs, given>>
  PROVE  IpamInv'
<1> DEFINE x == [to |-> <<"sriov", Iface.net>>, mac |-> NetworkEntry(Iface.net).mac]
           N == Len(out) + 1
<1>1. out' = Append(out, x) /\ UNCHANGED <<pc, ipams, pick, ann, res>>
  BY DEF InitSriovNetwork
<1>2. x \in [to : Targets, mac : Macs \union {None}] /\ x.to = <<"sriov", Iface.net>>
  <2>1. NetworkEntry(Iface.net) \in IpamData
    BY NetworkEntryFacts DEF IpamInv, IpamTypeOK
  <2>2. NetworkEntry(Iface.net).mac \in Macs \union {None}
    BY <2>1 DEF IpamData
  <2> QED BY <2>2 DEF Targets, Sriov
<1> HIDE DEF x
<1>3. IpamTypeOK
  BY DEF IpamInv
<1>4. /\ out' \in Seq([to : Targets, mac : Macs \union {None}])
      /\ Len(out) \in Nat
      /\ Len(out') = N
      /\ DOMAIN out' = DOMAIN out \union {N}
      /\ N \notin DOMAIN out
      /\ \A k \in DOMAIN out : out'[k] = out[k]
      /\ out'[N] = x
  BY <1>1, <1>2, <1>3, AppendFacts
<1>5. Iface = ifs[N]
  BY DEF Iface
<1> HIDE DEF N
<1>6. \A m : Used(m) => Used(m)'
  BY <1>4, Zenon DEF Used
<1>7. IpamTypeOK'
  BY <1>1, <1>3, <1>4 DEF IpamTypeOK, cluster, objects, query
<1>8. Progress'
  BY <1>1, <1>3, <1>4 DEF IpamTypeOK, Progress, N
<1>9. ClusterInv'
  BY RestGrows DEF IpamInv
<1>10. EntriesTraced'
  BY <1>1, EntriesFrame, RestGrows DEF IpamInv
<1>11. RewrittenIsUsed'
  BY <1>1, <1>6 DEF IpamInv, RewrittenIsUsed, Choosing, Uid
<1>12. PickInv'
  BY <1>1 DEF PickInv, Choosing
<1>13. UnusedHasNoAddress'
  BY <1>1, <1>6 DEF IpamInv, AttachInv, UnusedHasNoAddress, NoAddress
<1>14. StaticAddressFits'
  BY <1>1, <1>4 DEF IpamInv, AttachInv, StaticAddressFits
<1>15. OwnSoFar'
  <2>1. ASSUME NEW k \in DOMAIN out', ifs[k].sub # None
        PROVE  \E s \in Subnets :
                 /\ ifs[k].sub = Uid(s)
                 /\ (\A j \in DOMAIN out' :
                       NameOf[out'[j].to[2]] = NameOf[out'[k].to[2]] => j = k)
                      => ann[NameOf[s]] = Asked(s)
    <3>1. k \in DOMAIN out
      BY <1>4, <1>5, <2>1
    <3>2. PICK s \in Subnets :
            /\ ifs[k].sub = Uid(s)
            /\ (\A j \in DOMAIN out :
                  NameOf[out[j].to[2]] = NameOf[out[k].to[2]] => j = k)
                 => ann[NameOf[s]] = Asked(s)
      BY <2>1, <3>1 DEF IpamInv, AttachInv, OwnSoFar
    <3>3. ASSUME \A j \in DOMAIN out' :
                   NameOf[out'[j].to[2]] = NameOf[out'[k].to[2]] => j = k
          PROVE  \A j \in DOMAIN out : NameOf[out[j].to[2]] = NameOf[out[k].to[2]] => j = k
      BY <1>4, <3>1, <3>3
    <3> QED BY <3>2, <3>3
  <2>2. \A s \in Subnets : Asked(s)' = Asked(s)
    BY GivenFrame
  <2> QED BY <2>1, <2>2, <1>1, Zenon DEF OwnSoFar, Uid
<1>16. AttachedWhereAsked'
  <2>1. \A n, s : SentTo(n, s)' = SentTo(n, s)
    BY GivenFrame
  <2>2. ASSUME NEW k \in DOMAIN out'
        PROVE  LET d == ifs[k]
                   to == out'[k].to IN
               /\ d.sub # None =>
                    /\ to = <<"subnet", d.sub.s>>
                    /\ d.net # None => NetOf[d.sub.s] = d.net
               /\ d.sub = None =>
                    IF NetType[d.net] = "sriov" THEN to = <<"sriov", d.net>>
                    ELSE /\ to[1] = "subnet"
                         /\ OfNetwork(d.net, to[2]) \/ SentTo(d.net, to[2])
    <3>1. CASE k \in DOMAIN out
      <4>1. out'[k] = out[k]
        BY <1>4, <3>1
      <4> QED BY <3>1, <4>1 DEF IpamInv, AttachInv, AttachedWhereAsked
    <3>2. CASE k = N
      BY <1>2, <1>4, <1>5, <3>2
    <3> QED BY <1>4, <3>1, <3>2
  <2>3. \A n, s : OfNetwork(n, s) => OfNetwork(n, s)'
    BY RestGrows, DeletionStays
  <2> QED BY <2>1, <2>2, <2>3, Zenon DEF AttachedWhereAsked
<1>17. OutBorn'
  <2>1. Iface.net \notin unborn
    BY DEF IpamInv, ClusterInv
  <2> QED BY <1>2, <1>4, <2>1 DEF IpamInv, AttachInv, OutBorn, cluster, objects
<1>18. ViewInv'
  BY <1>1, <1>2, <1>3, ViewAppend DEF IpamInv, query
<1> QED BY <1>7, <1>8, <1>9, <1>10, <1>11, <1>12, <1>13, <1>14, <1>15, <1>16, <1>17, <1>18
        DEF IpamInv, AttachInv

\* An interface that names only its network.
LEMMA ByNetworkStep ==
  ASSUME IpamInv, ByNetwork
  PROVE  IpamInv'
<1>1. /\ pc = "next" /\ Len(out) < Len(ifs) /\ Iface.sub = None /\ Iface.net # None
      /\ UNCHANGED <<cluster, query, ifs, given>>
  BY DEF ByNetwork
<1>2. Iface \in IfaceData
  BY <1>1, IfaceType DEF IpamInv
<1>3. Iface.net \in Nets /\ Iface.random \in BOOLEAN
  BY <1>1, <1>2 DEF IfaceData
<1>4. CASE Fail("ErrNotFound")
  BY <1>1, <1>4, FailStep
<1>5. CASE /\ HasNetwork(Iface.net)
           /\ NetType[Iface.net] = "sriov" /\ InitSriovNetwork(Iface.net)
  BY <1>1, <1>3, <1>5, SriovStep DEF HasNetwork
<1>6. CASE NetType[Iface.net] = "underlay" /\ NetworkIpam(Iface.net, FALSE)
  BY <1>1, <1>3, <1>6, NetworkIpamStep
<1>7. CASE NetType[Iface.net] = "overlay" /\ NetworkIpam(Iface.net, ~Iface.random)
  <2>1. PICK b \in BOOLEAN : b = ~Iface.random
    OBVIOUS
  <2> QED BY <1>1, <1>3, <1>7, <2>1, NetworkIpamStep
<1> QED BY <1>4, <1>5, <1>6, <1>7 DEF ByNetwork

\* The check of a static address.
LEMMA CheckCidrStep ==
  ASSUME IpamInv, CheckCidr
  PROVE  IpamInv'
<1>1. pc = "cidr" /\ UNCHANGED <<cluster, query, ifs, given>>
  BY DEF CheckCidr
<1>2. CASE Fail(MissingSubnet(pick.sub))
  BY <1>1, <1>2, FailStep
<1>3. CASE Fail("other")
  BY <1>1, <1>3, FailStep
<1>4. CASE /\ HasUid(pick.sub) /\ pick.ip \in Cidr[pick.sub.s]
           /\ pc' = "init" /\ UNCHANGED <<ipams, pick, out, ann, res>>
  <2> USE DEF IpamInv, cluster, objects, query
  <2>1. IpamTypeOK'
    BY <1>1, <1>4 DEF IpamTypeOK, Pcs
  <2>2. Progress'
    BY <1>1, <1>4 DEF Progress, Resolving
  <2>3. ClusterInv'
    BY <1>1, RestGrows
  <2>4. EntriesTraced'
    BY <1>1, <1>4, EntriesFrame, RestGrows
  <2>5. RewrittenIsUsed'
    BY <1>1, <1>4 DEF RewrittenIsUsed, Used, Resolving, Choosing, Uid
  <2>6. Iface' = Iface
    BY <1>1, <1>4 DEF Iface
  <2>7. PickPlaced /\ PickOwn /\ pick \in IpamData /\ pick.sub # None
    BY <1>1 DEF PickInv, Choosing
  <2>8. PickPlaced'
    <3>1. \A n, ref : Allowed(n, ref) => Allowed(n, ref)'
      BY <1>1, AllowedStays, RestGrows
    <3> QED BY <1>1, <1>4, <2>6, <2>7, <3>1 DEF PickPlaced, InNetwork
  <2>9. PickOwn'
    <3>1. \A s \in Subnets : Asked(s)' = Asked(s)
      BY <1>1, GivenFrame
    <3>2. \A m : Used(m)' = Used(m)
      BY <1>4 DEF Used
    <3> QED BY <1>1, <1>4, <2>6, <2>7, <3>1, <3>2 DEF PickOwn, Uid
  <2>10. PickInv'
    BY <1>4, <2>7, <2>8, <2>9 DEF PickInv, PickFits, HasUid
  <2>11. AttachInv'
    BY <1>1, <1>4, AttachFrame, RestGrows
  <2>12. ViewInv'
    BY <1>1, <1>4, ViewFrame, RestGrows
  <2> QED BY <2>1, <2>2, <2>3, <2>4, <2>5, <2>10, <2>11, <2>12
<1> QED BY <1>2, <1>3, <1>4 DEF CheckCidr

\* GetSubnet by address never finds a way on.
LEMMA SubnetByIpStep ==
  ASSUME IpamInv, SubnetByIp
  PROVE  IpamInv'
<1>1. UNCHANGED <<cluster, query, ifs, given>>
  BY DEF SubnetByIp
<1>2. CASE Return("panic")
  BY <1>1, <1>2, HaltStep
<1>3. CASE Fail("ErrNotFound")
  BY <1>1, <1>3, FailStep
<1> QED BY <1>2, <1>3 DEF SubnetByIp

\* initNetwork: the subnet's NAD and the annotations for it.
LEMMA InitNetworkStep ==
  ASSUME IpamInv, InitNetwork
  PROVE  IpamInv'
<1>1. pc = "init" /\ UNCHANGED <<cluster, query, ifs, given>>
  BY DEF InitNetwork
<1>2. CASE Fail("ErrInvalidArgument")
  BY <1>1, <1>2, FailStep
<1>3. CASE Fail(IF pick.sub.by = "uid" THEN "ErrNotFound" ELSE "k8sNotFound")
  BY <1>1, <1>3, FailStep
<1>4. ASSUME pick.sub \in Refs, NEW s \in Found(pick.sub),
             out' = Append(out, [to |-> <<"subnet", s>>, mac |-> None]),
             Annotate(NameOf[s], pick), pc' = "next", UNCHANGED <<ipams, pick, res>>
      PROVE  IpamInv'
  <2> DEFINE x == [to |-> <<"subnet", s>>, mac |-> None]
             N == Len(out) + 1
             m == NameOf[s]
  <2>1. s \in live /\ s \in Subnets /\ Means(pick.sub, s)
    BY <1>4 DEF Found, IpamInv, IpamTypeOK
  <2>0. m \in Names
    BY <2>1, IpamAssumption
  <2>2. /\ x \in [to : Targets, mac : Macs \union {None}]
        /\ x.to = <<"subnet", s>>
    BY <2>1 DEF Targets
  <2>3. out' = Append(out, x)
    BY <1>4
  <2> HIDE DEF x
  <2>4. IpamTypeOK
    BY DEF IpamInv
  <2>5. /\ out' \in Seq([to : Targets, mac : Macs \union {None}])
        /\ Len(out) \in Nat
        /\ Len(out') = N
        /\ DOMAIN out' = DOMAIN out \union {N}
        /\ N \notin DOMAIN out
        /\ \A k \in DOMAIN out : out'[k] = out[k]
        /\ out'[N] = x
    BY <2>2, <2>3, <2>4, AppendFacts
  <2>6. Iface = ifs[N]
    BY DEF Iface
  <2> HIDE DEF N
  <2>7. Len(out) < Len(ifs)
    BY <1>1 DEF IpamInv, Progress, Resolving
  <2>8. /\ pick \in IpamData /\ pick.sub # None
        /\ PickFits /\ PickPlaced /\ PickOwn
    BY <1>1 DEF IpamInv, PickInv, Choosing
  <2>9. pick.ip \in Ips \union {None} /\ pick.mac \in Macs \union {None}
    BY <2>8 DEF IpamData
  <2>10. ann \in [Names -> [ip : Ips \union {None}, mac : Macs \union {None}]]
    BY <2>4 DEF IpamTypeOK
  <2>11. PICK a : a = [ip |-> IF pick.ip = None THEN ann[m].ip ELSE pick.ip,
                       mac |-> IF pick.mac = None THEN ann[m].mac ELSE pick.mac]
    OBVIOUS
  <2>12. ann' = [ann EXCEPT ![m] = a]
    BY <1>4, <2>11 DEF Annotate
  <2>13. /\ a \in [ip : Ips \union {None}, mac : Macs \union {None}]
         /\ a.ip = IF pick.ip = None THEN ann[m].ip ELSE pick.ip
    BY <2>0, <2>9, <2>10, <2>11
  <2>14. /\ ann' \in [Names -> [ip : Ips \union {None}, mac : Macs \union {None}]]
         /\ ann'[m] = a
         /\ \A l \in Names : l # m => ann'[l] = ann[l]
    BY <2>0, <2>10, <2>12, <2>13
  <2>15. \A l : Used(l)' <=> Used(l) \/ l = m
    <3>1. x.to[2] = s
      BY <2>2
    <3> QED BY <2>5, <3>1, Zenon DEF Used
  <2> HIDE DEF m
  <2>16. IpamTypeOK'
    BY <1>1, <1>4, <2>4, <2>5, <2>14 DEF IpamTypeOK, Pcs, cluster, objects, query
  <2>17. Progress'
    BY <1>1, <1>4, <2>4, <2>5, <2>7 DEF IpamTypeOK, Progress, Resolving, N
  <2>18. ClusterInv'
    BY <1>1, RestGrows DEF IpamInv
  <2>19. EntriesTraced'
    BY <1>1, <1>4, EntriesFrame, RestGrows DEF IpamInv
  <2>20. RewrittenIsUsed'
    <3>1. ASSUME NEW k \in DOMAIN given, NEW t \in Subnets,
                 ipams[k].sub = Uid(t), given[k].sub # Uid(t)
          PROVE  Used(NameOf[t])'
      <4>1. Used(NameOf[t]) \/ pick.sub = Uid(t)
        BY <1>1, <3>1 DEF IpamInv, RewrittenIsUsed, Resolving
      <4>2. pick.sub = Uid(t) => NameOf[t] = m
        BY <2>1 DEF Uid, Means, m
      <4> QED BY <4>1, <4>2, <2>15
    <3> QED BY <1>1, <1>4, <3>1 DEF RewrittenIsUsed, Uid
  <2>21. PickInv'
    BY <1>4 DEF PickInv, Choosing
  <2>22. UnusedHasNoAddress'
    BY <2>14, <2>15 DEF IpamInv, AttachInv, UnusedHasNoAddress, NoAddress
  <2>23. StaticAddressFits'
    <3>1. pick.ip # None => pick.ip \in Cidr[s]
      BY <1>1, <1>4, <2>1, <2>8 DEF PickFits, Means
    <3>2. ASSUME NEW l \in Names, ann'[l].ip # None
          PROVE  \E k \in DOMAIN out' :
                   LET to == out'[k].to IN
                   to[1] = "subnet" /\ NameOf[to[2]] = l /\ ann'[l].ip \in Cidr[to[2]]
      <4>1. CASE ann'[l].ip = ann[l].ip
        <5>1. PICK k \in DOMAIN out :
                LET to == out[k].to IN
                to[1] = "subnet" /\ NameOf[to[2]] = l /\ ann[l].ip \in Cidr[to[2]]
          BY <3>2, <4>1 DEF IpamInv, AttachInv, StaticAddressFits
        <5> QED BY <2>5, <4>1, <5>1
      <4>2. CASE ann'[l].ip # ann[l].ip
        <5>1. l = m /\ ann'[l].ip = pick.ip /\ pick.ip # None
          BY <2>13, <2>14, <3>2, <4>2
        <5> QED BY <2>2, <2>5, <3>1, <5>1 DEF m
      <4> QED BY <4>1, <4>2
    <3> QED BY <3>2 DEF StaticAddressFits
  <2>24. AttachedWhereAsked'
    <3>1. \A n, t : SentTo(n, t)' = SentTo(n, t)
      BY <1>1, GivenFrame
    <3>2. ASSUME NEW k \in DOMAIN out'
          PROVE  LET d == ifs[k]
                     to == out'[k].to IN
                 /\ d.sub # None =>
                      /\ to = <<"subnet", d.sub.s>>
                      /\ d.net # None => NetOf[d.sub.s] = d.net
                 /\ d.sub = None =>
                      IF NetType[d.net] = "sriov" THEN to = <<"sriov", d.net>>
                      ELSE /\ to[1] = "subnet"
                           /\ OfNetwork(d.net, to[2]) \/ SentTo(d.net, to[2])
      <4>1. CASE k \in DOMAIN out
        <5>1. out'[k] = out[k]
          BY <2>5, <4>1
        <5> QED BY <4>1, <5>1 DEF IpamInv, AttachInv, AttachedWhereAsked
      <4>2. CASE k = N
        <5>1. out'[k].to = <<"subnet", s>> /\ ifs[k] = Iface
          BY <2>2, <2>5, <2>6, <4>2
        <5>2. CASE Iface.sub # None
          <6>1. PICK t \in Subnets : Iface.sub = Uid(t)
            BY <2>8, <5>2 DEF PickOwn
          <6>2. t = s
            BY <2>1, <2>8, <5>2, <6>1 DEF PickPlaced, Means, Uid
          <6> QED BY <2>8, <5>1, <5>2, <6>1, <6>2 DEF PickPlaced, InNetwork, Uid
        <5>3. CASE Iface.sub = None
          BY <1>4, <2>1, <2>8, <5>1, <5>3 DEF PickPlaced, Allowed
        <5> QED BY <5>2, <5>3
      <4> QED BY <2>5, <4>1, <4>2
    <3>3. \A n, t : OfNetwork(n, t) => OfNetwork(n, t)'
      BY <1>1, RestGrows, DeletionStays
    <3> QED BY <1>1, <3>1, <3>2, <3>3, Zenon DEF AttachedWhereAsked
  <2>25. OwnSoFar'
    <3>1. ASSUME NEW k \in DOMAIN out', ifs[k].sub # None
          PROVE  \E t \in Subnets :
                   /\ ifs[k].sub = Uid(t)
                   /\ (\A j \in DOMAIN out' :
                         NameOf[out'[j].to[2]] = NameOf[out'[k].to[2]] => j = k)
                        => ann'[NameOf[t]] = Asked(t)
      <4>1. CASE k \in DOMAIN out
        <5>1. PICK t \in Subnets :
                /\ ifs[k].sub = Uid(t)
                /\ (\A j \in DOMAIN out :
                      NameOf[out[j].to[2]] = NameOf[out[k].to[2]] => j = k)
                     => ann[NameOf[t]] = Asked(t)
          BY <3>1, <4>1 DEF IpamInv, AttachInv, OwnSoFar
        <5>2. out[k].to = <<"subnet", t>>
          BY <3>1, <4>1, <5>1 DEF IpamInv, AttachInv, AttachedWhereAsked, Uid
        <5>3. ASSUME \A j \in DOMAIN out' :
                       NameOf[out'[j].to[2]] = NameOf[out'[k].to[2]] => j = k
              PROVE  ann'[NameOf[t]] = Asked(t)
          <6>1. \A j \in DOMAIN out : NameOf[out[j].to[2]] = NameOf[out[k].to[2]] => j = k
            BY <2>5, <4>1, <5>3
          <6>2. NameOf[out'[N].to[2]] # NameOf[out'[k].to[2]]
            BY <2>5, <4>1, <5>3
          <6>3. NameOf[t] # m /\ NameOf[t] \in Names
            BY <2>2, <2>5, <4>1, <5>2, <6>2, IpamAssumption DEF m
          <6> QED BY <2>14, <5>1, <6>1, <6>3
        <5> QED BY <5>1, <5>3
      <4>2. CASE k = N
        <5>1. PICK t \in Subnets :
                /\ Iface.sub = Uid(t)
                /\ ~Used(NameOf[t]) => [ip |-> pick.ip, mac |-> pick.mac] = Asked(t)
          BY <2>6, <2>8, <3>1, <4>2 DEF PickOwn
        <5>2. t = s
          BY <2>1, <2>6, <2>8, <3>1, <4>2, <5>1 DEF PickPlaced, Means, Uid
        <5>3. ASSUME \A j \in DOMAIN out' :
                       NameOf[out'[j].to[2]] = NameOf[out'[k].to[2]] => j = k
              PROVE  ann'[NameOf[t]] = Asked(t)
          <6>1. ~Used(m)
            BY <2>2, <2>5, <4>2, <5>3 DEF Used, m
          <6>2. ann[m] = NoAddress
            BY <2>0, <6>1 DEF IpamInv, AttachInv, UnusedHasNoAddress
          <6>3. a = [ip |-> pick.ip, mac |-> pick.mac]
            BY <2>11, <6>2 DEF NoAddress
          <6> QED BY <2>14, <5>1, <5>2, <6>1, <6>3 DEF m
        <5> QED BY <2>6, <4>2, <5>1, <5>3
      <4> QED BY <2>5, <4>1, <4>2
    <3>2. \A t \in Subnets : Asked(t)' = Asked(t)
      BY <1>1, GivenFrame
    <3> QED BY <1>1, <3>1, <3>2, Zenon DEF OwnSoFar, Uid
  <2>26. OutBorn'
    <3>1. s \notin unborn
      BY <2>1 DEF IpamInv, ClusterInv
    <3> QED BY <1>1, <2>2, <2>5, <3>1 DEF IpamInv, AttachInv, OutBorn, cluster, objects
  <2>27. ViewInv'
    BY <1>1, <1>4, <2>2, <2>3, <2>4, ViewAppend DEF IpamInv, query
  <2> QED BY <2>16, <2>17, <2>18, <2>19, <2>20, <2>21, <2>22, <2>23, <2>24, <2>25, <2>26, <2>27
          DEF IpamInv, AttachInv
<1>5. CASE /\ pick.sub \in Refs
           /\ \E s \in Found(pick.sub) :
                /\ out' = Append(out, [to |-> <<"subnet", s>>, mac |-> None])
                /\ Annotate(NameOf[s], pick)
           /\ pc' = "next"
           /\ UNCHANGED <<ipams, pick, res>>
  BY <1>4, <1>5
<1> QED BY <1>2, <1>3, <1>5 DEF InitNetwork

-----------------------------------------------------------------------------
(* The view of the VM's interfaces *)

\* What a step of a query leaves to be shown.
LEMMA QueryStep ==
  ASSUME IpamInv, UNCHANGED <<cluster, resolver>>, pc' \in Pcs \ Resolving,
         view' \in Seq(Targets \union {Gone}), vres' \in Codes \union {"none", "OK"},
         ViewInv'
  PROVE  IpamInv'
<1> USE DEF IpamInv, cluster, objects, resolver
<1>1. IpamTypeOK'
  BY DEF IpamTypeOK
<1>2. Progress'
  BY DEF Progress, Resolving
<1>3. ClusterInv'
  BY RestGrows
<1>4. EntriesTraced'
  BY EntriesFrame, RestGrows
<1>5. RewrittenIsUsed'
  BY DEF RewrittenIsUsed
<1>6. PickInv'
  BY DEF PickInv, Choosing, Resolving
<1>7. AttachInv'
  BY AttachFrame, RestGrows
<1> QED BY <1>1, <1>2, <1>3, <1>4, <1>5, <1>6, <1>7

\* The interface that the view looks at is one of the VM's.
LEMMA ShownType ==
  ASSUME IpamTypeOK, Len(view) < Len(out)
  PROVE  Shown \in Targets
<1> DEFINE Vmis == [to : Targets, mac : Macs \union {None}]
<1>1. out \in Seq(Vmis) /\ Len(view) \in Nat
  BY DEF IpamTypeOK
<1>2. \A v \in Vmis : v.to \in Targets
  OBVIOUS
<1> HIDE DEF Vmis
<1>3. out[Len(view) + 1] \in Vmis
  BY <1>1
<1> QED BY <1>2, <1>3 DEF Shown

\* The view grows by an interface as it is, by one that is gone or replaced.
LEMMA ViewGrows ==
  ASSUME IpamTypeOK, ViewInv, Len(view) < Len(out), NEW x \in Targets \union {Gone},
         x \in {Gone, Shown} \/ Replaced(Len(view) + 1, x),
         view' = Append(view, x), UNCHANGED <<out, vres, cluster>>, pc' = "view_net"
  PROVE  view' \in Seq(Targets \union {Gone}) /\ ViewInv'
<1>2. view \in Seq(Targets \union {Gone}) /\ Len(view) \in Nat /\ Len(out) \in Nat
  BY DEF IpamTypeOK
<1>3. /\ view' \in Seq(Targets \union {Gone})
      /\ Len(view') = Len(view) + 1
      /\ DOMAIN view' = DOMAIN view \union {Len(view) + 1}
      /\ \A k \in DOMAIN view : view'[k] = view[k]
      /\ view'[Len(view) + 1] = x
  BY <1>2
<1>4. ASSUME NEW k \in DOMAIN view'
      PROVE  view'[k] \in {Gone, out[k].to} \/ Replaced(k, view'[k])
  <2>1. CASE k \in DOMAIN view
    BY <1>3, <2>1 DEF ViewInv, ViewSurvivesDeletion
  <2>2. CASE k = Len(view) + 1
    BY <1>3, <2>2 DEF Shown
  <2> QED BY <1>3, <2>1, <2>2
<1>5. UNCHANGED <<live, nets, shadowed, unborn>>
  BY DEF cluster, objects
<1>6. \A k, y : Replaced(k, y)' = Replaced(k, y)
  BY <1>5 DEF Replaced, Deleted
<1>7. ViewSurvivesDeletion'
  BY <1>4, <1>5, <1>6, Zenon DEF ViewInv, ViewSurvivesDeletion, Gone, Sriov
<1>8. Len(view') <= Len(out')
  BY <1>2, <1>3
<1> QED BY <1>3, <1>7, <1>8 DEF ViewInv

(* A query that ends has a reason to fail, or succeeds: either keeps       *)
(* ViewInv, and so does one that looks for the NAD of a subnet.            *)
LEMMA ViewStops ==
  ASSUME ViewInv, UNCHANGED <<cluster, resolver, view>>,
         \/ vres' \in {vres, "OK"}
         \/ shadowed # {}
         \/ \E k \in DOMAIN out : \E n \in Sriov \ unborn : Replaced(k, <<"sriov", n>>),
         \/ pc' # "view_sub"
         \/ /\ Len(view) < Len(out)
            /\ Shown[1] = "sriov" => shadowed # {} \/ Deleted(Shown[2])
  PROVE  ViewInv'
<1>1. UNCHANGED <<live, nets, shadowed, unborn, out, view>>
  BY DEF cluster, objects, resolver
<1>2. \A k, y : Replaced(k, y)' = Replaced(k, y)
  BY <1>1 DEF Replaced, Deleted
<1>3. ViewSurvivesDeletion'
  <2>1. \A k \in DOMAIN view' : view'[k] \in {Gone, out'[k].to} \/ Replaced(k, view[k])'
    BY <1>1, <1>2 DEF ViewInv, ViewSurvivesDeletion
  <2>2. \/ vres' \in {"none", "OK"}
        \/ shadowed' # {}
        \/ \E k \in DOMAIN out' : \E n \in Sriov \ unborn' : Replaced(k, <<"sriov", n>>)'
    BY <1>1, <1>2 DEF ViewInv, ViewSurvivesDeletion
  <2> QED BY <2>1, <2>2, Zenon DEF ViewSurvivesDeletion, Gone, Sriov
<1>4. Shown' = Shown
  BY <1>1 DEF Shown
<1>5. Deleted(Shown[2])' = Deleted(Shown[2])
  BY <1>1, <1>4 DEF Deleted
<1> QED BY <1>1, <1>3, <1>4, <1>5 DEF ViewInv

(* An object that was resolved to and is no longer there was deleted; so   *)
(* whoever has its name and kind now is that object or its replacement.    *)
LEMMA ShownOrReplaced ==
  ASSUME IpamInv, Len(view) < Len(out)
  PROVE  /\ Shown \in Targets /\ NadName = NameOf[Shown[2]]
         /\ Shown[1] = "sriov" /\ SriovNamed(NadName) = {} => Deleted(Shown[2])
         /\ \A n \in SriovNamed(NadName) :
              /\ <<"sriov", n>> \in Targets /\ n \notin unborn
              /\ <<"sriov", n>> = Shown \/ Replaced(Len(view) + 1, <<"sriov", n>>)
         /\ \A s \in Bearers(NadName) :
              /\ <<"subnet", s>> \in Targets
              /\ <<"subnet", s>> = Shown \/ Replaced(Len(view) + 1, <<"subnet", s>>)
<1>1. /\ live \subseteq Subnets /\ nets \subseteq Nets
      /\ (live \union nets) \intersect unborn = {}
      /\ Distinct(live) /\ Distinct(nets \intersect Sriov)
  BY DEF IpamInv, IpamTypeOK, ClusterInv
<1>2. Shown \in Targets
  BY ShownType DEF IpamInv
<1>3. Shown[2] \notin unborn
  <2>1. Len(view) + 1 \in DOMAIN out
    BY DEF IpamInv, IpamTypeOK
  <2> QED BY <2>1 DEF IpamInv, AttachInv, OutBorn, Shown
<1>4. NadName = NameOf[Shown[2]]
  BY DEF NadName, Shown
<1>5. PICK kind, o : Shown = <<kind, o>>
  BY <1>2 DEF Targets
<1>6. \/ kind = "subnet" /\ o \in Subnets /\ o \notin nets
      \/ kind = "sriov" /\ o \in Sriov /\ o \in Nets /\ o \notin live
  BY <1>1, <1>2, <1>5, IpamAssumption DEF Targets, Sriov
<1>7. NadName = NameOf[o] /\ o \notin unborn /\ out[Len(view) + 1].to = <<kind, o>>
  BY <1>3, <1>4, <1>5 DEF Shown
<1>8. ASSUME kind = "sriov", SriovNamed(NadName) = {} PROVE Deleted(o)
  BY <1>6, <1>7, <1>8 DEF Deleted, SriovNamed, Sriov
<1>9. ASSUME NEW n \in SriovNamed(NadName)
      PROVE  /\ <<"sriov", n>> \in Targets /\ n \notin unborn
             /\ <<"sriov", n>> = Shown \/ Replaced(Len(view) + 1, <<"sriov", n>>)
  <2>1. n \in nets /\ n \in Sriov /\ NameOf[n] = NameOf[o]
    BY <1>1, <1>7 DEF SriovNamed, Sriov
  <2>2. kind = "sriov"
    <3>1. NameOf[n] \in NamesIn(Sriov) /\ (o \in Subnets => NameOf[o] \in NamesIn(Subnets))
      BY <2>1 DEF NamesIn
    <3> QED BY <1>6, <2>1, <3>1, IpamAssumption
  <2>3. o \in nets => o = n
    BY <1>1, <1>6, <2>1, <2>2 DEF Distinct
  <2>4. o \notin nets => Deleted(o)
    BY <1>6, <1>7, <2>2 DEF Deleted
  <2>5. Deleted(o) => Replaced(Len(view) + 1, <<"sriov", n>>)
    BY <1>7, <2>1, <2>2 DEF Replaced
  <2> QED BY <1>1, <1>5, <2>1, <2>2, <2>3, <2>4, <2>5 DEF Targets
<1>10. ASSUME NEW s \in Bearers(NadName)
       PROVE  /\ <<"subnet", s>> \in Targets
              /\ <<"subnet", s>> = Shown \/ Replaced(Len(view) + 1, <<"subnet", s>>)
  <2>1. s \in live /\ s \in Subnets /\ NameOf[s] = NameOf[o]
    BY <1>1, <1>7 DEF Bearers
  <2>2. kind = "subnet"
    <3>1. NameOf[s] \in NamesIn(Subnets) /\ (o \in Sriov => NameOf[o] \in NamesIn(Sriov))
      BY <2>1 DEF NamesIn
    <3> QED BY <1>6, <2>1, <3>1, IpamAssumption
  <2>3. o \in live => o = s
    BY <1>1, <2>1 DEF Distinct
  <2>4. o \notin live => Deleted(o)
    BY <1>6, <1>7, <2>2 DEF Deleted
  <2>5. Deleted(o) => Replaced(Len(view) + 1, <<"subnet", s>>)
    BY <1>7, <2>1, <2>2 DEF Replaced
  <2> QED BY <1>5, <2>1, <2>2, <2>3, <2>4, <2>5 DEF Targets
<1> QED BY <1>2, <1>4, <1>5, <1>8, <1>9, <1>10

\* An attachment found, or found to be gone.
LEMMA FoundStep ==
  ASSUME IpamInv, UNCHANGED <<cluster, resolver, vres>>, Len(view) < Len(out),
         NEW x \in Targets \union {Gone},
         x \in {Gone, Shown} \/ Replaced(Len(view) + 1, x),
         view' = Append(view, x), pc' = "view_net"
  PROVE  IpamInv'
<1>1. view' \in Seq(Targets \union {Gone}) /\ ViewInv'
  BY ViewGrows DEF IpamInv, resolver
<1>2. pc' \in Pcs \ Resolving
  BY DEF Pcs, Resolving
<1>3. vres' \in Codes \union {"none", "OK"}
  BY DEF IpamInv, IpamTypeOK
<1> QED BY <1>1, <1>2, <1>3, QueryStep

\* The lookup of a network by the name of the NAD.
LEMMA ViewNetworkStep ==
  ASSUME IpamInv, ViewNetwork
  PROVE  IpamInv'
<1>1. pc = "view_net" /\ Len(view) < Len(out) /\ UNCHANGED <<cluster, resolver, vres>>
  BY DEF ViewNetwork
<1>2. ASSUME NEW n \in SriovNamed(NadName), view' = Append(view, <<"sriov", n>>), pc' = pc
      PROVE  IpamInv'
  <2>1. /\ <<"sriov", n>> \in Targets
        /\ <<"sriov", n>> = Shown \/ Replaced(Len(view) + 1, <<"sriov", n>>)
    BY <1>1, <1>2, ShownOrReplaced
  <2> QED BY <1>1, <1>2, <2>1, FoundStep
<1>3. CASE /\ NadName \in shadowed \/ SriovNamed(NadName) = {}
           /\ pc' = "view_sub" /\ view' = view
  <2>1. Shown[1] = "sriov" => shadowed # {} \/ Deleted(Shown[2])
    BY <1>1, <1>3, ShownOrReplaced
  <2>2. ViewInv'
    BY <1>1, <1>3, <2>1, ViewStops DEF IpamInv
  <2>3. view' \in Seq(Targets \union {Gone}) /\ vres' \in Codes \union {"none", "OK"}
    BY <1>1, <1>3 DEF IpamInv, IpamTypeOK
  <2>4. pc' \in Pcs \ Resolving
    BY <1>3 DEF Pcs, Resolving
  <2> QED BY <1>1, <2>2, <2>3, <2>4, QueryStep
<1> QED BY <1>2, <1>3 DEF ViewNetwork

\* A query that fails for one of the two reasons.
LEMMA ViewFails ==
  ASSUME IpamInv, UNCHANGED <<cluster, resolver, view>>, pc' = "end",
         NEW kind, vres' = ToGRPCError({kind}),
         \/ shadowed # {}
         \/ \E k \in DOMAIN out : \E n \in Sriov \ unborn : Replaced(k, <<"sriov", n>>)
  PROVE  IpamInv'
<1>1. ViewInv'
  BY ViewStops DEF IpamInv
<1>2. view' \in Seq(Targets \union {Gone}) /\ vres' \in Codes \union {"none", "OK"}
  BY ErrorHasCode DEF IpamInv, IpamTypeOK
<1>3. pc' \in Pcs \ Resolving
  BY DEF Pcs, Resolving
<1> QED BY <1>1, <1>2, <1>3, QueryStep

\* The lookup of a subnet through its NAD.
LEMMA ViewSubnetStep ==
  ASSUME IpamInv, ViewSubnet
  PROVE  IpamInv'
<1>1. pc = "view_sub" /\ UNCHANGED <<cluster, resolver>>
  BY DEF ViewSubnet
<1>2. /\ Len(view) < Len(out)
      /\ Shown[1] = "sriov" => shadowed # {} \/ Deleted(Shown[2])
  BY <1>1 DEF IpamInv, ViewInv
<1>3. ASSUME NEW s \in Bearers(NadName), view' = Append(view, <<"subnet", s>>),
             pc' = "view_net", vres' = vres
      PROVE  IpamInv'
  <2>1. /\ <<"subnet", s>> \in Targets
        /\ <<"subnet", s>> = Shown \/ Replaced(Len(view) + 1, <<"subnet", s>>)
    BY <1>2, <1>3, ShownOrReplaced
  <2> QED BY <1>1, <1>2, <1>3, <2>1, FoundStep
<1>4. CASE view' = Append(view, Gone) /\ pc' = "view_net" /\ vres' = vres
  BY <1>1, <1>2, <1>4, FoundStep
<1>5. CASE /\ ViewError # None /\ ~NadMissing(ViewError)
           /\ vres' = ToGRPCError({ViewError}) /\ pc' = "end" /\ view' = view
  <2>1. PICK n : n \in SriovNamed(NadName)
    BY <1>5 DEF ViewError, NadMissing
  <2>2. /\ n \in Sriov /\ n \notin unborn
        /\ <<"sriov", n>> = Shown \/ Replaced(Len(view) + 1, <<"sriov", n>>)
    BY <1>2, <2>1, ShownOrReplaced DEF SriovNamed, Sriov, IpamInv, IpamTypeOK
  <2>3. n \in nets
    BY <2>1 DEF SriovNamed
  <2>4. CASE <<"sriov", n>> = Shown
    <3>1. shadowed # {}
      BY <1>2, <2>3, <2>4 DEF Deleted
    <3> QED BY <1>1, <1>5, <3>1, ViewFails
  <2>5. CASE Replaced(Len(view) + 1, <<"sriov", n>>)
    <3>1. Len(view) + 1 \in DOMAIN out
      BY <1>2 DEF IpamInv, IpamTypeOK
    <3> QED BY <1>1, <1>5, <2>2, <2>5, <3>1, ViewFails
  <2> QED BY <2>2, <2>4, <2>5
<1> QED BY <1>3, <1>4, <1>5 DEF ViewSubnet

\* Every step of a query.
LEMMA ViewStep ==
  ASSUME IpamInv, View
  PROVE  IpamInv'
<1>1. CASE ViewBegins
  <2>1. UNCHANGED <<cluster, resolver, query>> /\ pc' = "view_net"
    BY <1>1 DEF ViewBegins
  <2>2. ViewInv'
    BY <2>1, ViewFrame, RestGrows DEF IpamInv, cluster, resolver, query
  <2>3. view' \in Seq(Targets \union {Gone}) /\ vres' \in Codes \union {"none", "OK"}
    BY <2>1 DEF IpamInv, IpamTypeOK, query
  <2>4. pc' \in Pcs \ Resolving
    BY <2>1 DEF Pcs, Resolving
  <2> QED BY <2>1, <2>2, <2>3, <2>4, QueryStep
<1>2. CASE ViewEnds
  <2>1. UNCHANGED <<cluster, resolver, view>> /\ pc' = "end" /\ vres' = "OK"
    BY <1>2 DEF ViewEnds
  <2>2. ViewInv'
    BY <2>1, ViewStops DEF IpamInv
  <2>3. view' \in Seq(Targets \union {Gone}) /\ vres' \in Codes \union {"none", "OK"}
    BY <2>1 DEF IpamInv, IpamTypeOK
  <2>4. pc' \in Pcs \ Resolving
    BY <2>1 DEF Pcs, Resolving
  <2> QED BY <2>1, <2>2, <2>3, <2>4, QueryStep
<1>3. CASE ViewNetwork
  BY <1>3, ViewNetworkStep
<1>4. CASE ViewSubnet
  BY <1>4, ViewSubnetStep
<1> QED BY <1>1, <1>2, <1>3, <1>4 DEF View

-----------------------------------------------------------------------------
(* The cluster changes *)

\* What a change of the cluster leaves to be shown.
LEMMA ClusterFrame ==
  ASSUME IpamInv, UNCHANGED <<resolver, query, pc>>, Grows, IpamTypeOK', ClusterInv'
  PROVE  IpamInv'
<1> USE DEF IpamInv
<1>1. /\ UNCHANGED <<ifs, given, ipams, pick, out, ann, res>>
      /\ UNCHANGED <<view, vres, pc>>
  BY DEF resolver, query
<1>2. Iface' = Iface
  BY <1>1 DEF Iface
<1>3. Progress'
  <2>1. \A n \in Nets : NetworkEntry(n)' = NetworkEntry(n)
    BY <1>1, Zenon DEF NetworkEntry, NetworkEntries
  <2> QED BY <1>1, <1>2, <2>1 DEF Progress
<1>4. EntriesTraced'
  BY <1>1, EntriesFrame
<1>5. \A m : Used(m)' = Used(m)
  BY <1>1 DEF Used
<1>6. RewrittenIsUsed'
  BY <1>1, <1>5 DEF RewrittenIsUsed, Uid
<1>7. PickInv'
  <2>1. CASE pc \notin Choosing
    BY <1>1, <2>1 DEF PickInv
  <2>2. CASE pc \in Choosing
    <3>1. /\ pick \in IpamData /\ pick.sub # None
          /\ PickFits /\ PickPlaced /\ PickOwn
      BY <2>2 DEF PickInv
    <3>2. PickFits'
      BY <1>1, <3>1 DEF PickFits, Refs
    <3>3. PickPlaced'
      <4>1. \A n, ref : Allowed(n, ref) => Allowed(n, ref)'
        BY <1>1, AllowedStays
      <4> QED BY <1>1, <1>2, <3>1, <4>1 DEF PickPlaced, InNetwork
    <3>4. PickOwn'
      <4>1. \A s \in Subnets : Asked(s)' = Asked(s)
        BY <1>1, GivenFrame
      <4> QED BY <1>1, <1>2, <1>5, <3>1, <4>1 DEF PickOwn, Uid
    <3> QED BY <1>1, <3>1, <3>2, <3>3, <3>4 DEF PickInv
  <2> QED BY <2>1, <2>2
<1>8. AttachInv'
  BY <1>1, AttachFrame
<1>9. ViewInv'
  BY <1>1, ViewFrame
<1> QED BY <1>3, <1>4, <1>6, <1>7, <1>8, <1>9

\* The names of things that are there are names.
LEMMA NamesInType ==
  ASSUME NEW S, S \subseteq Nets \union Subnets
  PROVE  NamesIn(S) \subseteq Names
BY IpamAssumption DEF NamesIn

\* One more object, whose name nobody in the set has.
LEMMA DistinctGrows ==
  ASSUME NEW S, Distinct(S), NEW x, \A y \in S : NameOf[y] # NameOf[x]
  PROVE  Distinct(S \union {x})
BY DEF Distinct

\* Deletions leave the names that are left distinct.
LEMMA DistinctShrinks ==
  ASSUME NEW S, Distinct(S), NEW T, T \subseteq S
  PROVE  Distinct(T)
BY DEF Distinct

(* What keeps ClusterInv: sets that shrink, or grow by an object that is   *)
(* created and has no namesake; and a status that lists what there is.     *)
LEMMA ClusterKept ==
  ASSUME IpamInv, IpamTypeOK',
         \A n \in Nets : listed'[n] \subseteq listed[n] \union NamesIn(SubnetsOf(n) \intersect live),
         Distinct(live'), Distinct(nets' \intersect Sriov),
         (live' \union nets') \intersect unborn' = {}, unborn' \subseteq unborn
  PROVE  ClusterInv'
<1>1. ASSUME NEW n \in Nets PROVE listed'[n] \subseteq NamesIn(SubnetsOf(n) \ unborn')
  <2>1. SubnetsOf(n) \intersect live \subseteq SubnetsOf(n) \ unborn
    BY DEF IpamInv, ClusterInv
  <2>2. listed[n] \subseteq NamesIn(SubnetsOf(n) \ unborn)
    BY DEF IpamInv, ClusterInv
  <2>3. \A S, T : S \subseteq T => NamesIn(S) \subseteq NamesIn(T)
    BY DEF NamesIn
  <2>4. SubnetsOf(n) \ unborn \subseteq SubnetsOf(n) \ unborn'
    OBVIOUS
  <2> QED BY <2>1, <2>2, <2>3, <2>4
<1>2. Distinct(live)' /\ Distinct(nets \intersect Sriov)'
  BY DEF Distinct, Sriov
<1>3. \A n \in Nets : NamesIn(SubnetsOf(n) \ unborn)' = NamesIn(SubnetsOf(n) \ unborn')
  BY DEF NamesIn, SubnetsOf
<1> QED BY <1>1, <1>2, <1>3 DEF ClusterInv

\* A change leaves the request, the query and its own bound alone.
LEMMA ChangeFacts ==
  ASSUME IpamInv, Change
  PROVE  UNCHANGED <<resolver, query, pc>> /\ changes' \in 0..MaxChanges
BY IpamAssumption DEF Change, IpamInv, IpamTypeOK

\* Deletions and creations of subnets.
LEMMA SubnetChange ==
  ASSUME IpamInv, NEW s \in Subnets, SubnetGone(s) \/ SubnetCreated(s)
  PROVE  IpamInv'
<1> USE DEF IpamInv
<1>1. UNCHANGED <<resolver, query, pc>> /\ changes' \in 0..MaxChanges
  BY ChangeFacts DEF SubnetGone, SubnetCreated
<1>2. UNCHANGED <<nads, nets, listed, shadowed>>
  BY DEF SubnetGone, SubnetCreated
<1>3. live' \subseteq Subnets /\ unborn' \subseteq unborn
  BY DEF SubnetGone, SubnetCreated, IpamTypeOK
<1>4. IpamTypeOK'
  BY <1>1, <1>2, <1>3 DEF IpamTypeOK, resolver, query
<1>5. Grows
  BY <1>2 DEF SubnetGone, SubnetCreated, Grows
<1>6. Distinct(live')
  <2>1. Distinct(live)
    BY DEF ClusterInv
  <2>2. CASE SubnetGone(s)
    BY <2>1, <2>2, DistinctShrinks DEF SubnetGone
  <2>3. CASE SubnetCreated(s)
    <3>1. live' = live \union {s} /\ \A y \in live : NameOf[y] # NameOf[s]
      BY <2>3 DEF SubnetCreated, Bearers
    <3> QED BY <2>1, <3>1, DistinctGrows
  <2> QED BY <2>2, <2>3
<1>7. (live' \union nets') \intersect unborn' = {}
  BY <1>2 DEF SubnetGone, SubnetCreated, ClusterInv
<1>8. ClusterInv'
  BY <1>2, <1>3, <1>4, <1>6, <1>7, ClusterKept DEF ClusterInv
<1> QED BY <1>1, <1>4, <1>5, <1>8, ClusterFrame

\* NADs come and go, and a Vpc takes a name.
LEMMA NameChange ==
  ASSUME IpamInv, \/ \E m \in Names : NadGone(m) \/ NadCreated(m)
                  \/ \E n \in Nets : VpcNamed(n)
  PROVE  IpamInv'
<1> USE DEF IpamInv
<1>1. Change /\ UNCHANGED <<live, nets, listed, unborn>>
  BY DEF NadGone, NadCreated, VpcNamed
<1>2. UNCHANGED <<resolver, query, pc>> /\ changes' \in 0..MaxChanges
  BY <1>1, ChangeFacts
<1>3. nads' \subseteq Names /\ shadowed' \subseteq Names /\ shadowed \subseteq shadowed'
  BY IpamAssumption DEF NadGone, NadCreated, VpcNamed, IpamTypeOK
<1>4. IpamTypeOK'
  BY <1>1, <1>2, <1>3 DEF IpamTypeOK, resolver, query
<1>5. Grows
  BY <1>1, <1>3 DEF Grows
<1>6. ClusterInv'
  BY <1>1, <1>4, ClusterKept DEF ClusterInv
<1> QED BY <1>2, <1>4, <1>5, <1>6, ClusterFrame

\* Deletions and creations of networks.
LEMMA NetChange ==
  ASSUME IpamInv, NEW n \in Nets, NetGone(n) \/ NetCreated(n)
  PROVE  IpamInv'
<1> USE DEF IpamInv
<1>1. UNCHANGED <<resolver, query, pc>> /\ changes' \in 0..MaxChanges
  BY ChangeFacts DEF NetGone, NetCreated
<1>2. UNCHANGED <<live, nads, listed, shadowed>>
  BY DEF NetGone, NetCreated
<1>3. nets' \subseteq Nets /\ unborn' \subseteq unborn
  BY DEF NetGone, NetCreated, IpamTypeOK
<1>4. IpamTypeOK'
  BY <1>1, <1>2, <1>3 DEF IpamTypeOK, resolver, query
<1>5. Grows
  BY <1>2 DEF NetGone, NetCreated, Grows
<1>6. Distinct(nets' \intersect Sriov)
  <2>1. Distinct(nets \intersect Sriov)
    BY DEF ClusterInv
  <2>2. CASE NetGone(n) \/ n \notin Sriov
    <3>1. nets' \intersect Sriov \subseteq nets \intersect Sriov
      BY <2>2 DEF NetGone, NetCreated
    <3> QED BY <2>1, <3>1, DistinctShrinks
  <2>3. CASE NetCreated(n) /\ n \in Sriov
    <3>1. nets' \intersect Sriov = (nets \intersect Sriov) \union {n}
      BY <2>3 DEF NetCreated
    <3>2. \A y \in nets \intersect Sriov : NameOf[y] # NameOf[n]
      BY <2>3 DEF NetCreated, Sriov
    <3> QED BY <2>1, <3>1, <3>2, DistinctGrows
  <2> QED BY <2>2, <2>3
<1>7. (live' \union nets') \intersect unborn' = {}
  BY <1>2 DEF NetGone, NetCreated, ClusterInv
<1>8. ClusterInv'
  BY <1>2, <1>3, <1>4, <1>6, <1>7, ClusterKept DEF ClusterInv
<1> QED BY <1>1, <1>4, <1>5, <1>8, ClusterFrame

\* The status follows.
LEMMA StatusChange ==
  ASSUME IpamInv, NEW n \in Nets, StatusFollows(n)
  PROVE  IpamInv'
<1> USE DEF IpamInv
<1> DEFINE now == NamesIn(SubnetsOf(n) \intersect live)
<1>1. /\ UNCHANGED <<live, nads, nets, shadowed, unborn, changes, resolver, query, pc>>
      /\ listed' = [listed EXCEPT ![n] = now]
  BY DEF StatusFollows
<1>2. now \subseteq Names
  BY NamesInType DEF SubnetsOf
<1> HIDE DEF now
<1>3. listed' \in [Nets -> SUBSET Names]
  BY <1>1, <1>2 DEF IpamTypeOK
<1>4. IpamTypeOK'
  BY <1>1, <1>3 DEF IpamTypeOK, resolver, query
<1>5. Grows
  BY <1>1 DEF Grows
<1>6. \A l \in Nets : listed'[l] \subseteq listed[l] \union NamesIn(SubnetsOf(l) \intersect live)
  BY <1>1 DEF IpamTypeOK, now
<1>7. ClusterInv'
  BY <1>1, <1>4, <1>6, ClusterKept DEF ClusterInv
<1> QED BY <1>1, <1>4, <1>5, <1>7, ClusterFrame

-----------------------------------------------------------------------------
(* The theorems *)

\* The invariant holds before the first interface.
LEMMA IpamInit == Init => IpamInv
<1> SUFFICES ASSUME Init PROVE IpamInv
  OBVIOUS
<1>1. PICK r \in Requests : ifs = r.ifs /\ ipams = r.ipams /\ given = r.ipams
  BY DEF Init
<1>2. ifs \in Seq(IfaceData) /\ ipams \in Seq(IpamData) /\ given = ipams
  BY <1>1, IpamAssumption
<1>3. IpamTypeOK
  <2>1. nads \subseteq Names
    BY NamesInType DEF Init
  <2>2. \A n \in Nets : NamesIn(SubnetsOf(n) \intersect live) \subseteq Names
    BY NamesInType DEF SubnetsOf
  <2>3. listed \in [Nets -> SUBSET Names]
    BY <2>2 DEF Init
  <2>4. /\ live \subseteq Subnets /\ nets \subseteq Nets
        /\ shadowed \subseteq Names /\ unborn \subseteq Nets \union Subnets
        /\ changes \in 0..MaxChanges /\ pc \in Pcs
    BY IpamAssumption DEF Init, Pcs
  <2>5. ann \in [Names -> [ip : Ips \union {None}, mac : Macs \union {None}]]
    BY DEF Init, NoAddress
  <2>6. /\ pick \in IpamData \union {None}
        /\ out \in Seq([to : Targets, mac : Macs \union {None}])
        /\ view \in Seq(Targets \union {Gone})
        /\ res \in Codes \union {"none", "OK", "panic"} /\ vres \in Codes \union {"none", "OK"}
    BY DEF Init
  <2> QED BY <1>2, <2>1, <2>3, <2>4, <2>5, <2>6 DEF IpamTypeOK
<1>4. Progress
  BY <1>2 DEF Init, Progress, Resolving
<1>5. ClusterInv
  <2>1. live = Existing \intersect Subnets /\ nets \intersect Sriov = Existing \intersect Sriov
    BY DEF Init, Sriov
  <2>2. (live \union nets) \intersect unborn = {}
    BY DEF Init
  <2>3. \A n \in Nets : listed[n] \subseteq NamesIn(SubnetsOf(n) \ unborn)
    BY <2>2 DEF Init, NamesIn
  <2> QED BY <2>1, <2>2, <2>3, IpamAssumption DEF ClusterInv
<1>6. EntriesTraced
  BY <1>2 DEF EntriesTraced
<1>7. RewrittenIsUsed
  BY <1>2 DEF RewrittenIsUsed
<1>8. PickInv
  BY DEF Init, PickInv, Choosing
<1>9. AttachInv
  BY DEF Init, AttachInv, UnusedHasNoAddress, OwnSoFar, StaticAddressFits,
         AttachedWhereAsked, OutBorn, NoAddress
<1>10. ViewInv
  BY DEF Init, ViewInv, ViewSurvivesDeletion
<1> QED BY <1>3, <1>4, <1>5, <1>6, <1>7, <1>8, <1>9, <1>10 DEF IpamInv

\* Every step preserves it.
LEMMA IpamNext == IpamInv /\ [Next]_vars => IpamInv'
<1> SUFFICES ASSUME IpamInv, [Next]_vars PROVE IpamInv'
  OBVIOUS
<1>1. CASE AllResolved
  BY <1>1, HaltStep DEF AllResolved
<1>2. CASE Unidentified
  BY <1>2, FailStep DEF Unidentified
<1>3. CASE BySubnet
  BY <1>3, BySubnetStep
<1>4. CASE ByNetwork
  BY <1>4, ByNetworkStep
<1>5. CASE CheckCidr
  BY <1>5, CheckCidrStep
<1>6. CASE SubnetByIp
  BY <1>6, SubnetByIpStep
<1>7. CASE FirstSubnet
  BY <1>7, FirstSubnetStep
<1>8. CASE InitNetwork
  BY <1>8, InitNetworkStep
<1>9. CASE View
  BY <1>9, ViewStep
<1>10. CASE \E s \in Subnets : SubnetGone(s) \/ SubnetCreated(s)
  BY <1>10, SubnetChange
<1>11. CASE \/ \E m \in Names : NadGone(m) \/ NadCreated(m)
            \/ \E n \in Nets : VpcNamed(n)
  BY <1>11, NameChange
<1>12. CASE \E n \in Nets : NetGone(n) \/ NetCreated(n)
  BY <1>12, NetChange
<1>13. CASE \E n \in Nets : StatusFollows(n)
  BY <1>13, StatusChange
<1>14. CASE UNCHANGED vars
  <2>1. UNCHANGED <<cluster, resolver, query, pc>>
    BY <1>14 DEF vars
  <2>2. IpamTypeOK'
    BY <2>1 DEF cluster, objects, resolver, query, IpamInv, IpamTypeOK
  <2> QED BY <2>1, <2>2, RestGrows, ClusterFrame DEF IpamInv
<1> QED BY <1>1, <1>2, <1>3, <1>4, <1>5, <1>6, <1>7, <1>8, <1>9, <1>10, <1>11, <1>12,
           <1>13, <1>14
        DEF Next, Resolve

(* Spec => []IpamTypeOK.  Every variable of the resolver keeps its type;   *)
(* in particular every error of a resolution or a query becomes a code     *)
(* that one of the registered converters knows, or Internal.               *)
THEOREM IpamTypeCorrect == Spec => []IpamTypeOK
<1>1. IpamInv => IpamTypeOK
  BY DEF IpamInv
<1> QED BY IpamInit, IpamNext, <1>1, PTL DEF Spec

(* Spec => []StaticAddressFits.  For every request, and whatever is        *)
(* deleted or created again between two lookups, a static address that     *)
(* reaches the VM's annotations lies in a subnet an interface was resolved *)
(* to and whose NAD it is annotated for: every path to initNetwork that    *)
(* carries an address went through the CIDR check, which is by UID.        *)
THEOREM AddressesFit == Spec => []StaticAddressFits
<1>1. IpamInv => StaticAddressFits
  BY DEF IpamInv, AttachInv
<1> QED BY IpamInit, IpamNext, <1>1, PTL DEF Spec

(* Spec => []AttachedWhereAsked.  Every interface of the VM ends on the    *)
(* subnet it names, on its SR-IOV network, or on a subnet of its network;  *)
(* only the request's own entry for that network, or a subnet that took    *)
(* the name of a deleted one of the network, sends it elsewhere.           *)
THEOREM InterfacesWhereAsked == Spec => []AttachedWhereAsked
<1>1. IpamInv => AttachedWhereAsked
  BY DEF IpamInv, AttachInv
<1> QED BY IpamInit, IpamNext, <1>1, PTL DEF Spec

(* Spec => []OwnAddress.  However many interfaces and entries a request    *)
(* has and however networkIpam rewrites them, an interface alone with the  *)
(* name of the subnet it asks for gets the address the request asked for:  *)
(* an entry is rewritten to a subnet only when some interface is put there.*)
THEOREM InterfacesKeepTheirAddress == Spec => []OwnAddress
<1>1. IpamInv => OwnAddress
  <2> SUFFICES ASSUME IpamInv, NEW k \in DOMAIN out, ifs[k].sub # None,
                      \A j \in DOMAIN out : NameOf[out[j].to[2]] = NameOf[out[k].to[2]] => j = k
               PROVE  ann[NameOf[ifs[k].sub.s]] = Asked(ifs[k].sub.s)
    BY DEF OwnAddress
  <2>1. PICK s \in Subnets : ifs[k].sub = Uid(s) /\ ann[NameOf[s]] = Asked(s)
    BY DEF IpamInv, AttachInv, OwnSoFar
  <2>2. ifs[k].sub.s = s
    BY <2>1 DEF Uid
  <2> QED BY <2>1, <2>2
<1> QED BY IpamInit, IpamNext, <1>1, PTL DEF Spec

(* Spec => []ViewSurvivesDeletion.  Whatever is deleted and created again  *)
(* while a query or a termination looks at a VM, by way of names, the view *)
(* reports what an interface was resolved to, that it is gone, or what has *)
(* taken its name since; and it fails only if a Vpc carries the name of an *)
(* SR-IOV network or an SR-IOV network was created again under its name.   *)
THEOREM ViewsSurviveDeletion == Spec => []ViewSurvivesDeletion
<1>1. IpamInv => ViewSurvivesDeletion
  BY DEF IpamInv, ViewInv
<1> QED BY IpamInit, IpamNext, <1>1, PTL DEF Spec

=============================================================================
