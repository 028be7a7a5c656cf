-------------------------------- MODULE Ipam --------------------------------
(***************************************************************************)
(* The IPAM resolver of the compute manager                                *)
(* (internal/kubevim/compute/kubevirt/ipam.go), which turns the interfaces *)
(* and IPAM entries of an AllocateVirtualisedComputeResource request into  *)
(* the networks and annotations of a VirtualMachine, and the reverse: the  *)
(* view of a VM's interfaces that every query and every termination        *)
(* computes (utils.go).                                                    *)
(*                                                                         *)
(* The resolver asks the network manager again at every step, and every    *)
(* lookup is an action here: between two of them subnets, networks and     *)
(* NADs may disappear, and others may appear under their names.  It also   *)
(* writes into the IPAM entries of the request, which later interfaces     *)
(* read.  Requests refer to objects by UID; the status of a network and    *)
(* the VirtualMachine itself only hold names.                              *)
(***************************************************************************)
EXTENDS ErrorMapping

CONSTANTS
    Nets, Subnets,  \* UIDs: every network and subnet there ever is
    Names,
    NameOf,       \* NameOf[x]: the name of network or subnet x
    Existing,     \* the objects that are there when the request arrives
    Ips, Macs,
    NetType,      \* NetType[n]: "overlay", "underlay" or "sriov"
    NetOf,        \* NetOf[s]: the network-id label of subnet s, or None
    Cidr,         \* Cidr[s]: the addresses of subnet s
    Requests,     \* the requests explored: [ifs : ..., ipams : ...]
    MaxChanges,   \* bound: changes to the cluster while a request runs
    Empty,        \* a subnet identifier with an empty value
    None          \* "not given"

\* How a request refers to a subnet: by id or by name.
Refs == [by : {"uid"}, s : Subnets] \union [by : {"name"}, s : Names]
Uid(s) == [by |-> "uid", s |-> s]
Means(ref, s) == IF ref.by = "uid" THEN ref.s = s ELSE ref.s = NameOf[s]

IfaceData == [net : Nets \union {None}, sub : Refs \union {None}, random : BOOLEAN]
IpamData == [net : Nets \union {None}, sub : Refs \union {Empty, None},
             ip : Ips \union {None}, mac : Macs \union {None}]

Sriov == {n \in Nets : NetType[n] = "sriov"}
NamesIn(S) == {NameOf[x] : x \in S}
Distinct(S) == \A x, y \in S : NameOf[x] = NameOf[y] => x = y

(* The NAD of a subnet is "<subnet>-netattach", that of an SR-IOV network  *)
(* has the network's name; here a subnet and its NAD share their name, and *)
(* no SR-IOV network has the name of a subnet's NAD.                       *)
ASSUME IpamAssumption ==
    /\ Nets \intersect Subnets = {} /\ Existing \subseteq Nets \union Subnets
    /\ NameOf \in [Nets \union Subnets -> Names]
    /\ NamesIn(Sriov) \intersect NamesIn(Subnets) = {}
    /\ Distinct(Existing \intersect Subnets) /\ Distinct(Existing \intersect Sriov)
    /\ NetType \in [Nets -> {"overlay", "underlay", "sriov"}]
    /\ NetOf \in [Subnets -> Nets \union {None}]
    /\ Cidr \in [Subnets -> SUBSET Ips]
    /\ Requests \subseteq [ifs : Seq(IfaceData), ipams : Seq(IpamData)]
    /\ MaxChanges \in Nat
    /\ None \notin Nets \union Subnets \union Ips \union Macs \union Refs \union {Empty}
    /\ Empty \notin Refs

VARIABLES
    live,      \* the subnets in the informer cache
    nads,      \* the names of the subnets whose NAD is there
    nets,      \* the networks; of an SR-IOV network, its NAD
    listed,    \* listed[n]: Status.Subnets of network n, names
    shadowed,  \* names of SR-IOV networks that a Vpc carries too
    unborn,    \* the objects that have not been created yet
    changes,   \* how often the cluster has changed
    ifs,       \* the request's interfaces
    given,     \* the request's IPAM entries as they arrived
    ipams,     \* the IPAM entries as they are now
    pc,
    pick,      \* the IPAM entry chosen for the current interface
    out,       \* the VM's interfaces so far: what each was resolved to (of
               \* which the VM has the name only), its MAC
    ann,       \* ann[m]: the VM's annotations for the NAD of a subnet named m
    res,       \* the answer to the allocation
    view,      \* the interfaces of the VM as a query reports them
    vres       \* the outcome of that query

objects == <<live, nads, nets, listed, shadowed, unborn>>
cluster == <<objects, changes>>
resolver == <<ifs, given, ipams, pick, out, ann, res>>
query == <<view, vres>>
vars == <<cluster, resolver, query, pc>>

NoAddress == [ip |-> None, mac |-> None]

\* What an interface is attached to, and what a query says when that is gone.
Targets == ({"subnet"} \X Subnets) \union ({"sriov"} \X Sriov)
Gone == <<"deleted", None>>

Pcs == {"next", "cidr", "byip", "first", "init", "done", "view_net", "view_sub", "end"}

IpamTypeOK ==
    /\ live \subseteq Subnets /\ nads \subseteq Names /\ nets \subseteq Nets
    /\ listed \in [Nets -> SUBSET Names]
    /\ shadowed \subseteq Names /\ unborn \subseteq Nets \union Subnets
    /\ changes \in 0..MaxChanges
    /\ ifs \in Seq(IfaceData) /\ ipams \in Seq(IpamData) /\ given \in Seq(IpamData)
    /\ pc \in Pcs
    /\ pick \in IpamData \union {None}
    /\ out \in Seq([to : Targets, mac : Macs \union {None}])
    /\ ann \in [Names -> [ip : Ips \union {None}, mac : Macs \union {None}]]
    /\ res \in Codes \union {"none", "OK", "panic"}
    /\ view \in Seq(Targets \union {Gone})
    /\ vres \in Codes \union {"none", "OK"}

SubnetsOf(n) == {s \in Subnets : NetOf[s] = n}

Init ==
    /\ live = Existing \intersect Subnets /\ nets = Existing \intersect Nets
    /\ unborn = (Nets \union Subnets) \ Existing
    /\ nads = NamesIn(live)
    /\ listed = [n \in Nets |-> NamesIn(SubnetsOf(n) \intersect live)]
    /\ shadowed = {}
    /\ changes = 0
    /\ \E r \in Requests : ifs = r.ifs /\ ipams = r.ipams /\ given = r.ipams
    /\ pc = "next"
    /\ pick = None
    /\ out = <<>>
    /\ ann = [m \in Names |-> NoAddress]
    /\ res = "none"
    /\ view = <<>>
    /\ vres = "none"

-----------------------------------------------------------------------------
(* Lookups in the network manager *)

\* GetSubnet by id.
HasUid(ref) == ref \in Refs /\ ref.by = "uid" /\ ref.s \in live

\* GetSubnet by name.
Bearers(m) == {s \in live : NameOf[s] = m}

\* GetSubnet in initNetwork: by id when the reference is one, else by name.
Found(ref) == {s \in live : Means(ref, s)}

(* GetNetwork by id: every name of its status is resolved to the id of the *)
(* subnet that has the name now.                                           *)
HasNetwork(n) == n \in nets /\ \A m \in listed[n] : Bearers(m) # {}

\* An empty id identifies nothing and is an invalid argument.
MissingSubnet(ref) == IF ref = Empty THEN "ErrInvalidArgument" ELSE "ErrNotFound"

-----------------------------------------------------------------------------
(* How a resolution ends *)

Return(code) == res' = code /\ pc' = "done" /\ UNCHANGED <<ipams, pick, out, ann>>

Fail(kind) == Return(ToGRPCError({kind}))

\* The current interface.
Iface == ifs[Len(out) + 1]

First(K) == CHOOSE k \in K : \A j \in K : k <= j

-----------------------------------------------------------------------------
(* subnetIpam and networkIpam *)

\* Faulty variant: the last entry wins.
SubnetEntryLast(es, ref) ==
    LET K == {k \in DOMAIN es : es[k].sub = ref} IN
    IF K = {} THEN [net |-> None, sub |-> ref, ip |-> None, mac |-> None]
    ELSE es[CHOOSE k \in K : \A j \in K : j <= k]

\* The first entry for the subnet, or one with a dynamic address.
SubnetEntry(es, ref) ==
    LET K == {k \in DOMAIN es : es[k].sub = ref} IN
    IF K = {} THEN [net |-> None, sub |-> ref, ip |-> None, mac |-> None]
    ELSE es[First(K)]

\* Faulty variant: the address of the request is taken as it is.
SubnetIpamUnchecked(es, ref) == pick' = SubnetEntry(es, ref) /\ pc' = "init"

\* A static address is checked against the subnet's CIDR, after a lookup.
SubnetIpam(es, ref) ==
    LET e == SubnetEntry(es, ref) IN
    pick' = e /\ pc' = IF e.ip = None THEN "init" ELSE "cidr"

NetworkEntries(n) == {k \in DOMAIN ipams : ipams[k].net = n}

\* The first entry for the network; none is as good as one that sets nothing.
NetworkEntry(n) ==
    IF NetworkEntries(n) = {} THEN [net |-> n, sub |-> None, ip |-> None, mac |-> None]
    ELSE ipams[First(NetworkEntries(n))]

NetworkIpam(n, returnIfNoIpam) ==
    LET e == NetworkEntry(n) IN
    \/ /\ e.sub # None
       /\ SubnetIpam(ipams, e.sub)
       /\ UNCHANGED <<ipams, out, ann, res>>
    \/ /\ e.sub = None /\ e.ip # None
       /\ pc' = "byip"
       /\ UNCHANGED <<ipams, pick, out, ann, res>>
    \/ /\ e.sub = None /\ e.ip = None
       /\ IF returnIfNoIpam THEN Fail("ErrIPAMConfigurationMissing")
          ELSE pc' = "first" /\ UNCHANGED <<ipams, pick, out, ann, res>>

-----------------------------------------------------------------------------
(* resolveInterfaces: one round per interface of the request *)

AllResolved ==
    /\ pc = "next" /\ Len(out) = Len(ifs)
    /\ Return("OK")
    /\ UNCHANGED <<cluster, query, ifs, given>>

Unidentified ==
    /\ pc = "next" /\ Len(out) < Len(ifs)
    /\ Iface.net = None /\ Iface.sub = None
    /\ Fail("ErrInvalidArgument")
    /\ UNCHANGED <<cluster, query, ifs, given>>

\* Faulty variant: the network id is ignored when there is a subnet id.
InNetworkAlways(d) == TRUE

\* A subnet given together with a network must belong to it.
InNetwork(d) == d.net = None \/ NetOf[d.sub.s] = d.net

\* The interface names its subnet.
BySubnet ==
    /\ pc = "next" /\ Len(out) < Len(ifs)
    /\ Iface.sub # None
    /\ \/ /\ ~HasUid(Iface.sub)
          /\ Fail("ErrNotFound")
       \/ /\ HasUid(Iface.sub) /\ ~InNetwork(Iface)
          /\ Fail("other")
       \/ /\ HasUid(Iface.sub) /\ InNetwork(Iface)
          /\ SubnetIpam(ipams, Iface.sub)
          /\ UNCHANGED <<ipams, out, ann, res>>
    /\ UNCHANGED <<cluster, query, ifs, given>>

\* initSriovNetwork: attached to the NAD itself, with the MAC of the first entry.
InitSriovNetwork(n) ==
    /\ out' = Append(out, [to |-> <<"sriov", n>>, mac |-> NetworkEntry(n).mac])
    /\ UNCHANGED <<pc, ipams, pick, ann, res>>

\* The interface names only its network.
ByNetwork ==
    /\ pc = "next" /\ Len(out) < Len(ifs)
    /\ Iface.sub = None /\ Iface.net # None
    /\ \/ /\ ~HasNetwork(Iface.net)
          /\ Fail("ErrNotFound")
       \/ /\ HasNetwork(Iface.net)
          /\ \/ NetType[Iface.net] = "sriov" /\ InitSriovNetwork(Iface.net)
             \/ NetType[Iface.net] = "underlay" /\ NetworkIpam(Iface.net, FALSE)
             \/ NetType[Iface.net] = "overlay" /\ NetworkIpam(Iface.net, ~Iface.random)
    /\ UNCHANGED <<cluster, query, ifs, given>>

\* subnetIpam, last part: does the static address belong to the subnet?
CheckCidr ==
    /\ pc = "cidr"
    /\ \/ ~HasUid(pick.sub) /\ Fail(MissingSubnet(pick.sub))
       \/ HasUid(pick.sub) /\ pick.ip \notin Cidr[pick.sub.s] /\ Fail("other")
       \/ /\ HasUid(pick.sub) /\ pick.ip \in Cidr[pick.sub.s]
          /\ pc' = "init"
          /\ UNCHANGED <<ipams, pick, out, ann, res>>
    /\ UNCHANGED <<cluster, query, ifs, given>>

(* networkIpam with a static address: GetSubnet by network and address     *)
(* walks all subnets in no particular order and dereferences the NetworkId *)
(* of each; a subnet that was found is stored through the entry's SubnetId,*)
(* which is nil.                                                           *)
SubnetByIp ==
    LET n == Iface.net
        ip == NetworkEntry(n).ip
        hits == {s \in live : NetOf[s] = n /\ ip \in Cidr[s]} IN
    /\ pc = "byip"
    /\ \/ /\ hits # {} \/ \E s \in live : NetOf[s] = None
          /\ Return("panic")
       \/ /\ hits = {} /\ \A s \in live : NetOf[s] # None
          /\ Fail("ErrNotFound")
    /\ UNCHANGED <<cluster, query, ifs, given>>

(* networkIpam without an address: the network's first subnet.  The entry  *)
(* of the network, if there is one, now names that subnet.                 *)
FirstSubnet ==
    LET n == Iface.net
        K == NetworkEntries(n) IN
    /\ pc = "first"
    /\ \/ ~HasNetwork(n) /\ Fail("ErrNotFound")
       \/ HasNetwork(n) /\ listed[n] = {} /\ Fail("ErrInvalidArgument")
       \/ /\ HasNetwork(n)
          /\ \E s \in UNION {Bearers(m) : m \in listed[n]} :
               /\ ipams' = IF K = {} THEN ipams
                           ELSE [ipams EXCEPT ![First(K)].sub = Uid(s)]
               /\ SubnetIpam(ipams', Uid(s))
          /\ UNCHANGED <<out, ann, res>>
    /\ UNCHANGED <<cluster, query, ifs, given>>

\* The keys are those of the NAD, and only addresses that are set are written.
Annotate(m, e) ==
    ann' = [ann EXCEPT ![m] = [ip |-> IF e.ip = None THEN @.ip ELSE e.ip,
                               mac |-> IF e.mac = None THEN @.mac ELSE e.mac]]

InitNetwork ==
    /\ pc = "init"
    /\ \/ pick.sub = Empty /\ Fail("ErrInvalidArgument")
       \/ /\ pick.sub \in Refs /\ Found(pick.sub) = {}
          /\ Fail(IF pick.sub.by = "uid" THEN "ErrNotFound" ELSE "k8sNotFound")
       \/ /\ pick.sub \in Refs
          /\ \E s \in Found(pick.sub) :
               /\ out' = Append(out, [to |-> <<"subnet", s>>, mac |-> None])
               /\ Annotate(NameOf[s], pick)
          /\ pc' = "next"
          /\ UNCHANGED <<ipams, pick, res>>
    /\ UNCHANGED <<cluster, query, ifs, given>>

-----------------------------------------------------------------------------
(* nfvVirtualComputeFromKubevirtVm: the interfaces of the VM, one by one *)

ViewBegins ==
    /\ pc = "done" /\ res = "OK"
    /\ pc' = "view_net"
    /\ UNCHANGED <<cluster, resolver, query>>

ViewEnds ==
    /\ pc = "view_net" /\ Len(view) = Len(out)
    /\ pc' = "end" /\ vres' = "OK"
    /\ UNCHANGED <<cluster, resolver, view>>

\* The name of the NAD, which is all that the VM says of an interface.
NadName == NameOf[out[Len(view) + 1].to[2]]

SriovNamed(m) == {n \in nets : NetType[n] = "sriov" /\ NameOf[n] = m}

(* GetNetwork by the name of the NAD: Vpcs and Vlans come first, so a Vpc  *)
(* of that name answers for an SR-IOV network and is of the wrong type.    *)
ViewNetwork ==
    /\ pc = "view_net" /\ Len(view) < Len(out)
    /\ IF NadName \in shadowed \/ SriovNamed(NadName) = {}
       THEN pc' = "view_sub" /\ view' = view
       ELSE /\ \E n \in SriovNamed(NadName) : view' = Append(view, <<"sriov", n>>)
            /\ pc' = pc
    /\ UNCHANGED <<cluster, resolver, vres>>

\* Faulty variant: only errors of kube-vim's own type count as not found.
NadMissingUntyped(kind) == kind = "ErrNotFound"

\* The errors that stand for an object deleted in the meantime.
NadMissing(kind) == kind \in {"ErrNotFound", "k8sNotFound"}

(* GetSubnet by NAD: the NAD, then the Subnet that has the name on its     *)
(* label.  The NAD of an SR-IOV network has no such label.                 *)
ViewError ==
    CASE SriovNamed(NadName) # {} -> "ErrInvalidArgument"
      [] SriovNamed(NadName) = {} /\ (NadName \notin nads \/ Bearers(NadName) = {})
           -> "k8sNotFound"
      [] OTHER -> None

ViewSubnet ==
    /\ pc = "view_sub"
    /\ \/ /\ ViewError = None
          /\ \E s \in Bearers(NadName) : view' = Append(view, <<"subnet", s>>)
          /\ pc' = "view_net" /\ vres' = vres
       \/ /\ ViewError # None /\ NadMissing(ViewError)
          /\ view' = Append(view, Gone) /\ pc' = "view_net" /\ vres' = vres
       \/ /\ ViewError # None /\ ~NadMissing(ViewError)
          /\ vres' = ToGRPCError({ViewError}) /\ pc' = "end" /\ view' = view
    /\ UNCHANGED <<cluster, resolver>>

-----------------------------------------------------------------------------
(* The cluster changes while a request or a query runs: deletions and      *)
(* creations reach the caches, each kind in its own time, status follows.  *)
(* UIDs do not come back, names do.                                        *)

Change ==
    /\ pc # "end" /\ res \in {"none", "OK"}
    /\ changes < MaxChanges /\ changes' = changes + 1
    /\ UNCHANGED <<resolver, query, pc>>

SubnetGone(s) ==
    /\ Change /\ s \in live
    /\ live' = live \ {s}
    /\ UNCHANGED <<nads, nets, listed, shadowed, unborn>>

SubnetCreated(s) ==
    /\ Change /\ s \in unborn /\ Bearers(NameOf[s]) = {}
    /\ live' = live \union {s} /\ unborn' = unborn \ {s}
    /\ UNCHANGED <<nads, nets, listed, shadowed>>

NadGone(m) ==
    /\ Change /\ m \in nads
    /\ nads' = nads \ {m}
    /\ UNCHANGED <<live, nets, listed, shadowed, unborn>>

NadCreated(m) ==
    /\ Change /\ m \in NamesIn(Subnets) \ nads
    /\ nads' = nads \union {m}
    /\ UNCHANGED <<live, nets, listed, shadowed, unborn>>

\* DeleteNetwork removes a network after its subnets.
NetGone(n) ==
    /\ Change /\ n \in nets /\ SubnetsOf(n) \intersect live = {}
    /\ nets' = nets \ {n}
    /\ UNCHANGED <<live, nads, listed, shadowed, unborn>>

NetCreated(n) ==
    /\ Change /\ n \in unborn
    /\ \A o \in nets : NetType[o] = NetType[n] => NameOf[o] # NameOf[n]
    /\ nets' = nets \union {n} /\ unborn' = unborn \ {n}
    /\ UNCHANGED <<live, nads, listed, shadowed>>

StatusFollows(n) ==
    /\ listed[n] # NamesIn(SubnetsOf(n) \intersect live)
    /\ listed' = [listed EXCEPT ![n] = NamesIn(SubnetsOf(n) \intersect live)]
    /\ UNCHANGED <<live, nads, nets, shadowed, unborn, changes, resolver, query, pc>>

\* A client creates an overlay network with the name of an SR-IOV network.
VpcNamed(n) ==
    /\ Change /\ n \in Sriov /\ NameOf[n] \notin shadowed
    /\ shadowed' = shadowed \union {NameOf[n]}
    /\ UNCHANGED <<live, nads, nets, listed, unborn>>

-----------------------------------------------------------------------------

Resolve == \/ AllResolved \/ Unidentified \/ BySubnet \/ ByNetwork \/ CheckCidr
           \/ SubnetByIp \/ FirstSubnet \/ InitNetwork

View == ViewBegins \/ ViewEnds \/ ViewNetwork \/ ViewSubnet

Next == \/ Resolve
        \/ View
        \/ \E s \in Subnets : SubnetGone(s) \/ SubnetCreated(s)
        \/ \E m \in Names : NadGone(m) \/ NadCreated(m)
        \/ \E n \in Nets : NetGone(n) \/ NetCreated(n) \/ StatusFollows(n) \/ VpcNamed(n)

Spec == Init /\ [][Next]_vars

-----------------------------------------------------------------------------
(* Properties *)

(* A static address annotated under the keys of a NAD lies in a subnet of  *)
(* that name which an interface of the VM was resolved to, by whichever    *)
(* path - subnet id, IPAM entry of the network, first subnet, entry        *)
(* rewritten by an earlier interface - it got there, and also if the       *)
(* subnet was replaced meanwhile by another of its name.                   *)
StaticAddressFits ==
    \A m \in Names : ann[m].ip # None =>
        \E k \in DOMAIN out :
            LET to == out[k].to IN
            to[1] = "subnet" /\ NameOf[to[2]] = m /\ ann[m].ip \in Cidr[to[2]]

\* An entry of the request sends interfaces on network n to subnet s.
SentTo(n, s) ==
    \E k \in DOMAIN given :
        given[k].net = n /\ given[k].sub \in Refs /\ Means(given[k].sub, s)

\* The object has been deleted, for good.
Deleted(x) == x \notin live \union nets \union unborn

\* Subnet s is one of network n, or has the name of one that was deleted.
OfNetwork(n, s) ==
    \/ NetOf[s] = n
    \/ \E t \in SubnetsOf(n) : Deleted(t) /\ NameOf[t] = NameOf[s]

(* Every interface ends where it was asked to be: on its subnet (which is  *)
(* in its network, if both are named), on its SR-IOV network, or on some   *)
(* subnet of its network.  Two things can send it elsewhere: the request's *)
(* own IPAM entry for the network, because nothing checks that such an     *)
(* entry's subnet belongs to the network, and the name of a deleted subnet *)
(* that is still in the network's status and has a new bearer.             *)
AttachedWhereAsked ==
    \A k \in DOMAIN out :
        LET d == ifs[k]
            to == out[k].to IN
        /\ d.sub # None =>
              /\ to = <<"subnet", d.sub.s>>
              /\ d.net # None => NetOf[d.sub.s] = d.net
        /\ d.sub = None =>
              IF NetType[d.net] = "sriov" THEN to = <<"sriov", d.net>>
              ELSE to[1] = "subnet" /\ (OfNetwork(d.net, to[2]) \/ SentTo(d.net, to[2]))

\* What the request, as it arrived, says of a subnet's addresses.
Asked(s) ==
    LET K == {k \in DOMAIN given : given[k].sub = Uid(s)} IN
    IF K = {} THEN NoAddress
    ELSE [ip |-> given[First(K)].ip, mac |-> given[First(K)].mac]

(* An interface that names its subnet and shares the subnet's name with no *)
(* other interface of the VM gets exactly the address its IPAM entry asks  *)
(* for, although networkIpam rewrites entries as it goes.  With two        *)
(* interfaces on one name this fails: they share annotation keys, and a    *)
(* rewritten entry may come before the entry meant for the subnet.         *)
OwnAddress ==
    res = "OK" =>
        \A k \in DOMAIN out :
            /\ ifs[k].sub # None
            /\ \A j \in DOMAIN out : NameOf[out[j].to[2]] = NameOf[out[k].to[2]] => j = k
            => ann[NameOf[ifs[k].sub.s]] = Asked(ifs[k].sub.s)

(* Interface k of the VM was resolved to an object that has been deleted,  *)
(* and x is another of its kind and name.                                  *)
Replaced(k, x) ==
    LET to == out[k].to IN
    Deleted(to[2]) /\ x[1] = to[1] /\ NameOf[x[2]] = NameOf[to[2]]

(* The view of a VM, which finds its attachments by name, shows each as    *)
(* deleted or as the object it was resolved to; another object it shows    *)
(* only when that one has been deleted and the other has its name.  And it *)
(* never fails because networks are being deleted, so that the VM can      *)
(* still be queried and terminated.  The ways to lose a VM's view are an   *)
(* overlay network with the name of an SR-IOV network in use, and an       *)
(* SR-IOV network created again between the two lookups.                   *)
ViewSurvivesDeletion ==
    /\ \A k \in DOMAIN view :
          view[k] \in {Gone, out[k].to} \/ Replaced(k, view[k])
    /\ \/ vres \in {"none", "OK"}
       \/ shadowed # {}
       \/ \E k \in DOMAIN out : \E n \in Sriov \ unborn : Replaced(k, <<"sriov", n>>)

(* "IPAM has a static IP: find the subnet in the VPC that holds the IP":   *)
(* one interface on a network, whose entry has an address that a subnet of *)
(* the network holds, is resolved as long as the cluster does not change.  *)
StaticIpIsPlaced ==
    /\ pc = "done" /\ changes = 0
    /\ Len(ifs) = 1 /\ Len(given) = 1
    /\ ifs[1].sub = None /\ ifs[1].net # None /\ given[1].net = ifs[1].net
    /\ NetType[ifs[1].net] # "sriov"
    /\ given[1].sub = None
    /\ \E s \in SubnetsOf(ifs[1].net) : given[1].ip \in Cidr[s]
    => res = "OK"

=============================================================================
