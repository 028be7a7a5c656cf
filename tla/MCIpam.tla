------------------------------- MODULE MCIpam -------------------------------
(***************************************************************************)
(* An instance of Ipam for TLC: an overlay network o with two subnets, an  *)
(* underlay network u with one, an SR-IOV network v, and a subnet s4 that  *)
(* belongs to no network; one address in each subnet and one in none.      *)
(* Later there may be a subnet s5 of u with the name of s1, and an SR-IOV  *)
(* network w with the name of v.                                           *)
(***************************************************************************)
EXTENDS Ipam

CONSTANTS MaxIfaces, MaxIpams   \* bounds: interfaces and IPAM entries of a request

MCNets == {"o", "u", "v", "w"}
MCSubnets == {"s1", "s2", "s3", "s4", "s5"}
MCExisting == (MCNets \ {"w"}) \union (MCSubnets \ {"s5"})
MCNameOf == [x \in MCNets \union MCSubnets |-> CASE x = "s5" -> "s1" [] x = "w" -> "v"
                                                 [] OTHER -> x]
MCNames == {MCNameOf[x] : x \in MCNets \union MCSubnets}
MCIps == {"a1", "a2", "a3", "a9"}
MCMacs == {"m1", "m2"}
MCNetType == [n \in MCNets |-> CASE n = "o" -> "overlay" [] n = "u" -> "underlay"
                                 [] n \in {"v", "w"} -> "sriov"]
MCNetOf == [s \in MCSubnets |-> CASE s \in {"s1", "s2"} -> "o" [] s \in {"s3", "s5"} -> "u"
                                  [] s = "s4" -> None]
MCCidr == [s \in MCSubnets |-> CASE s = "s1" -> {"a1"} [] s = "s2" -> {"a2"}
                                 [] s = "s3" -> {"a3"} [] s = "s4" -> {}
                                 [] s = "s5" -> {"a2"}]

Named(s) == [by |-> "name", s |-> s]

\* The ways to name an interface's place.
IfaceChoices ==
    {[net |-> n, sub |-> None, random |-> FALSE] : n \in {"o", "u", "v"}}
    \union {[net |-> "o", sub |-> None, random |-> TRUE],
            [net |-> None, sub |-> Uid("s1"), random |-> FALSE]}

(* Interfaces that come alone: one that names subnet and network, and some *)
(* that are refused, which ends the resolution.                            *)
SingleIfaces ==
    {[net |-> "o", sub |-> Uid("s1"), random |-> FALSE],
     [net |-> None, sub |-> None, random |-> FALSE],
     [net |-> None, sub |-> Named("s1"), random |-> FALSE],
     [net |-> "u", sub |-> Uid("s1"), random |-> FALSE],
     [net |-> "o", sub |-> Uid("s4"), random |-> FALSE]}

Entry(n, ref, i, m) == [net |-> n, sub |-> ref, ip |-> i, mac |-> m]

\* Entries by network and by subnet, with and without addresses.
IpamChoices ==
    {Entry("o", None, None, "m1"), Entry("o", Uid("s2"), "a2", "m1"),
     Entry("o", Uid("s3"), None, "m2"), Entry(None, Uid("s1"), "a1", "m2"),
     Entry(None, Uid("s1"), None, "m1")}

(* Entries that come alone: for the networks without a choice of subnets,  *)
(* one that names its subnet by name, and some on which the resolution     *)
(* ends.                                                                   *)
SingleIpams ==
    {Entry("u", None, None, "m2"), Entry("v", None, None, "m1"),
     Entry("o", Named("s1"), None, None),
     Entry("o", None, "a1", None), Entry("o", Named("s1"), "a1", None),
     Entry("o", Empty, None, None), Entry("o", Empty, "a1", None),
     Entry(None, Uid("s1"), "a9", None)}

SeqsUpTo(S, n) == UNION {[1..k -> S] : k \in 0..n}

MCRequests == [ifs : SeqsUpTo(IfaceChoices, MaxIfaces) \union [1..1 -> SingleIfaces],
               ipams : SeqsUpTo(IpamChoices, MaxIpams) \union [1..1 -> SingleIpams]]

=============================================================================
