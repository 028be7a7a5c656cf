----------------------------- MODULE MgmtNetwork -----------------------------
(***************************************************************************)
(* EnsureManagementNetwork (network/kubeovn/mgmt.go): at startup every     *)
(* kube-vim process makes sure that the Vpc, Subnet and                    *)
(* NetworkAttachmentDefinition of the shared management network exist and  *)
(* carry the labels the other managers look for.                           *)
(*                                                                         *)
(* It reads the API server directly, not the cache, and is the only code   *)
(* of kube-vim that adopts objects somebody else has made.  It runs        *)
(* without a lock: against the process of another replica or of a rolling  *)
(* update, and against operators and GitOps tools who create, edit and     *)
(* delete the same three objects.  Every step below is one call to the     *)
(* API server.                                                             *)
(***************************************************************************)
EXTENDS Naturals

CONSTANTS
    Replicas,     \* kube-vim processes
    Cidrs,        \* values of managementNetwork.cidr
    CidrOf,       \* the cidr each replica is configured with
    MaxStarts,    \* bound: process starts
    MaxCreates,   \* bound: objects created by others
    MaxEdits,     \* bound: objects edited or deleted by others
    None

VARIABLES
    obj,      \* obj[k], the object of kind k at the API server
    uids,     \* how many objects there have been; the UID of the last one
    rep,      \* rep[p], the state of process p
    clean,    \* history: nobody else interfered since p started its pass
    starts, creates, edits

vars == <<obj, uids, rep, clean, starts, creates, edits>>
bounds == <<starts, creates, edits>>

-----------------------------------------------------------------------------
(* Objects and labels *)

Kinds == {"vpc", "subnet", "nad"}

(* "names" stands for the labels whose required values follow from the     *)
(* configured name (subnet-name, net-attach-name, network-name and         *)
(* network-type), "extra" for labels kube-vim does not know.               *)
Keys == {"managedBy", "names", "networkId", "extra"}

(* A label is 0 while it is missing or wrong.  The required value of       *)
(* networkId is the UID of the Vpc, that of the others is 1.               *)
Labels == [Keys -> Nat]

Object == [uid : Nat, labels : Labels, cidr : Cidrs \union {None}]

Replica == [pc : {"off", "get", "patch", "create", "reread", "ready", "failed"},
            kind : Kinds, vpcUid : Nat, base : Labels]

NoLabels == [key \in Keys |-> 0]
Off == [pc |-> "off", kind |-> "vpc", vpcUid |-> 0, base |-> NoLabels]

ASSUME MgmtAssumption ==
    /\ None \notin Object \union Cidrs
    /\ CidrOf \in [Replicas -> Cidrs]
    /\ MaxStarts \in Nat /\ MaxCreates \in Nat /\ MaxEdits \in Nat

TypeOK ==
    /\ obj \in [Kinds -> Object \union {None}]
    /\ uids \in Nat
    /\ rep \in [Replicas -> Replica]
    /\ clean \in [Replicas -> BOOLEAN]
    /\ starts \in 0..MaxStarts /\ creates \in 0..MaxCreates /\ edits \in 0..MaxEdits

Init ==
    /\ obj = [k \in Kinds |-> None]
    /\ uids = 0
    /\ rep = [p \in Replicas |-> Off]
    /\ clean = [p \in Replicas |-> FALSE]
    /\ starts = 0 /\ creates = 0 /\ edits = 0

Running(p) == rep[p].pc \in {"get", "patch", "create", "reread"}

RequiredKeys(k) ==
    CASE k = "vpc" -> {"managedBy"}
      [] k = "subnet" -> {"managedBy", "names", "networkId"}
      [] k = "nad" -> {"managedBy", "names"}

\* mgmtVpcLabels, mgmtSubnetLabels (an unknown Vpc UID is skipped), mgmtNetAttachLabels.
Required(k, vpcUid) ==
    [key \in RequiredKeys(k) \ (IF vpcUid = 0 THEN {"networkId"} ELSE {})
        |-> IF key = "networkId" THEN vpcUid ELSE 1]

MergeLabels(current, required) ==
    [key \in Keys |-> IF key \in DOMAIN required THEN required[key] ELSE current[key]]

\* Faulty variant: the labels read before are written back, as an Update would.
PatchedOverwrites(p, o, base, merged) == [o EXCEPT !.labels = merged]

\* Faulty variant: the subnet is brought to the configured cidr as well.
PatchedWithSpec(p, o, base, merged) ==
    [o EXCEPT !.labels = merged, !.cidr = IF @ = None THEN @ ELSE CidrOf[p]]

\* Faulty variant: the difference replaces the labels.
PatchedDiffOnly(p, o, base, merged) ==
    [o EXCEPT !.labels = [key \in {x \in Keys : merged[x] # base[x]} |-> merged[key]]]

(* client.Patch with MergeFrom: only the difference to the labels that     *)
(* were read is sent, and applied to the labels there are by then.         *)
Patched(p, o, base, merged) ==
    [o EXCEPT !.labels = [key \in Keys |->
        IF merged[key] # base[key] THEN merged[key] ELSE @[key]]]

\* The object p creates: all required labels, and its own configuration.
NewObject(p, k) ==
    [uid |-> uids + 1,
     labels |-> MergeLabels(NoLabels, Required(k, rep[p].vpcUid)),
     cidr |-> IF k = "subnet" THEN CidrOf[p] ELSE None]

\* Faulty variant: the cached client, which sees managed objects only.
ReadCached(k) ==
    IF obj[k] # None /\ obj[k].labels["managedBy"] = 0 THEN None ELSE obj[k]

\* apiReader.Get.
Read(k) == obj[k]

-----------------------------------------------------------------------------
(* One pass of EnsureManagementNetwork *)

Start(p) ==
    /\ rep[p].pc = "off"
    /\ starts < MaxStarts
    /\ starts' = starts + 1
    /\ rep' = [rep EXCEPT ![p] = [Off EXCEPT !.pc = "get"]]
    /\ clean' = [clean EXCEPT ![p] = \A q \in Replicas : Running(q) => clean[q]]
    /\ UNCHANGED <<obj, uids, creates, edits>>

\* Object k is taken care of; vpcUid is what the pass knows of the Vpc.
Advance(q, k, vpcUid) ==
    CASE k = "vpc"    -> [q EXCEPT !.pc = "get", !.kind = "subnet", !.vpcUid = vpcUid]
      [] k = "subnet" -> [q EXCEPT !.pc = "get", !.kind = "nad"]
      [] k = "nad"    -> [q EXCEPT !.pc = "ready"]

Get(p) ==
    LET q == rep[p]  k == q.kind  o == Read(k) IN
    /\ q.pc = "get"
    /\ rep' = [rep EXCEPT ![p] =
         IF o = None THEN [q EXCEPT !.pc = "create"]
         ELSE IF MergeLabels(o.labels, Required(k, q.vpcUid)) = o.labels
         THEN Advance(q, k, o.uid)
         ELSE [q EXCEPT !.pc = "patch", !.base = o.labels]]
    /\ UNCHANGED <<obj, uids, clean, bounds>>

(* By name: the UID is that of the answer, which need not be the object   *)
(* that was read; without an object the pass fails.                        *)
Patch(p) ==
    LET q == rep[p]  k == q.kind IN
    /\ q.pc = "patch"
    /\ obj' = [obj EXCEPT ![k] = IF @ = None THEN @ ELSE
                 Patched(p, @, q.base, MergeLabels(q.base, Required(k, q.vpcUid)))]
    /\ rep' = [rep EXCEPT ![p] = IF obj[k] = None THEN [q EXCEPT !.pc = "failed"]
                                 ELSE Advance(q, k, obj[k].uid)]
    /\ UNCHANGED <<uids, clean, bounds>>

(* AlreadyExists is no error: the Vpc is read again for its UID, the       *)
(* Subnet and the NAD are taken as they are.                               *)
Create(p) ==
    LET q == rep[p]  k == q.kind IN
    /\ q.pc = "create"
    /\ IF obj[k] = None
       THEN /\ obj' = [obj EXCEPT ![k] = NewObject(p, k)]
            /\ uids' = uids + 1
            /\ rep' = [rep EXCEPT ![p] = Advance(q, k, uids + 1)]
       ELSE /\ rep' = [rep EXCEPT ![p] =
                 IF k = "vpc" THEN [q EXCEPT !.pc = "reread"] ELSE Advance(q, k, 0)]
            /\ UNCHANGED <<obj, uids>>
    /\ UNCHANGED <<clean, bounds>>

Reread(p) ==
    LET q == rep[p]  o == Read("vpc") IN
    /\ q.pc = "reread"
    /\ rep' = [rep EXCEPT ![p] = IF o = None THEN [q EXCEPT !.pc = "failed"]
                                 ELSE Advance(q, "vpc", o.uid)]
    /\ UNCHANGED <<obj, uids, clean, bounds>>

(* A call fails, before or after the API server applied it: kube-vim       *)
(* refuses to start.                                                       *)
Fail(p) ==
    /\ Running(p)
    /\ rep' = [rep EXCEPT ![p].pc = "failed"]
    /\ UNCHANGED <<obj, uids, clean, bounds>>

LostReply(p) ==
    LET q == rep[p]  k == q.kind IN
    /\ \/ /\ q.pc = "create" /\ obj[k] = None
          /\ obj' = [obj EXCEPT ![k] = NewObject(p, k)]
          /\ uids' = uids + 1
       \/ /\ q.pc = "patch" /\ obj[k] # None
          /\ obj' = [obj EXCEPT ![k] =
                Patched(p, @, q.base, MergeLabels(q.base, Required(k, q.vpcUid)))]
          /\ uids' = uids
    /\ rep' = [rep EXCEPT ![p].pc = "failed"]
    /\ UNCHANGED <<clean, bounds>>

\* The process ends, in the middle of its pass or later.
Stop(p) ==
    /\ rep[p].pc # "off"
    /\ rep' = [rep EXCEPT ![p] = Off]
    /\ UNCHANGED <<obj, uids, clean, bounds>>

-----------------------------------------------------------------------------
(* Operators and GitOps tools *)

Interfere == clean' = [p \in Replicas |-> FALSE]

OthersCreate(k) ==
    /\ obj[k] = None
    /\ creates < MaxCreates
    /\ creates' = creates + 1
    /\ uids' = uids + 1
    /\ \E c \in IF k = "subnet" THEN Cidrs ELSE {None} :
          obj' = [obj EXCEPT ![k] = [uid |-> uids + 1, labels |-> NoLabels, cidr |-> c]]
    /\ Interfere
    /\ UNCHANGED <<rep, starts, edits>>

OthersEdit(k) ==
    /\ obj[k] # None
    /\ edits < MaxEdits
    /\ edits' = edits + 1
    /\ \/ obj' = [obj EXCEPT ![k] = None]
       \/ \E key \in Keys : obj' = [obj EXCEPT ![k].labels[key] =
                                        IF key = "extra" THEN @ + 1 ELSE 0]
    /\ Interfere
    /\ UNCHANGED <<uids, rep, starts, creates>>

-----------------------------------------------------------------------------

Pass(p) == Get(p) \/ Patch(p) \/ Create(p) \/ Reread(p) \/ Fail(p) \/ LostReply(p)

Next == \/ \E p \in Replicas : Start(p) \/ Pass(p) \/ Stop(p)
        \/ \E k \in Kinds : OthersCreate(k) \/ OthersEdit(k)

Spec == Init /\ [][Next]_vars

-----------------------------------------------------------------------------
(* Properties *)

\* Object k has the required value of one label.
LabelOK(k, key) ==
    /\ obj[k] # None
    /\ IF key # "networkId" THEN obj[k].labels[key] = 1
       ELSE obj["vpc"] # None /\ obj[k].labels[key] = obj["vpc"].uid

\* Object k exists and has the labels it needs.
Labelled(k) == obj[k] # None /\ \A key \in RequiredKeys(k) : LabelOK(k, key)

Ready == \A k \in Kinds : Labelled(k)

(* A pass that reports "Management network is ready" and met nobody but    *)
(* other replicas has left all three objects in place with every required  *)
(* label, whatever state it started from and however the replicas          *)
(* interleaved, failed or restarted.                                       *)
UndisturbedPassRepairs ==
    \A p \in Replicas : rep[p].pc = "ready" /\ clean[p] => Ready

(* Why: while a pass is undisturbed all running passes are, ...            *)
Active(p) == Running(p) \/ rep[p].pc = "ready"
CleanTogether ==
    (\E p \in Replicas : clean[p] /\ Active(p)) =>
        \A q \in Replicas : Running(q) => clean[q]

\* ... the pass has labelled what it is past, ...
Past(r, k) == CASE k = "vpc" -> r.kind # "vpc"
                [] k = "subnet" -> r.kind = "nad"
                [] k = "nad" -> r.pc = "ready"

\* ... it knows the UID of the Vpc there is, ...
KnowsVpc(r) == obj["vpc"] # None /\ r.vpcUid = obj["vpc"].uid

\* ... its patch will correct every label that is still wrong, ...
PatchWillDo(r) ==
    /\ obj[r.kind] # None
    /\ \A key \in RequiredKeys(r.kind) :
          r.base[key] # Required(r.kind, r.vpcUid)[key] \/ LabelOK(r.kind, key)

\* ... and what it found missing has only been created by its like.
PassOK(r) ==
    /\ \A k \in Kinds : Past(r, k) => Labelled(k)
    /\ r.kind # "vpc" => KnowsVpc(r)
    /\ r.pc = "patch" => PatchWillDo(r)
    /\ r.pc \in {"create", "reread"} => obj[r.kind] = None \/ Labelled(r.kind)
    /\ r.pc = "reread" => obj["vpc"] # None

Shape ==
    /\ \A k \in Kinds : obj[k] # None => obj[k].uid # 0
    /\ \A p \in Replicas : /\ rep[p].pc = "ready" => rep[p].kind = "nad"
                           /\ rep[p].pc = "reread" => rep[p].kind = "vpc"

PassInv ==
    /\ Shape
    /\ CleanTogether
    /\ \A p \in Replicas : clean[p] /\ Active(p) => PassOK(rep[p])

(* "existing resources are left untouched except for missing/wrong         *)
(* labels": no step of a pass replaces or deletes an object, changes the   *)
(* subnet's CIDR or takes back a label somebody else has set meanwhile.    *)
LeavesTheRestAlone ==
    [][\A p \in Replicas, k \in Kinds :
        rep'[p] # rep[p] /\ obj[k] # None =>
            /\ obj'[k] # None
            /\ obj'[k].uid = obj[k].uid
            /\ obj'[k].cidr = obj[k].cidr
            /\ obj'[k].labels["extra"] = obj[k].labels["extra"]]_vars

(* "Idempotent. Restarting kube-vim with the same configuration is a no-op *)
(* beyond a label-equality check": once the network is ready, passes that  *)
(* met nobody but each other write nothing more, also those under way.     *)
ReadyIsFinal ==
    [][/\ Ready
       /\ \E p \in Replicas : rep'[p] # rep[p]
       /\ \A p \in Replicas : Running(p) => clean[p]
       => obj' = obj]_vars

=============================================================================
