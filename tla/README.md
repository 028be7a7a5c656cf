# Verification of kube-vim

kube-vim is a Virtualised Infrastructure Manager (ETSI NFV VIM) on top of
Kubernetes. It serves the Vi-Vnfm and admin interfaces over gRPC and turns every
call into writes of custom resources of kube-ovn (Vpc, Vlan, Subnet), Multus
(NetworkAttachmentDefinition, "NAD"), KubeVirt (VirtualMachine, instance type,
preference) and CDI (VolumeImportSource, DataVolume). It has no database and no
locks: the API server is its only state, and everything it knows it reads back,
mostly from informer caches that lag behind. What makes it correct is therefore
the order of its writes, what it does when one of several fails, and what it may
conclude from a stale read. That is what these modules are about.

## The system's parts

| Part | State | Operations | Talks to | Hard because |
|---|---|---|---|---|
| kube-ovn network manager (`network/kubeovn/manager.go`, `utils.go`) | none; Vpc, Vlan, Subnet, NAD objects; two caches | CreateNetwork, GetNetwork, ListNetworks, DeleteNetwork, CreateSubnet, GetSubnet, ListSubnets, DeleteSubnet | API server, caches, kube-ovn controller (Status.Subnets) | several writes per call, rollback through the cache, deletion by name, concurrent handlers |
| management network (`network/kubeovn/mgmt.go`) | Vpc, Subnet, NAD shared by all replicas | EnsureManagementNetwork at start | API server without cache | replicas, rolling updates and GitOps tools write the same objects |
| process lifecycle (`cmd/kube-vim/main.go`, `internal/kubevim/manager.go`, `server/server.go`, `telemetry/manager.go`, `misc/shutdown.go`) | contexts, channels, goroutines | start, failure, signal, exit | all managers | goroutines, channel capacity, who waits for whom |
| compute manager (`compute/kubevirt/manager.go`, `utils.go`) | VirtualMachine, Secret, VMI; caches | Allocate, List, Get, Delete | flavour, image and network managers, KubeVirt controller | secret and VM written separately, wait with timeout, deletion by name from a stale cache |
| image manager (`image/cdi/manager.go`) | VolumeImportSource, DataVolume | DownloadImage, GetImage, ListImages | CDI controller | two objects and a label, rollback |
| flavour manager (`flavour/kubevirt/manager.go`) | instance type, preference | Create, Get, List, Delete | API server | a pair without rollback, objects of others under the same names |
| compute IPAM (`compute/kubevirt/ipam.go`, view of a VM in `utils.go`) | the IPAM entries of the request, written as it goes | resolution of interfaces to subnets, addresses and annotations; the way back in queries | network manager, several lookups per interface | lookups by different keys while objects disappear and others take their names; entries shared by the interfaces; annotation keys shared by interfaces of one subnet |
| composite and SR-IOV network managers (`network/composite`, `network/sriov`) | NAD per SR-IOV network | the network operations again, dispatched | kube-ovn manager, API server, cache | no record of who owns an id: dispatch on "not found", which has other causes too; deletion by name |
| RPC handlers (`server/grpc/vivnfm`, `server/grpc/admin`) | none | one per RPC | all managers | fall-through from networks to subnets in Terminate |
| error mapping (`internal/errors`, `errors.go` of compute and image) | the list of converters | ToGRPCError | every RPC | first match in the order of registration |
| telemetry, HTTP gateway, configuration, cluster client | none | conversions and wiring | | |

`PROJECT.json` lists the same parts with their status, the hazards of the code
line by line and the properties that would catch them.

## Modules

| Module | Models | Checked by | Proved in |
|---|---|---|---|
| `KubeOvnNetwork` | network manager under concurrent Allocate/Terminate handlers | `MCNetwork`, 2 configurations | `NetworkProofs`, `TerminationProofs` |
| `SubnetSlot`, `SlotRefinement` | what the manager promises about one subnet name, and that it does | `MCNetwork` | `NetworkProofs`, `TerminationProofs` |
| `CompositeNetwork` | composite manager over `KubeOvnNetwork` and the SR-IOV manager | `MCComposite` | `TerminationProofs` |
| `MgmtNetwork` | EnsureManagementNetwork in several processes | `MCMgmt` | `MgmtProofs` |
| `Lifecycle` | main, Start, servers, shutdown | `MCLifecycle`, 2 configurations | `LifecycleProofs` |
| `Compute` | compute manager with Secret, VM, VMI and KubeVirt's controller | `MCCompute`, 2 configurations | `ComputeProofs` |
| `Ipam`, `ErrorMapping` | IPAM resolver, view of a VM's interfaces, error codes | `MCIpam`, 2 configurations | `IpamProofs` |
| `Image` | image manager: VolumeImportSource, DataVolume, label, cleanup | `MCImage` | `ImageProofs` |
| `Flavour` | flavour manager: instance type and preference, objects of others | `MCFlavour` | `FlavourProofs` |

`CompositeNetwork` extends `KubeOvnNetwork`: its steps are those of the kube-ovn
manager and its own, on the same handlers. The other modules do not share
variables. Their managers meet only where one asks another a question (compute
asks for a flavour, an image and subnets); there the asking module lets the answer
be a refusal at any time, and `Ipam` lets the network manager's objects disappear
between any two questions, and others appear under their names, which covers the states the other manager can be in.
The RPC handlers of `server/grpc` are the `Call...` actions of the module of their
manager.

Definitions named "Faulty variant" are not used by the specifications. They are
plausible mistakes; replacing the definition they vary by them must break the
property the project lists for them, which shows that the property depends on
that line of code.

### KubeOvnNetwork

Every step is one write to the API server or one lookup in a cache, so any two
requests interleave between any two calls. `req[r]` is the stack of handler `r`
flattened to a record: `pc` names the call it is about to make (`cs_*` inside
CreateSubnet, `dn_*` inside DeleteNetwork, `ds_*` inside DeleteSubnet), the other
fields its local variables. `net`, `subnet` and `nad` are the objects at the API
server, `cNet` and `cSub` the informer caches. A write ends `ok`, `fail` (not
applied) or `lost` (applied, the caller sees an error); once a context is cancelled
every write fails except those the code runs under `context.WithoutCancel`, and a
write that is under way at that moment is a `fail` or `lost` followed by `Cancel`
(two faults, which the theorems allow in any number); a crash ends all handlers
where they stand and lists the caches afresh.

Modelling decisions:

- A UID is the pair of the request and the position of the object in it, so
  UIDs are never reused, without a counter.
- The caches of different kinds lag independently; a cache jumps to the current
  state, and postponing the jump is all the lag there is. What the watch of one
  kind shows is always a state that kind was in.
- `Status.Subnets` is written by the kube-ovn controller (`Reconcile`), never by
  kube-vim. A network with a status entry the subnet cache lacks is "not found",
  as in `getOverlayNetwork`.
- Deletion is immediate. With finalizers an object stays for a while with a
  deletion timestamp; the plan has a variant with them.
- After its Create a subnet is converted to the answer; that conversion can fail
  only for an object kube-vim has not just built, so the path is left out.

### SubnetSlot and SlotRefinement

`SubnetSlot` is the abstract promise: a subnet name is a slot that is free, held
by one handler, live, or lost. It knows neither NADs nor the order of two writes.
Under the mapping of `SlotRefinement` the NAD is what reserves the slot, a handler
between its two writes holds it, and every step of `KubeOvnNetwork` is one move of
one slot or none. `Leak`, `Taint` and `LoseHolders` need a fault: a lost reply, a
failed or cancelled write, a crash.

### CompositeNetwork

`at[r]` says where handler `r` is in the composite or SR-IOV code; at `"ovn"` the
handler is inside the kube-ovn manager and takes the steps of `KubeOvnNetwork`.
Terminate tries an id as a kube-ovn network, as an SR-IOV network and as a subnet.
What sends it on is an `ErrNotFound` (`errors.As`), that is, a failed lookup in a
cache; the API server's own "not found" to a delete is of another type, which the
composite returns at once and the RPC handler takes for a reason to try the next
kind. `IsNotFound` keeps the two apart.

- `Earlier` are requests of before the restart, whose SR-IOV networks may exist
  from the beginning; with them two running requests meet a third one's network.
- CreateSubnet resolves the network in the composite and again in kube-ovn; both
  lookups are steps.
- The NAD of a subnet is "<subnet>-netattach". SR-IOV networks of such a name are
  left out: they would collide with the NAD of a subnet.

### Ipam and ErrorMapping

One allocation at a time, since the resolver shares nothing with other requests;
what is concurrent is the cluster. Each step is one lookup in the network manager,
and between any two subnets, NADs and networks may go (`SubnetGone`, `NadGone`,
`NetGone`), others may be created (`SubnetCreated`, `NadCreated`, `NetCreated`) and
a status may catch up (`StatusFollows`). `ipams` are the request's entries as the
resolver has rewritten them so far, `given` the entries as they arrived.

Networks and subnets are UIDs, and `NameOf` gives their names, which come back
while UIDs do not: `unborn` holds the objects that can still be created. A request
has UIDs, or names of subnets. A network's status (`listed`) has names, which
`HasNetwork` and `FirstSubnet` resolve to whoever bears them now. So has the
VirtualMachine: `out` keeps, for the properties, what an interface was resolved to,
but the annotations (`ann`) are under the name of the NAD, which all interfaces on
a subnet of that name share, and `ViewNetwork` and `ViewSubnet`, which compute the
interfaces of the VM as every query and every termination does, see nothing but
`NadName`: a network of that name, the NAD, the Subnet on its label, its UID.

A subnet reference is an id or a name, as the code tells them apart by `IsUUID`.
An address is a member of the CIDRs that contain it; an address in none stands
for the malformed ones too. `"panic"` is the nil dereference of ipam.go:205 and of
kubeovn/manager.go:450.

`ErrorMapping` has the converters as sequences in the order in which package
initialisation registers them, and `ToGRPCError` takes the first that matches.

### MgmtNetwork

Each step of a pass is one call: `Get`, `Patch`, `Create`, `Reread`. `obj[k]` is
the object of kind `k`, with its UID, its labels and, for the Subnet, its CIDR.
Labels are numbers: 0 is missing or wrong, the required value of the network-id
label is the UID of the Vpc. A patch carries only the difference to the labels
that were read and is applied to those there are by then, as MergeFrom without
optimistic lock does; the answer to a patch of the Vpc gives the UID that is used
from there on. `clean[p]` is a history variable: since the pass of `p` started,
nobody but replicas wrote, and the same is true of every pass that overlaps it.

### Lifecycle

One variable per goroutine. `errCh` is the number of errors in the channel of
`Start`, `mgrCtx` that Start's own context was cancelled, `mainCtx` main's. RPC
handlers are a counter: what they do is in the other modules, and every one of
them returns (`EveryCallReturns` in `KubeOvnNetwork`).

The cache goroutine, `nbServer.Start`, the metrics server and the receiver that
waits for an error to stop gRPC each have a `pc`. `stopper` is the goroutine of
`nbServer.Start` that calls GracefulStop. `Room` says when a send on `errCh` goes
through.

### Compute

`vm`, `vmi` and `secret` are what the API server holds under a name; the UID of
a VM is the request that created it, and the contents of a Secret the request
whose user data it holds. Actions of a handler are the calls in the order of
`AllocateComputeResource` (`CreateSecret`, `UpdateSecret`, `Resolve`, `CreateVm`,
`WaitForVmi` or `Timeout`) and of `DeleteComputeResource` (`FindVm`, `FindVmi`,
`DeleteVm`, `DeleteSecret`).

- `StartVmi`, `Boot`, `LoseVmi` and `FinalizeVm` are KubeVirt, as kube-vim relies
  on it: `RunStrategyAlways` keeps an instance per VM, the launcher reads the
  Secret when the guest starts, and a finalizer keeps a deleted VM until its
  instance is gone.
- `shared` is a history variable: names on which two calls have overlapped.
  `LiveVmHasSecret` is stated for the other names, because the code does nothing
  about a termination that deletes the Secret a new allocation of the name has
  just written (manager.go:449).
- The manager has no cleanup, so a cancelled context is a failing call and needs
  no flag of its own.
- Image and flavour lookups and IPAM are places where a call may end with an
  error. The conversion of a VM (`utils.go`) fails for the names in `opaque`: VMs whose
  networks the lookups of `Ipam` cannot make sense of at present, because a Vpc has the
  name of their SR-IOV network. Such a VM can be neither terminated nor answered for, and
  it fails the whole list (manager.go:316); `ListRecovers` says that it does so only
  while it lasts.

### Image

`DownloadImage` call by call. A call under a cancelled context returns an error
without counting as a fault: it was not made, or it was on its way and the API
server has applied it no later than the call returned (`"late"`); the cleanup runs
under `context.WithoutCancel` and does not notice. `FailedLeavesNothing` therefore
says `faults = 0` and still covers clients that go away at any point, with the one
exception the code has: when a Create is applied after its client has gone,
`DownloadImage` takes the error for "not created", so that VolumeImportSource
(manager.go:147) or DataVolume (222-225) stays. The history variable `cut` records
it; the property says that nothing else of a failed download is left. A cleanup
deletes by name and drops errors.
`DownloadedStays` and `CleanupDeletesOwn` are about the only thing that keeps
downloads of one name apart, the Create of the VolumeImportSource.

### Flavour

`inst` and `pref` hold the owner of the object under the name made from a
flavour id: a request, `Foreign` (created by others, in `Init`) or `None`.
`DeleteAllOf` deletes by kube-vim's labels. `before` is a history variable: the
requests that had ended when this one was called; a deletion answers for those,
not for creations that overlap it.

The metadata of a flavour is copied over its annotations (utils.go:59-63), and may
replace the volumes kube-vim keeps there by what it cannot read back: `opaque`. One
such instance type fails the whole of GetFlavours (manager.go:165-168), for as long
as it exists; `FlavoursAppear` says that nothing else does, once the cache is up to
date. The two lists GetFlavours makes are reads of a synced cache, and an instance
type with kube-vim's label but without an id is not written by kube-vim; those two
errors are left out.

## Runs

Passing runs (TLC finishes; the numbers are distinct states):

| Run | Instance | Shows |
|---|---|---|
| `network_safety` | 3 requests, 1 name, 1 L3 attribute, 1 fault, symmetric requests (2.1 M) | `SubnetHasNad`, `NadIsLock`, `NadLeaksOnlyByFault`, `TerminatedIsGone`, `NetworkOutlivesSubnets`; the calls implement `SubnetSlot` (`SlotsAreExclusive`) |
| `composite` | 2 requests and the networks of an earlier one, 1 name, 1 L3 attribute, 1 fault, fairness (138 k) | `TerminatedEverywhere`, `SriovRemovedById`, `EveryCallReturns`, `CompositeListRecovers` |
| `mgmt` | 2 replicas with different CIDRs, 3 starts, 1 foreign create, 2 foreign edits (2.6 M) | `UndisturbedPassRepairs`, `LeavesTheRestAlone`, `ReadyIsFinal` |
| `lifecycle` | 2 RPCs, 2 failures, fairness (3 k) | `NoRpcOnColdCache`, `StoppedMeansDrained`, `SignalEndsProcess`, `FailureStopsServing`, `SendersFinish` |
| `compute` | 3 requests, 1 name, 1 fault, fairness (304 k) | `LiveVmHasSecret`, `TerminatedVmIsGone`, `TerminateHitsItsOwn`, `EveryCallReturns`, `ListRecovers` |
| `ipam` | up to 2 interfaces and 2 IPAM entries, 3 networks and 4 subnets, one of each to come under a name in use, 2 changes of the cluster (1.7 M) | `StaticAddressFits`, `AttachedWhereAsked`, `OwnAddress`, `ViewSurvivesDeletion` |
| `image` | 3 requests, 1 name, 2 faults, fairness (135 k) | `DownloadedStays`, `FailedLeavesNothing`, `CleanupDeletesOwn`, `ImagesAppear` |
| `flavour` | 3 requests, 1 id, 2 faults, fairness (204 k) | `DeletedIsGone`, `CreatedStays`, `ForeignUntouched`, `FlavoursAppear` |

Each also checks its module's `TypeOK`, except `composite`, `ipam` and `lifecycle`,
where it only says what the variables hold. `flavour` was also checked with two ids
and one fault (3.4 M states), where one flavour can fail the list of another.

Runs that find the code to differ from what it says of itself (details and
quotations under `findings` in `PROJECT.json`):

| Run | Property | What happens |
|---|---|---|
| `network_rollback` | `FailedCreateLeavesNothing` | the rollback looks its network up in a cache that has not seen it; "resources cleaned up" is reported and the Vpc stays |
| `lifecycle_hang` | `FailureEndsProcess` | after a failed start the process hangs until a signal |
| `compute_userdata` | `BootsOwnUserData` | a second allocation of a name overwrites the Secret before it is refused; the first guest boots with its user data |
| `ipam_static` | `StaticIpIsPlaced` | a static address without a subnet id: the subnet is found and the next line dereferences the nil SubnetId of the entry |

Met while modelling and listed as hazards, with no run of their own: the rollback
of a Vlan deletes a Vpc of the same name; the subnets of a new Vlan are created in
a Vpc of the same name; a Terminate that precedes the controller's update of
`Status.Subnets` orphans the subnet; a repeated termination of a VM can hit the
next VM of its name while the cache is stale; an object of the management network
that others create between Get and Create stays without kube-vim's labels
(mgmt.go:197); the process exits on a signal with RPC handlers in progress
(manager.go:163); an IPAM entry may send an interface to a subnet outside the
network it names (ipam.go:198, see `AttachedWhereAsked`); with two interfaces on one
subnet the addresses of one overwrite those of the other (`OwnAddress`); a Vpc with
the name of an SR-IOV network in use makes the VMs on it impossible to query and to
terminate (`ViewSurvivesDeletion`); one that is created again between the two lookups
of a view makes that view fail, and a subnet or SR-IOV network created again under its
name is shown as the attachment of the VMs that had the old one (same); while a
network's status is behind, the name of a deleted subnet puts an interface on another
network's subnet that has taken the name (`AttachedWhereAsked`); an image whose client goes away while a Create
is in flight leaves its VolumeImportSource or its DataVolume, which makes every
later download of the name fail (`FailedLeavesNothing`).

Bounds. Three requests are enough for a creator, a deleter and a second creator
that reuses the name, the pattern behind every race on names here; names do not
interact, so one is enough. `MaxFaults` bounds how often the environment
misbehaves, and a fault can hit any step; `Image` and `Flavour` are small enough
for a second one, which hits the cleanup after the first. One L3 attribute that
fails after the network has been written is what the rollback is about. Two
replicas with three starts give overlap and a restart. Two failures give a second
sender while the first error is being handled.
Two interfaces and two entries are what it takes for one to change what the other
gets; two changes of the cluster remove a subnet and its NAD or its network, or
replace an object by another of its name. Interfaces and entries on which the
resolution ends come alone, and so do an interface that names both its network and
its subnet, an entry with the name of a subnet, and the entries of networks without a
choice of subnets. Each bound is a named constant; the
theorems hold for all values.

`CHECK_DEADLOCK FALSE` is set where behaviours end: each request is issued at
most once, starts are bounded, and a process that has exited takes no step.

Fairness. Handlers are goroutines that run until they return, so each has weak
fairness; informers and controllers keep catching up, so watches and reconcilers
have it too (`FairSpec`, `CompositeSpec`). Clients, faults, signals and cache synchronisation have none.
KubeVirt keeps its promises too (`StartVmi`, `Boot`, `FinalizeVm`), except in the
time an allocation waits. `FairSpec` of `Lifecycle` does not even assume that RPC
handlers return; `lifecycle_hang` does (`FairSpecRpcs`), so that the hang it shows
is not theirs.

## Proofs

`NetworkProofs`, from `ConstantsAssumption` only (any number of requests, names,
L3 attributes and faults):

- `TypeCorrect`: `TypeOK` with `CallTree`, which says what a handler can know at
  each `pc`. Types alone are not inductive, since `NextL3` and the deletes use
  fields only some calls set.
- `SubnetsKeepTheirNad`, `NadMutualExclusion`, `NoLeakWithoutFault`: the three
  safety invariants are proved together as `NadInv`. None is inductive alone: a
  handler may delete the NAD only because no other handler owns it and no subnet
  exists (`NadIsLock`), which in turn holds because a subnet whose NAD exists
  cannot be created a second time (`SubnetHasNad`). `tainted` excludes subnets
  whose Create was applied and reported failed, for which it is false.
- `SlotRefinementCorrect`: `KubeOvnNetwork` implements `SubnetSlot`. Each action is
  shown to be one move of one slot or none, from `TypeInv` and `NadInv`: the
  abstract `Release` of a held slot, for instance, is the delete of a NAD, and it is
  that move only because the deleting handler is the one holder.

`TerminationProofs`, from `ConstantsAssumption` and, for the composite manager,
`EarlierAssumption`; it extends `NetworkProofs`:

- `TerminationLeavesNothing`: deletion is by a name that was looked up by id in a
  stale cache, so `TerminatedIsGone` needs the history of UIDs, `UidInv`: a UID
  that any object, cache or handler knows was created by the request in it, under
  one name, and is not created again; a handler about to delete by name therefore
  either hits the object it means or that object has gone. For every subnet it has
  passed `UidInv` says that it is gone for good (`Removed`), not only absent.
- `SubnetsGoFirst`: the action property `NetworkOutlivesSubnets`, from the same.
- `CompositeTypeCorrect`, `TerminationLeavesNothingAnywhere`: the same behind the
  composite manager, where a termination passes from one manager to the other and
  back. `CompositeInv` adds that the two managers never have a UID in common, not
  even in their caches (`SriovTraced`), and what a termination has already ruled out
  at each place of the composite code (`PlaceTraced`): one that found a kube-ovn
  network and falls through does not get past the lookup among the SR-IOV networks.
- `SriovNetworksGoById`: `SriovRemovedById`, with `KnownSriov` (a network found in
  the SR-IOV cache exists, or some termination has ended). The proof attempt
  corrected the property: an earlier form allowed only for another termination of
  the same id, which two requests satisfy and more do not, because the name can
  be freed by one termination and reused before the second one deletes it.
- `CompositeKeepsNads`, `CompositeRefinesSlots`: `NadInv` and the refinement of
  `SubnetSlot` hold for `CompositeSpec` too. The steps outside the kube-ovn code are
  shown to be quiet (they touch no NAD of a subnet and bring no handler between two
  writes), the rest are the lemmas of `NetworkProofs`, which are stated per step for
  this purpose.

`LifecycleProofs`, from `LifecycleAssumption` only:

- `LifecycleTypes`, `ServedFromWarmCache` and `ReturnedAfterDraining`.
  `NoRpcOnColdCache` is not inductive:
  `StartOrder` adds that `Start` goes on only after the sync, that `nbServer.Start` is
  off until it has passed the management network, and that until then no goroutine of
  the server exists and no handler runs. Nor is `StoppedMeansDrained`: `StopOrder`
  follows the goroutine that calls GracefulStop, which has ended when `nbServer.Start`
  returns, and bounds the handlers by it.

`IpamProofs`, from `IpamAssumption` only (any topology, names reused in any way, any
number of interfaces, entries and changes of the cluster):

- `IpamTypeCorrect`: with it every error of the resolver gets a code of
  `ErrorMapping`. That `ToGRPCError` is defined, the first of the matching converters,
  needs a least element of a nonempty set of naturals (`MinimumExists`), which follows
  from the well-foundedness of `<` without induction.
- `AddressesFit`, `InterfacesWhereAsked`, `InterfacesKeepTheirAddress` and
  `ViewsSurviveDeletion`, from `IpamInv`. The annotations are written several lookups
  after the choice, while subnets are replaced and entries are rewritten, so the
  invariant follows the choice: `PickInv` says what was established for the subnet
  in hand (`PickFits`, the address; `PickPlaced`, the network; `PickOwn`, the entry of
  the request), `AttachInv` that what is attached keeps it. `EntriesTraced` says that
  an entry differs from the one given only in its subnet, and only if it came
  without one; `RewrittenIsUsed`, that the subnet it was rewritten to has an interface
  or gets one now. Without that, an entry rewritten for one interface could change
  the address of another that names its subnet. `ViewInv` is the same for the way back:
  it rests on `ClusterInv` (at any time a name has one bearer of each kind, and a
  status lists names of subnets the network has or had) and on `OutBorn`, so that an
  attachment which does not bear its name any more was deleted, for good
  (`ShownOrReplaced`, `DeletionStays`).

`MgmtProofs`, from `MgmtAssumption` only:

- `MgmtTypeCorrect`.
- `PassRepairs`: `UndisturbedPassRepairs` follows from `PassInv`: every object a
  clean pass is past is labelled, it knows the UID of the Vpc there is, its patch
  covers every label still wrong, and what it found missing has since been
  created only by another replica, with all labels. The argument is that writes of
  clean passes only improve the objects (`Improves`), and that all passes that
  overlap a clean one are clean (`CleanTogether`).
- `PassLeavesTheRestAlone`, `ReadyStaysAsItIs`: the two action properties.

`ImageProofs`, from `ImageAssumption` only:

- `DownloadsStay`, `FailuresAreCleanedUp` and, as an action property,
  `CleanupsDeleteOwn`, with `ImageTypeCorrect`, from `ImageInv`. The heart of it is
  `Owner`: from the Create of the VolumeImportSource to the Delete of the cleanup
  the name belongs to one request, because a second Create is refused and nobody
  else has reached a step that deletes. `Origin` (objects come from the request
  that is their UID, under its name) keeps others from having left anything, and
  `Leftovers` says what a request on its way to fail may still have.

`FlavourProofs`, from `FlavourAssumption` only:

- `DeletionIsComplete`, `CreationsStay` and `FlavourTypeCorrect`, from
  `FlavourInv`: calls that had ended before another one was made can write no
  more (`BeforeEnded`), a deletion has removed the instance type when it turns to
  the preference (`HalfDeleted`), and a creation still has its instance type or
  has met a deletion (`HalfCreated`).
- `ForeignObjectsUntouched`, from type correctness.

`ComputeProofs`, from `ComputeAssumption` only:

- `TerminationIsFinal`, `SecretsStay`, `ComputeTypeCorrect` and, as an action
  property, `TerminationsHitTheirOwn`, from `ComputeInv`. None of these is
  inductive alone. `Origin` says that a UID stands for one VM, created once, under
  one name, so that the name a stale cache gives for it is still the right one to
  delete (`Deleted`). `Alone` and `SecretKept` say that on a name that was never
  shared one call at most is running, so that the Secret goes only after the VM.
  `OnTarget` says that without a second termination a VM which a cache or a
  termination knows is still there, or was deleted by its own termination; without
  that hypothesis a repeated termination may hit the next VM of the name while
  the cache is stale.

Every inductive invariant was checked by TLC before it was proved: `CompositeInv` and
`KnownSriov` on the `composite` instance and with three requests and no fault
(2.9 M states), `IpamInv` on the `ipam` instance.

Every invariant, action property and refinement of the passing runs has a theorem.
Only model-checked: liveness (`EveryCallReturns`, `ListRecovers`,
`CompositeListRecovers`, `SignalEndsProcess`, `FailureStopsServing`,
`SendersFinish`, `ImagesAppear`, `FlavoursAppear`), because the prover has neither
rules for fairness nor for ENABLED; and the four runs that find a violation, where the
counterexample is the result.

## Not modelled, and why

- Of the IPAM resolver and of the view of a VM: labels missing from objects that
  kube-vim itself has written, interface names, binding methods, running state and
  the launcher pods; they are fields of the answer.
- The configuration of an SR-IOV NAD (`formatOvsCniConfig`): content no operation
  depends on.
- HTTP gateway, service registration, telemetry gauges, configuration defaults,
  construction of clients: stateless wiring or formatting around libraries. What
  the shared client provides, caches and direct writes, is the environment of the
  modules.
- Image sources other than CDI: nothing in the program constructs them.
- Read-only lookups (GetImage, GetFlavour, the Query RPCs):
  they read the caches the modules have and change nothing. The conversions of
  objects to answers are left out, except where one that fails ends a list the modules
  have (`ListComputeResources`, `GetFlavours`).

## Plan

Done: network manager with the composite and SR-IOV managers in front and its
abstract specification, management network, lifecycle, compute manager, IPAM and
error mapping, image and flavour managers; proofs of every safety property of
every one of them and of both refinements.

In this order:

1. The proofs again, for a reader: shorter leaves, and lemmas that
   `TerminationProofs` and `NetworkProofs` could share.
2. A variant of `KubeOvnNetwork` with finalizers on Vpc and Subnet.
3. The start and shutdown of the HTTP gateway, which shares `ShutdownHandler` with
   `Lifecycle`.
