# A TLA+ model of cluster-api-provider-incus

The provider lets Cluster API run Kubernetes clusters on Incus.  Its manager
watches `LXCCluster` and `LXCMachine` objects, launches and deletes Incus
instances for them, and keeps a load balancer pointed at the control plane
instances.  Beside it the repository has three tools: one builds the images the
instances run, one publishes them on a simplestreams server, and kini lets kind run
its nodes on Incus.  This directory models the parts in which things can go wrong
because several parties act at once, because a step fails between two others, or
because what one part writes is read by another that makes assumptions about it.

## Parts of the system

| Part | Source | Module | State |
|---|---|---|---|
| Instance calls of the Incus client | `internal/lxc/client_instances*.go`, `client_operations.go` | `InstanceContract`, `InstanceClient` | modelled |
| LXCMachine reconciler | `internal/controller/lxcmachine` | `MachineController` | modelled |
| LXCCluster reconciler | `internal/controller/lxccluster` | `ClusterController`, `InfraContract` | modelled |
| Load balancer managers | `internal/loadbalancer` | `ClusterController` (create, delete), `MachineController` (reconfigure) | all but file contents |
| Launch options, images, addresses | `internal/lxc`, `internal/instances`, `internal/utils` | `LaunchOptions`, `IncusProject`, `MachineLaunch` | modelled as operators |
| Image builder | `internal/exp/image-builder`, `cmd/exp/image-builder` | `ImageBuilder` | modelled |
| Simplestreams index | `internal/exp/simplestreams`, `cmd/exp/simplestreams` | `SimplestreamsIndex` | modelled |
| kini, docker shim for kind | `cmd/exp/kini/docker` | `Kini` | the commands that change state |
| Manager process | `cmd/main.go` | the two controllers | workers, crash and restart |
| Client configuration, static files, other kini commands | `internal/lxc/configuration*.go`, `internal/static`, `cmd/exp/kini/kini` | | I/O and data, not modelled but for the path of the unix socket |

How they interact: a reconciler reads Kubernetes objects from an informer cache,
which lags behind the API server.  It calls the Incus client, which sends requests
and waits for asynchronous operations of the Incus server under a timeout.  It
writes its results back with a patch that consists of several writes.  Up to
`--concurrency` (default 10) machines are reconciled at a time, one worker per
machine.  Machines wait for the infrastructure of their cluster, which the other
reconciler provides; the deletion of a cluster waits for its machines, whose
deletion needs the load balancer's configuration.  The image builder writes a file
that the simplestreams importer reads.  Machines, load balancers and kini nodes
live in one Incus project and are told apart by configuration keys only.

## Modules

Composition: `MachineController` and `ClusterController` extend `InstanceContract`;
`InstanceClient` implements it.  `ClusterController` implements `InfraContract`,
whose steps are the ones by which `MachineController` represents the other
reconciler.  `ImagePipeline` joins `ImageBuilder` and `SimplestreamsIndex` over the
files of `ImageFiles`.  `ProjectLaunches` joins `MachineLaunch` and `Kini` in one
`IncusProject`.  `MC...` modules hold the instances for TLC.

**InstanceContract** is what the controllers rely on.  For each instance name it
has the instance (`inst`), the server's pending operation (`op`), the call in
progress or the result of the last one (`call`), and two history variables:
`missed`, the failure of the current delete operation went unread, and `leak`,
the last delete that reported success left an instance or a pending creation.
A call is `WaitForLaunchInstance` or `WaitForDeleteInstance`.  Operations go on
when their call has timed out or its process has died.

**InstanceClient** is the implementation.  One action per request:

| Action | Code |
|---|---|
| `LaunchGetState`, `LaunchFind`, `LaunchCreate`, `LaunchWait` | `WaitForLaunchInstance`, `tryFindInstanceCreateOperation` |
| `LaunchSetup` | instance templates, files and replacements, in this order |
| `StartGetState`, `StartRequest`, `StartWait` | `WaitForStartInstance` |
| `WaitForInstanceAddress` | `waitForInstanceAddress` |
| `StopGetState`, `StopRequest`, `StopWait` | `WaitForStopInstance` |
| `DeleteRequest`, `DeleteWait` | `WaitForDeleteInstance` |
| `WaitForOperation`, `Request`, `Reject` | `WaitForOperation` and the request in its argument |

The server (`OpDone`, `OpFail`, `Expire`, `AddressUp`, `Vanish`) is external: it
runs one operation per instance and forgets finished operations after a while.
`okind` and `ost` are its record of the last operation.  `Contract` instantiates
InstanceContract with a refinement mapping: the pending operation is read off
`okind` and `ost`, the call off `pc`.

**MachineController** extends InstanceContract with the LXCMachine reconciler.
`obj` is the object on the API server, `cache` the informer's copy, `base` and `loc`
the worker's copy as read and as changed.  `Dispatch` is the read, bounded by
`Concurrency`.  `ReconcilePaused`, `EnsureFinalizer`, `ReconcileDelete`,
`ReconcileWait`, `ReconcileProvisioned` and `ReconcileLaunch` are the branches of
`Reconcile` up to the first slow request.  `Launched`, `NotLaunched`, `Deleted`
and `NotDeleted` go on when a call has returned.  `ListBackends`, `WriteConfig`
and `Reload` are `Manager.Reconfigure`.  `PatchSome` is the deferred patch: three
writes of which any may fail (`PatchFails`), each of which sends only the fields
the worker changed.  Early returns that change nothing are stuttering steps.
The condition reasons that wait for another controller are one value, and launch
options are abstracted to whether they can be completed (`Unlaunchable`).
`Outside` holds the users, Cluster API and the LXCCluster reconciler.

**ClusterController** does the same for the LXCCluster reconciler.  `conf` is the
load balancer type with what decides over its creation: whether the server
supports it (for ovn also in part: network load balancers without the health checks
that `Create` asks for), and the network of an ovn load balancer.  `CreateInstance` (lxc),
`CreateOCI`, `CreateOvn`, `CreateOvnTerminal`, `CreateNetworkLoadBalancer`,
`CreateExternal` and `CreateKubeVIP` are `Create` of the five managers, and
`DeleteLXC` to `DeleteKubeVIP` their `Delete`.  `Finalize` and `AwaitMachines` are
the end of `reconcileDelete`.  The network load balancer at the listen address is
its recorded owner (`ovn`); all ovn clusters use the same address, the case in which
they meet.  `first` is the address of the load balancer instance that sorts first.
`taken` and `blind` are history: an owner was overwritten; the last list of machines
failed or was out of date.

**LaunchOptions** has the options of an instance as a record, the `With` methods and
`complete` as operators on it, the image families, and the option builders of
`internal/instances`.  An image name is its prefix, the rest and a digest: `ParseImage`
takes a name for a well known one when it has exactly one colon, whatever the colon
belongs to, so that a name with only a tag or only a digest is refused as an unknown
prefix.  **IncusProject** has the instances of a project by name, with
the configuration they were created with; launch and delete are single steps with
the outcomes that InstanceClient shows them to have, a creation that outlives its
call included.  **MachineLaunch** is `launchInstance`, `launchKindInstance` and the
launch of a load balancer: the errors in the order in which the code meets them,
and the options in the order in which it applies them.

**Kini** is the docker command of kini: `DockerRun`, `DockerPs`, `DockerRm`,
`HaproxyBackends` (docker exec), `InspectPort`, `PulledImage`, and the steps of
`docker load` and `docker save`.  A node is launched as an LXC instance, as an OCI
container; a haproxy or `kindest/base` image only as the latter.  Its devices are
those of its ports, tmpfs mounts, host devices and volumes, its profile and, when asked
for, the server's unix socket (`CompleteDevices`).  kind is external and modelled from what kini
expects of it: the `docker run`s of a cluster go on at the same time, kind cleans up at the
first that fails, and deletes by listing and removing.

**ImageBuilder** runs the stages that the flags select of the haproxy and kubeadm
commands, one step per action and several for publishing, exporting and
validating.  **SimplestreamsIndex** runs the import commands, one step per file
that is read or written.  A hash stands for the bytes it is computed from.  Every
command of either can fail or be killed between and during its writes.  `residue` is
what commands that did not complete may have left: a builder, a validator, or a partial
output file, until the next export truncates it.

The `...Proofs` modules have the theorems and the lemmas they rest on.
`InstanceContractProofs` is shared by the two reconcilers' proofs,
`ImagePipelineProofs` builds on `ImageIndexProofs`, and `NodeDevicesProofs` on
`ProjectLaunchesProofs`.  Two sequences of the code are sets in the models, where the
order makes no difference to what is modelled: the stages a command has left are
positions in the list of stages (`run.todo`), and kind removes the nodes it
listed in any order (`kind[c].todo`).

The faults of clients and controllers are named in `AllFaults` and selected by the
constant `Faults`; what users do is selected by `Users`.  Definitions introduced by
*Mutant:* or *As if* are plausible mistakes that the properties detect.

## Runs

| Run | Checks | Instance and bounds |
|---|---|---|
| `client_calls` | `ImplementsContract`, `CallReturns`, `AdoptsPendingCreate`, `TypeOK` | two names, one with invalid options; every fault of the client |
| `client_setup` | `LaunchedMeansSetUp` fails | failing requests |
| `machine_faults` | `LaunchUnderFinalizer`, `OrphanHasKnownCause` | a control plane machine, or a worker with invalid options; all eight faults; deletion and pausing |
| `machine_backends` | `BackendsFollowControlPlane`, `FinalizedMeansGone` | two control plane machines, `Concurrency` 1; failing reconfigurations, partial patches, stale reads |
| `machine_live` | `DeleteCompletes`, `ProvisionCompletes`, `TypeOK` | one control plane machine; timeouts, crashes, errors, failing reconfigurations, partial patches, stale reads; the machine, the cluster and the LXCCluster may be deleted |
| `machine_orphan` | `FinalizedMeansGone` fails | timeouts |
| `machine_backends_race` | `BackendsAtRest` fails | two control plane machines, `Concurrency` 2, no faults |
| `cluster` | `CreateUnderFinalizer`, `LoadBalancerRemoved`, `FinalizerAwaitsMachines`, `EndpointKept`, `ImplementsInfra`, `ReadyEventually`, `DeletedEventually`, `TypeOK` | one cluster of any of the five types; crashes, errors, partial patches, failing load balancer requests, failing lists, stale reads; deletion and pausing |
| `cluster_ovn` | `ReadyOwnsLoadBalancer` fails | two ovn clusters, no faults |
| `images` | `BuildIsExported`, `ValidatedIsBuilt`, `OutputWholeOrGone`, `ServedIsWhole`, `ItemsServed`, `ImportedIsServed`, `ShowsEveryImage`, `OthersStay`, `IndexTypeOK` | three commands: at most two builds, at most two imports, with one of two aliases or none; failure and kill at every step |
| `project` | `OwnControlPlane`, `ImageIsDocumented`, `VMsAreLaunchable`, `TemplatesAreApart`, `BalancerServesAll`, `ClusterIsRemoved`, `NodesRunVersion`, `EndpointIsPublished`, `RemovesItsOwn`, `SavedIsLoaded`, `LoadEnds` | two LXCMachines of one name in two namespaces, two load balancers, two kind clusters with four nodes, five servers |
| `project_keys` | `ProviderKeysSet` fails | the machines alone, with `cloud-init.user-data` in `spec.config` |

### Bounds

In the client and the controllers no counter is bounded: every variable ranges
over a finite set, so retries, crashes and restarts are unlimited.  One machine or
cluster is enough for the properties about an object and its instance, because
objects share nothing but the load balancer, the workers and, for ovn, the listen
address.  The backends need two control plane machines: one to be overwritten by
the other.  Permuting machines of the same role changes nothing, so
`machine_backends` uses symmetry; it checks invariants only.

The image commands are bounded by `MaxCommands`, `MaxRuns` and `MaxImports`.  Three
commands are what the interesting cases need: one that leaves something behind, one
that meets it, and one that reads the result.  Two virtual machine images with the
same metadata are there from the start, one of them zipped.

Some instances restrict the steps, to stay within what TLC can explore:

- `OneInit` in MCMachineController: one of the two machines acts in a behaviour, the
  other one was deleted before it got a finalizer.  Which one is open.  A worker that
  can be launched does what a control plane machine does, less the load balancer.
- `MCNext` in MCClusterController: of two types whose managers do the same, one meets
  the faults and the other one is paused; so are clusters that can have no load
  balancer.
- `Apart` in ImagePipeline: an import and a build overlap only while they use the
  same file.  Other steps of the two commute.
- `OneAlias` and `OwnRelease` in MCImagePipeline: another alias, or none, is given to the
  second import only, if it is of one file for both servers, which is enough to replace
  the first or to leave it; and `import release` with two images has one that was built
  here as its container image.
- `MCInit` and `Beside` in MCProjectLaunches: the spec of the first machine varies
  when kini is not in use, and each mode of kini has a server of its own.  Beside the
  kind cluster in focus, the other kind cluster and, in OCI mode, one machine act
  without failures.

Deadlock is checked for the client.  The others may stop: when all is provisioned,
or gone, or the commands have run, there is nothing to do.

### What the runs show

What holds:

- The client's calls implement the contract, and always return.  A retried launch
  waits for the creation that is already underway.
- Nothing is launched without the finalizer on the API server, whatever the cache
  shows.  This is so for machines and for load balancers.
- When an instance outlives its LXCMachine or LXCCluster, the client's delete had
  reported success with the instance still there or being created.  The reconcilers
  add no other way to lose one.
- With one worker, provisioned control plane machines are backends and deleted
  ones are not.
- The infrastructure of a cluster is what machines take it for: once
  `InfrastructureReady` is set the load balancer instance runs until the cluster is
  deleted.
- A control plane endpoint, once set, is replaced only by a reconciliation that read
  the LXCCluster before it was set.  The LXCCluster goes away before its machines only
  if they could not be listed, or the list was out of date.
- After failures stop, clusters become ready, machines are provisioned and deletions
  complete, also of clusters whose load balancer could not be created.  Two are
  excepted.  An LXCCluster of type ovn on a server without network load balancers is
  never deleted: the client refuses the request for the missing extension, which
  `Delete` takes for a failure (`manager_ovn.go:74`).  A machine whose LXCCluster is gone
  is left alone by its reconciler.
- The backends of a cluster are its own control plane instances at their own
  addresses, whatever other clusters, load balancers and kini nodes are in the
  project, and whatever keys users add.
- An instance runs the image that the API reference promises for its spec.
- kind finds the published endpoint of a node among all its devices; it reports a
  cluster as deleted only if the nodes it found are gone, while those whose
  `docker run` still goes on can appear later.
- A node that runs as an OCI container runs the image asked for, at its digest; one
  that runs as an LXC instance runs the kubeadm image of the version in the tag, also if
  OCI support is judged differently from one `docker run` to the next.
- `docker save` ships what was loaded last, or the image of the registry: never a
  part of an image.
- A complete build publishes and exports what it installed, whatever failed or was
  killed before it, and validates it unless an earlier command left a validator.
- What images.json lists is stored with the recorded hash; an import that reports
  success repaired what interrupted ones left, and its alias is the product's; a row
  goes only when one of the same server and file type takes its place; and what an
  import adds was exported whole.

The exceptions that are part of the code's behaviour are named in the properties:
two virtual machine images with equal metadata share the file of their rootfs
(`ItemsServed`); a file that is rewritten while it is imported (`raced`); an export
that is killed, or whose last bytes could not be written, leaves a partial file
(`"output" \in residue`); a validator that was left is used again (`ValidatedIsBuilt`);
an archive that ends within an entry before manifest.json keeps `docker load` busy for
ever (`LoadEnds`); the tag of an image whose registry has a port is not its version
(`NodesRunVersion`).  Two LXCMachines of one name in two namespaces share an instance:
the properties of launches speak of an instance and the object that created it, and say
nothing of the other one.

Where code and documentation disagree:

- `client_setup`: a launch that fails after the instance was created is retried
  on the path for existing instances (`client_instances.go:27`), which skips the
  remaining templates and files.
- `machine_orphan`: a creation that outlives its launch call is not looked for by
  the deletion (`controller_delete.go:35`), and completes after the finalizer is
  gone.
- `machine_backends_race`: two workers may list in one order and write in the
  other (`manager_lxc.go:77`), and no later reconciliation repairs it.
- `cluster_ovn`: `Create` of the ovn manager refuses a load balancer of another
  cluster, `Delete` removes it all the same (`manager_ovn.go:74`).
- `project_keys`: `spec.config` replaces the user data that the API reference says
  is always set (`controller_util_launch.go:93`).

Two smaller ones are modelled as the code has them, without a run.  `Tag()` "returns the
image tag, if specified, or an empty string" (`oci_image.go:43`), but cuts the reference
at its first colon, which may be that of a port, or of a digest.  `--image-alias` "is
ignored if the product exists already" (`cmd_import_image.go:60`), but the aliases of an
import replace those of the product.

Two more behaviours are in the models without a run of their own.
`WaitForOperation` takes "Operation not found" for success (`client_operations.go:58`),
also when the operation failed: the history variable `leak` accounts for it.  Once
`spec.providerID` of an LXCMachine is written, the LoadBalancerConfigured
condition is not made up for if its write failed (`controller_normal.go:31`).

### Fairness

InstanceClient assumes that a goroutine with an enabled step takes it, nothing
about the server: every wait is under a context with a timeout, which is the
`timeout` fault.  `FairSpec` of the controllers assumes that the informers
deliver, that an object with something to do is picked up (watch events, back-off
after errors, and the manager's sync period of ten minutes re-queue it), that a
worker goes on, and that the server finishes operations.  MachineController also
assumes that the LXCCluster reconciler gets the load balancer up, which is
`ReadyEventually` of ClusterController: until then the deletion of a control plane
machine fails at `Reconfigure` and is retried.  ClusterController in turn assumes
that the machines of a deleted cluster go away, which is `DeleteCompletes`.  The two
do not lean on each other: machines of a cluster that is being deleted do not
reconfigure its load balancer.  Users owe nothing.

The liveness properties are conditional on `EventuallyCalm`: from some point on every
step is `Smooth`, one in which nothing goes wrong.  It is stated with the steps that
are allowed, not with those that are not, because a step may be both: a patch with
nothing to write looks like one that fails.

Kini assumes only that a `docker load` that nothing interrupts goes on.

## Proofs

TLC checks the runs' instances; the theorems hold for any number of machines,
clusters, nodes, image files, workers and commands, for every choice of faults and
flags, and whatever the bounds are.  A component's theorems are in a module of
their own.  Each rests on an inductive invariant, because no property but the type
invariants is inductive by itself.

**The client** (`InstanceClientProofs`): `TypeCorrect`; `PendingCreateAdopted`, a
launch adopts a creation under way; `ContractImplemented`, `Spec` implements
InstanceContract under the refinement mapping.  `IInv` says of each instance what the
server's record of the last operation tells: only a call that was cut off leaves an
operation that nobody waits for (`OpInv`), a launch about to create saw no creation
(`AdoptInv`), the last wait of a delete is for its own operation (`DeleteInv`), and
without faults every request finds the instance as the call expects it (`CalmInv`).
The last is needed because the contract lets a call fail only where there is a fault
to blame.

**The contract** (`InstanceContractProofs`): `ServerFits`, the server works only on
what fits the state of the instance; `TrackedLeavesNothing`, as long as no call is cut
off from its operation a delete that reports success leaves nothing.  The proofs about
both reconcilers use its lemmas.

**LXCMachine** (`MachineControllerProofs`): `TypeCorrect`;
`LaunchHeldByFinalizer`; `OrphansAreLeaks`; `FinalizedWhenTracked`, that no
instance outlives its LXCMachine, assuming that `Faults` has no `timeout`, `crash` or
`expire`; and `BackendsKeepUp`, that the load balancer follows the control plane,
assuming `Calm`.  The three faults are those that cut a call off from its operation, and
`machine_orphan` shows that the assumption is needed.

`LaunchUnderFinalizer` needs to know that a worker in reconcileNormal read a copy with
the finalizer, and that such a copy, however stale, is only of an object that still has
it.  That in turn needs that only a worker that read the object as deleting removes the
finalizer, that such a worker excludes any other, and that the cache never shows a
live machine once it has shown a deleting one.  `OrphanHasKnownCause` needs in addition
that a worker which is past its delete call is `Clean`: the instance is gone and no
creation is pending, or `leak` says so; and that no launch comes between that and the
removal of the object.  `IInv` is `TypeOK` and, for each machine, five such groups of
facts: about the server, the object, the cache, the call and the worker.  Each action
has its own lemma or step, and `Frame` disposes of the other machines.
The reconciler's use of the instances is one the contract allows (a lemma in both
reconcilers' proofs), so what holds of the contract holds here.
`FinalizedWhenTracked` adds that without the three faults no operation outlives its
call, so `leak` is never set.

`BackendsKeepUp` is about a manager with one worker (`Concurrency` = 1).  The default of
`--concurrency` is 10 (`cmd/main.go:126`), and `machine_backends_race` shows that two
workers are enough to break it.
`Calm` also excludes the three faults above and `vanish`, instances that somebody else
removes: the manager launches such an instance again but does not reconfigure for it,
because the LoadBalancerConfigured condition is already true.  Everything else may go
wrong: reconfigurations that fail half way, partial patches, stale copies, objects
deleted at any time.  `BInv` follows a machine through the list, the write and the
reload.  `ServedInv` says that a machine becomes a backend before any copy of its
LXCMachine has the condition or the ProviderID, and that the list another machine's
worker is about to write has it too; `GoneInv`, that it is off the load balancer before
its finalizer is; `LBInv`, that the reload makes the list of its own worker active.  The
theorem needs `FinalizedWhenTracked`'s invariant: a late creation would be listed after
its LXCMachine is gone.

**LXCCluster** (`ClusterControllerProofs`): `TypeCorrect`;
`CreationHeldByFinalizer`; `LoadBalancersAreRemoved`; `FinalizerWaitsForMachines`;
`EndpointIsKept`; `MachinesGoFirst` and `EndpointIsFinal`, the same without exceptions
for a manager whose cache is up to date (and, for the former, can list machines);
`RemovedWhenTracked`, as above; and
`InfraImplemented`, that the reconciler implements InfraContract if nobody else removes
instances (`Untouched`).  The argument for the finalizer is that of the machines, with
`KindInv` to tell the five types of load balancer apart and the owner of the
network load balancer beside the instance.  `WorkerInv` also says that a worker replaces
no endpoint it knows, and drops the finalizer only when it has seen no machines;
`FreshInv`, that without stale reads the cache misses no machine and a worker's copy has
the object's endpoint.
InfraContract needs a second invariant, `RInv`: whoever takes a cluster for ready (the
object, the cache, the worker's copy, the Cluster) does so of one whose instance runs,
until a worker that read the cluster as deleting stops it.

**Images** (`ImageIndexProofs`, `ImagePipelineProofs`):
`BuildsAreExported`, `ValidatesTheBuild`, `OutputIsWholeOrGone`, `IndexTypeCorrect`,
`ItemsAreServed`, `RowsHaveTheirFiles`, `ImportsAreServed`, `EveryImageIsShown`,
`OtherRowsStay` and `ServedImagesAreWhole`.  `BuilderInv` follows a complete run of the stages: which
instance, image and file are there by the stages that are left, and what a command that
failed left behind (`residue`).  The invariant of the index follows an import: each row
has its file or the import is about to write it (`PresentInv`), what it has done so far
is in its copy of the lists and in the directory (`DoneInv`), it reads the same bytes
each time unless an export raced with it (`RereadInv`), its copies differ from the
files only in its own rows, each of which has the key of the one it replaces
(`OthersInv`, `ShowInv`), and what it is about to add was whole when it was hashed
(`WholeInv`).  `ItemsServed` needs both: the path
of a rootfs is made of the hash of the metadata only, so that two images with the same
metadata and different contents would overwrite each other's file.  `BytesInv(R)` excludes
it with a function `R` from commands to the rootfs they published, which exists in every
reachable state and is extended by each publish.  Image files from elsewhere may have
equal metadata; `RowsHaveTheirFiles` is `ItemsServed` without that exception, assuming that
no two with different contents do.

**Launches** (`ProjectLaunchesProofs`, `NodeDevicesProofs`): `SavesWhatWasLoaded`,
`NodesGoWithTheirCluster`, `ClustersAreRemoved`, `BalancersServeAll`, `VMsCanBeLaunched`,
`TemplatesStayApart`, `NodesRunTheirVersion`, `ImagesAreDocumented`,
`EndpointsArePublished` and `BackendsAreOwn`.  The invariant is that every instance and
every creation under way is `Owned`: it has the name, the owner's labels, the image and
the devices that its launcher gives it, which is a fact about the chain of option
builders and `With` methods.  `ImagesAreDocumented` compares that image, for each
prefix, each server and each way of giving a version, with the table of the API
reference; the one hard case is a default image, which `WithImage` must not drop.
`EndpointsArePublished` counts the devices: those of the ports, volumes, tmpfs mounts,
host devices, the profile and the unix socket are named apart, so that none displaces
another, and what docker inspect reads off them is what was published.  From the labels follows that a listing by label (`DockerPs`,
`ListWithConfig`) finds the launcher's own instances and no others.  `KindInv` adds
that a node whose `docker run` ended well is there until its cluster is deleted, and that
no creation is left behind a deletion which could bring a node back; `CacheInv` that a
cached file which is not what was loaded last does not open as a whole.

The assumptions on the constants, which the passing runs evaluate, are:

| Assumption | Why the code justifies it |
|---|---|
| `InstanceAssumption`, `WantedAssumption`, `MachineAssumption`, `KindsAssumption` | subsets of what there is; finitely many machines and at least one worker (controller-runtime) |
| `OwnersAssumption` | the markers for no owner and a foreign one are no clusters |
| `BuilderAssumption`, `ArtifactsAssumption` | files built elsewhere were whole when given, and their metadata is not that of an image built here (it has the build's time) |
| `ClustersAssumption` | an object is identified by name and namespace |
| `SpecsAssumption` | `spec.image` is a struct of four fields, and an image name has a prefix, a rest and a digest |
| `NodesAssumption` | kind names its clusters; the ports, volumes, tmpfs mounts and devices of a command line are lists |
| `ApartAssumption` | load balancer names end in a hash and `-lb`; machines and kind's nodes have different names, and no LXCMachine has kind's labels in its `spec.config` |

Nothing in the code enforces the last: kini and the controllers may be pointed at one
project, and what a user puts into `spec.config` is copied.  The theorems about
launches are about projects in which users keep to it.  In others a machine with the name of
a node could, for one, take the node with it.

Left to model checking:

- liveness (`CallReturns`, `DeleteCompletes`, `ProvisionCompletes`, `ReadyEventually`,
  `DeletedEventually`, `LoadEnds`), which needs fairness and is out of the prover's
  reach;
- the properties that the code violates.

## Not modelled

- Incus itself beyond operations on one instance and the queries the code makes;
  Cluster API beyond what it writes to the objects the reconcilers read; kind beyond
  the commands it runs.
- The contents of files: haproxy.cfg is the set of its backends, a template or file
  of an instance its path, cloud-config whether it is valid, a profile its name.
- Image references character by character: a reference is the record of its parts, and
  so is what `Tag()` cuts out of it.
- Two simplestreams commands, or two image builders, at the same time: nothing locks
  them out, and the models run one of each at a time.
- `Inspect` of the managers, `docker cp`, `logs`, `info`, `network ls` and
  `image inspect`, output formats of `show`: they change nothing.
- kini setup and its configuration files, flags, credentials, logging, metrics,
  generated code: I/O and data without a protocol.

## What could follow

1. A `Reconfigure` that lists, writes and reloads under a lock: `BackendsKeepUp` for any
   `Concurrency` would show that it closes the race of `machine_backends_race`.
2. Two simplestreams commands on one directory at the same time.
