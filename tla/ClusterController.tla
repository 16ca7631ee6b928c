-------------------------- MODULE ClusterController --------------------------
(***************************************************************************)
(* internal/controller/lxccluster: the LXCCluster reconciler, with Create  *)
(* and Delete of the managers of internal/loadbalancer that it runs.       *)
(*                                                                         *)
(* Names are the LXCClusters; the load balancer instance of a cluster (lxc *)
(* and oci) has the cluster's name and follows InstanceContract.  All ovn  *)
(* clusters are configured with the same listen address, the case in which *)
(* they can get in each other's way; ovn is the owner recorded in the      *)
(* network load balancer at that address.                                  *)
(*                                                                         *)
(* obj, cache, base and loc are as in MachineController.                   *)
(***************************************************************************)
EXTENDS InstanceContract

CONSTANT Kinds      \* the load balancer types in use

AllKinds == {"lxc", "oci", "ovn", "external", "kubeVIP"}

ASSUME KindsAssumption == Kinds \subseteq AllKinds

VARIABLES
    conf,           \* load balancer configuration in the LXCCluster spec, never changed
    obj, cache, base, loc,
    pc,             \* where the worker of a cluster stands
    clusterDel,     \* the owner Cluster is being deleted
    clusterPaused,  \* the owner Cluster is paused
    infraReady,     \* Cluster.status.infrastructureReady
    machines,       \* there are Machines of the cluster
    machinesSeen,   \* ... in the informer cache
    first,          \* first of the sorted addresses of the load balancer instance
    ovn,            \* owner keys of the network load balancer, or "none"
    taken,          \* they were written over somebody else's
    blind           \* the list of Machines the last worker went by failed or was out of date

clusterVars == <<conf, obj, cache, base, loc, pc>>
outsideVars == <<clusterDel, clusterPaused, infraReady, machines, machinesSeen>>
ovnVars == <<ovn, taken>>
lbVars == <<first, ovnVars>>
vars == <<instVars, clusterVars, outsideVars, lbVars, blind>>

Instances == {"lxc", "oci"}         \* types with a load balancer instance
Addresses == {"a1", "a2"}           \* addresses of load balancer instances; "a1" sorts first
Hosts == {"", "vip"} \cup Addresses  \* controlPlaneEndpoint.host; "vip" is set by the user
Foreign == "foreign"                \* somebody else's network load balancer

ASSUME OwnersAssumption == {"none", Foreign} \cap Names = {}

\* What the server supports: "part" if it has network load balancers without
\* health checks.
Confs == [kind : Kinds, support : {"none", "part", "full"}, network : {"", "missing", "ok"}]
\* Reasons of LoadBalancerAvailableCondition.
Reasons == {"none", "Aborted", "Failed", "Available", "Deleting"}
Objects == [phase : {"live", "deleting", "gone"}, fin : BOOLEAN, host : Hosts,
            paused : {"unset", "false", "true"}, ready : BOOLEAN, cond : Reasons]
Pcs == {"idle", "launch", "ovnCreate", "delete", "machines", "patch"}

Fresh == [phase |-> "live", fin |-> FALSE, host |-> "", paused |-> "unset",
          ready |-> FALSE, cond |-> "none"]

TypeOK ==
    /\ InstTypeOK
    /\ conf \in [Names -> Confs]
    /\ obj \in [Names -> Objects]
    /\ cache \in [Names -> Objects]
    /\ base \in [Names -> Objects]
    /\ loc \in [Names -> Objects]
    /\ pc \in [Names -> Pcs]
    /\ clusterDel \in [Names -> BOOLEAN]
    /\ clusterPaused \in [Names -> BOOLEAN]
    /\ infraReady \in [Names -> BOOLEAN]
    /\ machines \in [Names -> BOOLEAN]
    /\ machinesSeen \in [Names -> BOOLEAN]
    /\ first \in [Names -> Addresses]
    /\ ovn \in Names \cup {"none", Foreign}
    /\ taken \in BOOLEAN
    /\ blind \in [Names -> BOOLEAN]

\* The docs require a host for "ovn"; only there does the network matter.
Configurable(k) ==
    /\ k.kind # "ovn" => k.network = "ok" /\ k.support # "part"
    /\ k.kind \notin {"oci", "ovn"} => k.support = "full"

\* The address all ovn clusters listen on belongs to one server.
OneServer ==
    \A c, d \in Names : conf[c].kind = "ovn" /\ conf[d].kind = "ovn" => conf[c].support = conf[d].support

\* Otherwise network load balancers are of no interest.
UsesOvn == \E c \in Names : conf[c].kind = "ovn"

Init ==
    /\ InstInit
    /\ conf \in [Names -> {k \in Confs : Configurable(k)}]
    /\ OneServer
    /\ \E h \in [Names -> {"", "vip"}] :
        /\ \A c \in Names : /\ conf[c].kind = "ovn" => h[c] = "vip"
                            /\ conf[c].kind \in Instances => h[c] = ""
        /\ obj = [c \in Names |-> [Fresh EXCEPT !.host = h[c]]]
    /\ cache = obj
    /\ base = [c \in Names |-> Fresh]
    /\ loc = base
    /\ pc = [c \in Names |-> "idle"]
    /\ clusterDel = [c \in Names |-> FALSE]
    /\ clusterPaused = clusterDel
    /\ infraReady = clusterDel
    /\ machines \in [Names -> BOOLEAN]
    /\ machinesSeen \in [Names -> BOOLEAN]
    /\ \A c \in Names : machinesSeen[c] # machines[c] => machines[c] /\ "stale" \in Faults
    /\ first = [c \in Names |-> "a2"]
    /\ ovn \in {"none", Foreign} /\ (ovn = Foreign => UsesOvn)
    /\ taken = FALSE
    /\ blind = clusterDel

-----------------------------------------------------------------------------
\* Users, Cluster API, and the machines of the cluster

\* Machines are only looked at in the deletion of the LXCCluster: when they
\* were created does not matter, but the cache may not have them yet.
LastMachineGone(c) ==
    /\ machines[c]
    /\ clusterDel[c]
    /\ machines' = [machines EXCEPT ![c] = FALSE]
    /\ UNCHANGED <<instVars, clusterVars, clusterDel, clusterPaused, infraReady,
                   machinesSeen, lbVars, blind>>

DeleteCluster(c) ==
    /\ ~clusterDel[c]
    /\ clusterDel' = [clusterDel EXCEPT ![c] = TRUE]
    /\ UNCHANGED <<instVars, clusterVars, clusterPaused, infraReady, machines,
                   machinesSeen, lbVars, blind>>

\* Cluster API does it when the machines are gone, a user perhaps earlier.
DeleteLXCCluster(c) ==
    /\ clusterDel[c]
    /\ obj[c].phase = "live"
    /\ obj' = [obj EXCEPT ![c].phase = IF obj[c].fin THEN "deleting" ELSE "gone"]
    /\ UNCHANGED <<instVars, conf, cache, base, loc, pc, outsideVars, lbVars, blind>>

TogglePause(c) ==
    /\ obj[c].phase # "gone"
    /\ clusterPaused' = [clusterPaused EXCEPT ![c] = ~@]
    /\ UNCHANGED <<instVars, clusterVars, clusterDel, infraReady, machines,
                   machinesSeen, lbVars, blind>>

SetInfrastructureReady(c) ==
    /\ obj[c].phase # "gone"
    /\ obj[c].ready
    /\ ~infraReady[c]
    /\ infraReady' = [infraReady EXCEPT ![c] = TRUE]
    /\ UNCHANGED <<instVars, clusterVars, clusterDel, clusterPaused, machines,
                   machinesSeen, lbVars, blind>>

\* managerOVN.Reconfigure replaces what is at the listen address, owner keys
\* included.  It is run for a control plane machine that was launched, which
\* takes infrastructure that is ready, or deleted, unless the cluster is.
MachineReconfigures(c) ==
    /\ conf[c].kind = "ovn"
    /\ conf[c].support = "full"
    /\ conf[c].network = "ok"
    /\ machines[c]
    /\ infraReady[c] \/ ~clusterDel[c]
    /\ obj[c].phase # "gone"
    /\ ovn \notin {"none", c}
    /\ ovn' = c
    /\ taken' = TRUE
    /\ UNCHANGED <<instVars, clusterVars, outsideVars, first, blind>>

ForeignOvn ==
    /\ UsesOvn
    /\ ovn \in {"none", Foreign}
    /\ ovn' \in {"none", Foreign} \ {ovn}
    /\ UNCHANGED <<instVars, clusterVars, outsideVars, first, taken, blind>>

Outside(c) ==
    \/ LastMachineGone(c) \/ DeleteCluster(c) \/ DeleteLXCCluster(c)
    \/ TogglePause(c) \/ SetInfrastructureReady(c) \/ MachineReconfigures(c)

-----------------------------------------------------------------------------
\* The manager's informers, and the Incus server

Observe(c) ==
    /\ cache[c] # obj[c]
    /\ cache' = [cache EXCEPT ![c] = obj[c]]
    /\ UNCHANGED <<instVars, conf, obj, base, loc, pc, outsideVars, lbVars, blind>>

ObserveMachines(c) ==
    /\ machinesSeen[c] # machines[c]
    /\ machinesSeen' = [machinesSeen EXCEPT ![c] = machines[c]]
    /\ UNCHANGED <<instVars, clusterVars, clusterDel, clusterPaused, infraReady,
                   machines, lbVars, blind>>

\* The guest obtains its first address, or later one that sorts before it.
GainAddress(c) ==
    /\ \/ AddressUp(c) /\ \E a \in Addresses : first' = [first EXCEPT ![c] = a]
       \/ /\ inst[c] = "up" /\ first[c] = "a2"
          /\ first' = [first EXCEPT ![c] = "a1"]
          /\ UNCHANGED instVars
    /\ UNCHANGED <<clusterVars, outsideVars, ovnVars, blind>>

Serve(c) ==
    /\ OpDone(c) \/ OpFail(c) \/ Vanish(c)
    /\ UNCHANGED <<clusterVars, outsideVars, lbVars, blind>>

CallGoesOn(c) ==
    /\ Progress(c)
    /\ UNCHANGED <<clusterVars, outsideVars, lbVars, blind>>

-----------------------------------------------------------------------------
\* Reconcile.  A missing owner, secret or client ends it before it changes
\* anything.

Dispatch(c) ==
    /\ pc[c] = "idle"
    /\ "stale" \in Faults \/ (cache[c] = obj[c] /\ machinesSeen[c] = machines[c])
    /\ cache[c].phase # "gone"

\* Unlike in the LXCMachine reconciler, before the cluster is checked for being
\* paused.
EnsureFinalizer(c) ==
    /\ Dispatch(c)
    /\ cache[c].phase = "live"
    /\ ~cache[c].fin
    /\ obj[c].phase = "live"
    /\ obj' = [obj EXCEPT ![c].fin = TRUE]
    /\ UNCHANGED <<instVars, conf, cache, base, loc, pc, outsideVars, lbVars, blind>>

\* Mutant: Reconcile goes on without the finalizer.
FinalizedUnasked(c) == Dispatch(c)

Finalized(c) == Dispatch(c) /\ (cache[c].phase = "live" => cache[c].fin)

PausedStatus(c) == IF clusterPaused[c] THEN "true" ELSE "false"

ReconcilePaused(c) ==
    /\ Finalized(c)
    /\ cache[c].paused # PausedStatus(c)
    /\ obj[c].phase # "gone"
    /\ obj' = [obj EXCEPT ![c].paused = PausedStatus(c)]
    /\ UNCHANGED <<instVars, conf, cache, base, loc, pc, outsideVars, lbVars, blind>>

Active(c) ==
    /\ Finalized(c)
    /\ cache[c].paused = PausedStatus(c)
    /\ ~clusterPaused[c]

\* The worker takes its copies; the deferred patch runs whatever happens next.
Take(c, next, changed) ==
    /\ base' = [base EXCEPT ![c] = cache[c]]
    /\ loc' = [loc EXCEPT ![c] = changed]
    /\ pc' = [pc EXCEPT ![c] = next]
    /\ UNCHANGED <<conf, cache, outsideVars, first>>

\* reconcileNormal, once Create has returned.
Aborted(o) == [o EXCEPT !.cond = "Aborted"]

\* Mutant: the LXCCluster is marked ready after an error.
FailedReady(o) == [o EXCEPT !.cond = "Failed", !.ready = TRUE]

Failed(o) == [o EXCEPT !.cond = "Failed"]

\* Mutant: the endpoint is set to the current address every time.
AvailableRewritten(o, ip) ==
    [o EXCEPT !.host = ip, !.ready = TRUE, !.cond = "Available"]

Available(o, ip) ==
    [o EXCEPT !.host = IF o.host = "" THEN ip ELSE @, !.ready = TRUE, !.cond = "Available"]

Normal(c, kinds) == Active(c) /\ cache[c].phase = "live" /\ conf[c].kind \in kinds

\* Mutant: a load balancer that failed to launch is not launched again.
CreateInstanceOnce(c, kind) ==
    /\ Normal(c, {kind})
    /\ cache[c].cond # "Failed"
    /\ Take(c, "launch", cache[c])
    /\ BeginLaunch(c)
    /\ UNCHANGED <<obj, ovnVars, blind>>

\* managerLXC.Create launches an instance, and so does managerOCI.Create if the
\* server can.
CreateInstance(c, kind) ==
    /\ Normal(c, {kind})
    /\ Take(c, "launch", cache[c])
    /\ BeginLaunch(c)
    /\ UNCHANGED <<obj, ovnVars, blind>>

CreateOCI(c) ==
    \/ conf[c].support = "full" /\ CreateInstance(c, "oci")
    \/ /\ Normal(c, {"oci"})
       /\ conf[c].support # "full"
       /\ Take(c, "patch", Aborted(cache[c]))
       /\ UNCHANGED <<instVars, obj, ovnVars, blind>>

\* managerExternal.Create and managerKubeVIP.Create have nothing to create: the
\* endpoint is the user's, and without one there is a terminal error.
TakeEndpoint(c) ==
    /\ Take(c, "patch", IF cache[c].host = "" THEN Aborted(cache[c])
                        ELSE Available(cache[c], cache[c].host))
    /\ UNCHANGED <<instVars, obj, ovnVars, blind>>

CreateExternal(c) == Normal(c, {"external"}) /\ TakeEndpoint(c)
CreateKubeVIP(c) == Normal(c, {"kubeVIP"}) /\ TakeEndpoint(c)

\* The terminal errors of managerOVN: no extension, no network name, no such
\* network (or any other error looking it up), somebody else's load balancer.
CreateOvnTerminal(c) ==
    /\ Normal(c, {"ovn"})
    /\ \/ conf[c].support # "full"
       \/ conf[c].network # "ok"
       \/ "lb" \in Faults
       \/ ovn \notin {"none", c}
    /\ Take(c, "patch", Aborted(cache[c]))
    /\ UNCHANGED <<instVars, obj, ovnVars, blind>>

\* managerOVN.Create: look for the network load balancer ...
CreateOvn(c) ==
    /\ Normal(c, {"ovn"})
    /\ conf[c].support = "full"
    /\ conf[c].network = "ok"
    /\ \/ ovn = "none" /\ Take(c, "ovnCreate", cache[c])
       \/ ovn = c /\ Take(c, "patch", Available(cache[c], cache[c].host))
       \/ "lb" \in Faults /\ Take(c, "patch", Failed(cache[c]))
    /\ UNCHANGED <<instVars, obj, ovnVars, blind>>

\* ... and create it; the server refuses a second one at the same address.
CreateNetworkLoadBalancer(c) ==
    /\ pc[c] = "ovnCreate"
    /\ pc' = [pc EXCEPT ![c] = "patch"]
    /\ \/ /\ ovn = "none"
          /\ ovn' = c
          /\ taken' = FALSE
          /\ loc' = [loc EXCEPT ![c] = Available(@, @.host)]
       \/ /\ ovn # "none" \/ "lb" \in Faults
          /\ loc' = [loc EXCEPT ![c] = Failed(@)]
          /\ UNCHANGED ovnVars
    /\ UNCHANGED <<instVars, conf, obj, cache, base, outsideVars, first, blind>>

Step(c, from, next, changed) ==
    /\ pc[c] = from
    /\ pc' = [pc EXCEPT ![c] = next]
    /\ loc' = [loc EXCEPT ![c] = changed]
    /\ UNCHANGED <<instVars, conf, obj, cache, base, outsideVars, lbVars>>

\* WaitForLaunchInstance has returned.
Launched(c) ==
    /\ call[c] = "launched"
    /\ Step(c, "launch", "patch", Available(loc[c], first[c]))
    /\ UNCHANGED blind

\* Mutant: the result of the call is recorded as the reason.
NotLaunchedRaw(c) ==
    /\ call[c] \in {"terminal", "deadline", "error"}
    /\ Step(c, "launch", "patch", [loc[c] EXCEPT !.cond = call[c]])
    /\ UNCHANGED blind

NotLaunched(c) ==
    /\ call[c] \in {"terminal", "deadline", "error"}
    /\ Step(c, "launch", "patch",
             IF call[c] = "terminal" THEN Aborted(loc[c]) ELSE Failed(loc[c]))
    /\ UNCHANGED blind

-----------------------------------------------------------------------------
\* reconcileDelete

Deleting(o) == [o EXCEPT !.cond = "Deleting"]

\* Mutant: a deletion that was started is not taken up again.
DeleteGuardOnce(c) == Active(c) /\ cache[c].phase = "deleting" /\ cache[c].cond # "Deleting"

DeleteGuard(c) == Active(c) /\ cache[c].phase = "deleting"

\* Manager.Delete.
DeleteInstance(c) ==
    /\ Take(c, "delete", Deleting(cache[c]))
    /\ BeginDelete(c)
    /\ UNCHANGED ovnVars
DeleteLXC(c) == conf[c].kind = "lxc" /\ DeleteInstance(c)
DeleteOCI(c) == conf[c].kind = "oci" /\ DeleteInstance(c)

\* Whatever is at the listen address is removed; a network that is not there
\* counts as removed with it, but the client's error about the missing extension
\* does not.
DeleteOvn(c) ==
    /\ conf[c].kind = "ovn"
    /\ \/ /\ conf[c].support # "none"
          /\ conf[c].network = "ok"
          /\ Take(c, "machines", Deleting(cache[c]))
          /\ ovn' = "none"
          /\ taken' = FALSE
       \/ /\ conf[c].support # "none"
          /\ conf[c].network # "ok"
          /\ Take(c, "machines", Deleting(cache[c]))
          /\ UNCHANGED ovnVars
       \/ /\ conf[c].support = "none" \/ "lb" \in Faults
          /\ Take(c, "patch", Deleting(cache[c]))
          /\ UNCHANGED ovnVars
    /\ UNCHANGED instVars

DeleteNothing(c) == Take(c, "machines", Deleting(cache[c])) /\ UNCHANGED <<instVars, ovnVars>>
DeleteExternal(c) == conf[c].kind = "external" /\ DeleteNothing(c)
DeleteKubeVIP(c) == conf[c].kind = "kubeVIP" /\ DeleteNothing(c)

\* The Deleting condition is written first, as for machines.
ReconcileDelete(c) ==
    /\ DeleteGuard(c)
    /\ \/ obj[c].phase # "gone" /\ obj' = [obj EXCEPT ![c] = Deleting(@)]
       \/ cache[c].cond = "Deleting" /\ UNCHANGED obj
    /\ DeleteLXC(c) \/ DeleteOCI(c) \/ DeleteOvn(c) \/ DeleteExternal(c) \/ DeleteKubeVIP(c)
    /\ UNCHANGED blind

ReconcileDeleteUnpatched(c) ==
    /\ DeleteGuard(c)
    /\ cache[c].cond # "Deleting"
    /\ obj[c].phase = "gone" \/ "patch" \in Faults
    /\ Take(c, "patch", Deleting(cache[c]))
    /\ UNCHANGED <<instVars, obj, ovnVars, blind>>

\* Mutant: the error of WaitForDeleteInstance is dropped.
DeletedAnyway(c) ==
    /\ call[c] \in {"deleted", "error"}
    /\ Step(c, "delete", "machines", loc[c])
    /\ UNCHANGED blind

\* WaitForDeleteInstance has returned.
Deleted(c) ==
    /\ call[c] = "deleted"
    /\ Step(c, "delete", "machines", loc[c])
    /\ UNCHANGED blind

NotDeleted(c) ==
    /\ call[c] = "error"
    /\ Step(c, "delete", "patch", loc[c])
    /\ UNCHANGED blind

\* Mutant: the finalizer does not wait for Machines.
FinalizeAtOnce(c) ==
    /\ Step(c, "machines", "patch", [loc[c] EXCEPT !.fin = FALSE])
    /\ UNCHANGED blind

\* No Machines in the cache, or an error, which is only logged.
Finalize(c) ==
    /\ Step(c, "machines", "patch", [loc[c] EXCEPT !.fin = FALSE])
    /\ \/ ~machinesSeen[c] /\ blind' = [blind EXCEPT ![c] = machines[c]]
       \/ "list" \in Faults /\ blind' = [blind EXCEPT ![c] = TRUE]

AwaitMachines(c) ==
    /\ machinesSeen[c]
    /\ Step(c, "machines", "patch", loc[c])
    /\ UNCHANGED blind

-----------------------------------------------------------------------------
\* The deferred patchLXCCluster: conditions, then spec and finalizers, then
\* status; one that fails does not stop the next.
Writes == {"conditions", "object", "status"}

Merge(o, b, l, ok) ==
    LET Put(write, new, old, cur) == IF write \in ok /\ new # old THEN new ELSE cur
        fin == Put("object", l.fin, b.fin, o.fin)
    IN [phase |-> IF o.phase = "deleting" /\ ~fin THEN "gone" ELSE o.phase,
        fin |-> fin,
        host |-> Put("object", l.host, b.host, o.host),
        paused |-> o.paused,
        ready |-> Put("status", l.ready, b.ready, o.ready),
        cond |-> Put("conditions", l.cond, b.cond, o.cond)]

PatchSome(c, ok) ==
    /\ pc[c] = "patch"
    /\ obj' = IF obj[c].phase = "gone" THEN obj
              ELSE [obj EXCEPT ![c] = Merge(obj[c], base[c], loc[c], ok)]
    /\ pc' = [pc EXCEPT ![c] = "idle"]
    /\ base' = [base EXCEPT ![c] = Fresh]
    /\ loc' = [loc EXCEPT ![c] = Fresh]
    /\ UNCHANGED <<instVars, conf, cache, outsideVars, lbVars, blind>>

Patch(c) == PatchSome(c, Writes)
PatchFails(c) == "patch" \in Faults /\ \E ok \in SUBSET Writes \ {Writes} : PatchSome(c, ok)

Crash ==
    /\ AbandonCalls
    /\ pc' = [c \in Names |-> "idle"]
    /\ base' = [c \in Names |-> Fresh]
    /\ loc' = [c \in Names |-> Fresh]
    /\ cache' = obj
    /\ machinesSeen' = machines
    /\ UNCHANGED <<conf, obj, clusterDel, clusterPaused, infraReady, machines, lbVars, blind>>

-----------------------------------------------------------------------------
Reconcile(c) ==
    \/ EnsureFinalizer(c) \/ ReconcilePaused(c)
    \/ CreateInstance(c, "lxc") \/ CreateOCI(c) \/ CreateExternal(c) \/ CreateKubeVIP(c)
    \/ CreateOvn(c) \/ CreateOvnTerminal(c)
    \/ ReconcileDelete(c) \/ ReconcileDeleteUnpatched(c)

Work(c) ==
    \/ CreateNetworkLoadBalancer(c)
    \/ Launched(c) \/ NotLaunched(c) \/ Deleted(c) \/ NotDeleted(c)
    \/ Finalize(c) \/ AwaitMachines(c)
    \/ Patch(c) \/ PatchFails(c)

Next ==
    \/ \E c \in Names : \/ Outside(c) \/ Observe(c) \/ ObserveMachines(c)
                        \/ GainAddress(c) \/ Serve(c) \/ CallGoesOn(c)
                        \/ Reconcile(c) \/ Work(c)
    \/ ForeignOvn \/ Crash

Spec == Init /\ [][Next]_vars

-----------------------------------------------------------------------------
\* Fairness, as in MachineController.  Machines of a deleted cluster go away
\* (DeleteCompletes there).
Fairness ==
    \A c \in Names :
        /\ WF_vars(Observe(c))
        /\ WF_vars(ObserveMachines(c))
        /\ WF_vars(Reconcile(c))
        /\ WF_vars(Work(c))
        /\ WF_vars(GainAddress(c))
        /\ WF_vars(Serve(c))
        /\ WF_vars(CallGoesOn(c))
        /\ WF_vars(LastMachineGone(c))

FairSpec == Spec /\ Fairness

\* An ovn cluster on a server that has no network load balancers.
Undeletable(c) == conf[c].kind = "ovn" /\ conf[c].support = "none"

\* A step about c in which nothing goes wrong.
Smooth(c) ==
    \/ Outside(c) \/ Observe(c) \/ ObserveMachines(c) \/ GainAddress(c)
    \/ EnsureFinalizer(c) \/ ReconcilePaused(c)
    \/ CreateInstance(c, "lxc") \/ CreateOCI(c) \/ CreateExternal(c) \/ CreateKubeVIP(c)
    \/ CreateOvn(c) /\ loc'[c].cond # "Failed"
    \/ CreateOvnTerminal(c) /\ ~(conf[c].support = "full" /\ conf[c].network = "ok" /\ ovn \in {"none", c})
    \/ ReconcileDelete(c) /\ (pc'[c] = "patch" => Undeletable(c))
    \/ ReconcileDeleteUnpatched(c) /\ obj[c].phase = "gone"
    \/ CreateNetworkLoadBalancer(c) /\ (ovn = "none" => ovn' = c)
    \/ Launched(c) \/ NotLaunched(c) \/ Deleted(c) \/ NotDeleted(c)
    \/ Finalize(c) \/ AwaitMachines(c) \/ Patch(c)
    \/ /\ \/ OpDone(c)
          \/ AcceptCreate(c) \/ AcceptStart(c) \/ AcceptStop(c) \/ AcceptDelete(c)
          \/ ReturnLaunched(c) \/ ReturnTerminal(c) \/ ReturnDeleted(c)
          \/ op[c] # "none" /\ ReturnError(c)
       /\ UNCHANGED <<clusterVars, outsideVars, lbVars, blind>>

EventuallyCalm == <>[][ForeignOvn \/ \E c \in Names : Smooth(c)]_vars

-----------------------------------------------------------------------------
\* Properties

\* controller.go:89: "Add finalizer first if not set to avoid the race condition
\* between init and delete."  Whatever the cache shows, no load balancer is
\* created for an LXCCluster the API server could drop meanwhile.
CreateUnderFinalizer ==
    \A c \in Names : call[c] = "launch" \/ pc[c] = "ovnCreate" => obj[c].fin

\* manager.go:18: "Delete cleans up any load balancer resources."  A load balancer
\* outlives its LXCCluster only if the client's last delete left it behind, or
\* (ovn) if it was somebody else's and a machine of the cluster took it over.
LoadBalancerRemoved ==
    \A c \in Names : obj[c].phase = "gone" =>
        /\ (inst[c] = "absent" /\ op[c] # "create") \/ leak[c]
        /\ ovn # c \/ taken

\* controller_delete.go:45: the LXCCluster waits for its Machines, whose own
\* deletion needs it; it goes first only if they could not be listed.
FinalizerAwaitsMachines ==
    [][\A c \in Names : obj[c].phase = "deleting" /\ obj'[c].phase = "gone" =>
            ~machines[c] \/ blind[c]]_vars

\* controller_normal.go:31: the control plane endpoint that kubeconfigs and
\* certificates are made for is kept, although the load balancer's addresses
\* change.  Only a reconciliation that read the LXCCluster before the endpoint
\* was set can replace it.
EndpointKept ==
    [][\A c \in Names : obj[c].host # "" /\ obj'[c].host # obj[c].host =>
            base[c].host = ""]_vars

\* What machines see of the infrastructure.
SeenInfra(c) ==
    IF obj[c].phase = "gone" THEN "gone" ELSE IF infraReady[c] THEN "ready" ELSE "pending"

Infra == INSTANCE InfraContract WITH
    Clusters <- Names,
    deleting <- clusterDel,
    infra <- [c \in Names |-> SeenInfra(c)],
    lb <- [c \in Names |-> infraReady[c] /\ (conf[c].kind \in Instances => inst[c] = "up")]

\* Machines find the infrastructure as MachineController assumes: the load
\* balancer instance runs from the moment InfrastructureReady is set until the
\* cluster is deleted.
ImplementsInfra == Infra!InfraSpec

\* A cluster with a valid configuration becomes ready, and its endpoint is
\* set, once failures stop.
ReadyEventually ==
    EventuallyCalm =>
        \A c \in Names :
            /\ c \notin Unlaunchable /\ conf[c].support = "full" /\ conf[c].network = "ok"
            /\ conf[c].kind \in Instances \/ obj[c].host # ""
            ~> \/ obj[c].ready /\ obj[c].host # ""
               \/ obj[c].phase # "live" \/ clusterPaused[c] \/ ovn = Foreign

\* manager.go:18: "Delete cleans up any load balancer resources."  An LXCCluster
\* that is being deleted goes away once failures stop, also one whose load
\* balancer could never be created (no network, no OCI support, somebody else's
\* at its address).  One on a server without network load balancers does not:
\* managerOVN.Delete (manager_ovn.go:75) takes the client's answer that the
\* extension is missing for a failed request, every time.
DeletedEventually ==
    EventuallyCalm =>
        \A c \in Names :
            obj[c].phase = "deleting" /\ ~Undeletable(c) ~> obj[c].phase = "gone" \/ clusterPaused[c]

\* docs/book/src/explanation/load-balancer.md:78: the provider "will create and
\* manage an OVN network load balancer for the control plane endpoint".  The
\* one of a ready cluster stays its own.
ReadyOwnsLoadBalancer ==
    \A c \in Names : conf[c].kind = "ovn" /\ obj[c].phase = "live" /\ obj[c].ready => ovn = c
=============================================================================
