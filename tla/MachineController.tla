-------------------------- MODULE MachineController --------------------------
(***************************************************************************)
(* internal/controller/lxcmachine: the LXCMachine reconciler, on top of    *)
(* the contract of internal/lxc (InstanceContract, whose instance names    *)
(* are the LXCMachine names), with the load balancer reconfiguration of    *)
(* internal/loadbalancer (manager_lxc.go, manager_oci.go) that it runs.    *)
(*                                                                         *)
(* obj is the LXCMachine on the API server and cache the manager's informer*)
(* copy.  A worker keeps the copy it read (base) and the one it changes    *)
(* (loc); the deferred patch writes what differs.  One worker at a time    *)
(* handles a machine, and at most Concurrency workers are busy.            *)
(***************************************************************************)
EXTENDS Naturals, FiniteSets, InstanceContract

CONSTANTS
    ControlPlane,   \* the control plane machines
    Concurrency,    \* --concurrency of the manager
    Users           \* what users and Cluster API do: \subseteq AllUsers

AllUsers == {"deleteMachine", "deleteCluster", "pause", "removeInfra"}

ASSUME MachineAssumption ==
    /\ ControlPlane \subseteq Names
    /\ IsFiniteSet(Names)
    /\ Concurrency \in Nat \ {0}
    /\ Users \subseteq AllUsers

VARIABLES
    obj, cache, base, loc,      \* see above
    pc,         \* where the worker of a machine stands
    seenDel,    \* the worker saw the Cluster being deleted
    want,       \* the backends the worker listed
    boot,       \* the bootstrap data secret of the machine is set
    cluster,    \* what reconcilers read of the Cluster and the LXCCluster
    clusterSeen,            \* the informer copy of cluster
    lbUp, lbFile, lbLive    \* load balancer instance, haproxy.cfg, running configuration

machineVars == <<obj, cache, base, loc, pc, seenDel, want, boot>>
clusterVars == <<cluster, clusterSeen>>
lbVars == <<lbUp, lbFile, lbLive>>
vars == <<instVars, machineVars, clusterVars, lbVars>>

Phases == {"live", "deleting", "gone"}
\* Reasons of InstanceProvisionedCondition; the ones that wait for another
\* controller are one.
Reasons == {"none", "Waiting", "Creating", "Failed", "Aborted", "Provisioned",
            "InstanceDeleted", "Deleting"}
Objects == [phase : Phases, fin : BOOLEAN, paused : {"unset", "false", "true"},
            provider : BOOLEAN, ready : BOOLEAN, lb : BOOLEAN, cond : Reasons]
Clusters == [deleting : BOOLEAN, paused : BOOLEAN, infra : {"pending", "ready", "gone"}]
Reconfiguring == {"list", "write", "reload"}
Pcs == {"idle", "launch", "delete", "patch"} \cup Reconfiguring

\* An LXCMachine as Cluster API creates it.
Fresh == [phase |-> "live", fin |-> FALSE, paused |-> "unset", provider |-> FALSE,
          ready |-> FALSE, lb |-> FALSE, cond |-> "none"]

TypeOK ==
    /\ InstTypeOK
    /\ obj \in [Names -> Objects]
    /\ cache \in [Names -> Objects]
    /\ base \in [Names -> Objects]
    /\ loc \in [Names -> Objects]
    /\ pc \in [Names -> Pcs]
    /\ seenDel \in [Names -> BOOLEAN]
    /\ want \in [Names -> SUBSET ControlPlane]
    /\ boot \in [Names -> BOOLEAN]
    /\ cluster \in Clusters
    /\ clusterSeen \in Clusters
    /\ lbUp \in BOOLEAN
    /\ lbFile \subseteq ControlPlane
    /\ lbLive \subseteq ControlPlane

Init ==
    /\ InstInit
    /\ obj = [m \in Names |-> Fresh]
    /\ cache = obj
    /\ base = obj
    /\ loc = obj
    /\ pc = [m \in Names |-> "idle"]
    /\ seenDel = [m \in Names |-> FALSE]
    /\ want = [m \in Names |-> {}]
    /\ boot = [m \in Names |-> FALSE]
    /\ cluster = [deleting |-> FALSE, paused |-> FALSE, infra |-> "pending"]
    /\ clusterSeen = cluster
    /\ lbUp = FALSE
    /\ lbFile = {}
    /\ lbLive = {}

-----------------------------------------------------------------------------
\* Users, Cluster API and the LXCCluster reconciler

\* An object without finalizers is removed at once.
DeleteMachine(m) ==
    /\ "deleteMachine" \in Users
    /\ obj[m].phase = "live"
    /\ obj' = [obj EXCEPT ![m].phase = IF obj[m].fin THEN "deleting" ELSE "gone"]
    /\ UNCHANGED <<instVars, cache, base, loc, pc, seenDel, want, boot, clusterVars, lbVars>>

SetBootstrapData(m) ==
    /\ ~boot[m]
    /\ boot' = [boot EXCEPT ![m] = TRUE]
    /\ UNCHANGED <<instVars, obj, cache, base, loc, pc, seenDel, want, clusterVars, lbVars>>

\* The steps of InfraContract.  The cluster's load balancer is created before
\* InfrastructureReady is set, and may be gone by then if the cluster is deleted.
InfraReady ==
    /\ cluster.infra = "pending"
    /\ cluster' = [cluster EXCEPT !.infra = "ready"]
    /\ lbUp' \in {TRUE, ~cluster.deleting}
    /\ UNCHANGED <<instVars, machineVars, clusterSeen, lbFile, lbLive>>

DeleteCluster ==
    /\ "deleteCluster" \in Users
    /\ ~cluster.deleting
    /\ cluster' = [cluster EXCEPT !.deleting = TRUE]
    /\ UNCHANGED <<instVars, machineVars, clusterSeen, lbVars>>

RemoveLoadBalancer ==
    /\ cluster.deleting
    /\ lbUp
    /\ lbUp' = FALSE
    /\ lbFile' = {}
    /\ lbLive' = {}
    /\ UNCHANGED <<instVars, machineVars, clusterVars>>

TogglePause ==
    /\ "pause" \in Users
    /\ cluster' = [cluster EXCEPT !.paused = ~@]
    /\ UNCHANGED <<instVars, machineVars, clusterSeen, lbVars>>

\* The LXCCluster object is removed while there are machines.
RemoveInfra ==
    /\ "removeInfra" \in Users
    /\ cluster.infra # "gone"
    /\ cluster' = [cluster EXCEPT !.infra = "gone"]
    /\ UNCHANGED <<instVars, machineVars, clusterSeen, lbVars>>

Outside ==
    \/ \E m \in Names : DeleteMachine(m) \/ SetBootstrapData(m)
    \/ InfraReady \/ DeleteCluster \/ RemoveLoadBalancer \/ TogglePause \/ RemoveInfra

-----------------------------------------------------------------------------
\* The manager's informers

Observe(m) ==
    /\ cache[m] # obj[m]
    /\ cache' = [cache EXCEPT ![m] = obj[m]]
    /\ UNCHANGED <<instVars, obj, base, loc, pc, seenDel, want, boot, clusterVars, lbVars>>

ObserveCluster ==
    /\ clusterSeen # cluster
    /\ clusterSeen' = cluster
    /\ UNCHANGED <<instVars, machineVars, cluster, lbVars>>
-----------------------------------------------------------------------------
\* Reconcile, up to the first request that takes time.  The early returns and
\* errors that change nothing (no owner, no secret, no client) are stutters.

\* A free worker picks the machine up and finds it in its cache.
Dispatch(m) ==
    /\ pc[m] = "idle"
    /\ Cardinality({k \in Names : pc[k] # "idle"}) < Concurrency
    /\ "stale" \in Faults \/ (cache[m] = obj[m] /\ clusterSeen = cluster)
    /\ cache[m].phase # "gone"

PausedStatus == IF clusterSeen.paused THEN "true" ELSE "false"

\* EnsurePausedCondition reports the condition it changed, which ends Reconcile.
ReconcilePaused(m) ==
    /\ Dispatch(m)
    /\ cache[m].paused # PausedStatus
    /\ obj[m].phase # "gone"
    /\ obj' = [obj EXCEPT ![m].paused = PausedStatus]
    /\ UNCHANGED <<instVars, cache, base, loc, pc, seenDel, want, boot, clusterVars, lbVars>>

\* Not paused, and the LXCCluster exists.
Active(m) ==
    /\ Dispatch(m)
    /\ cache[m].paused = PausedStatus
    /\ ~clusterSeen.paused
    /\ clusterSeen.infra # "gone"

\* finalizers.EnsureFinalizer does nothing for a deleting object, and the API
\* server admits no new finalizer on one.
EnsureFinalizer(m) ==
    /\ Active(m)
    /\ cache[m].phase = "live"
    /\ ~cache[m].fin
    /\ obj[m].phase = "live"
    /\ obj' = [obj EXCEPT ![m].fin = TRUE]
    /\ UNCHANGED <<instVars, cache, base, loc, pc, seenDel, want, boot, clusterVars, lbVars>>

\* The worker takes its copies; the deferred patch runs whatever happens next.
Take(m, next, changed) ==
    /\ base' = [base EXCEPT ![m] = cache[m]]
    /\ loc' = [loc EXCEPT ![m] = changed]
    /\ pc' = [pc EXCEPT ![m] = next]
    /\ seenDel' = [seenDel EXCEPT ![m] = clusterSeen.deleting]
    /\ UNCHANGED <<cache, want, boot, clusterVars, lbVars>>

\* Mutant: a machine without ProviderID is taken to have no instance.
ReconcileDeleteUnlaunched(m) ==
    /\ Active(m)
    /\ cache[m].phase = "deleting"
    /\ obj[m].phase # "gone"
    /\ obj' = [obj EXCEPT ![m].cond = "Deleting"]
    /\ IF cache[m].provider
       THEN /\ Take(m, "delete", [cache[m] EXCEPT !.cond = "Deleting"])
            /\ BeginDelete(m)
       ELSE /\ Take(m, "patch", [cache[m] EXCEPT !.cond = "Deleting", !.fin = FALSE])
            /\ UNCHANGED instVars

\* reconcileDelete: the Deleting condition is written first.  There is nothing
\* to write, and no error, if the worker's copy has it already.
ReconcileDelete(m) ==
    /\ Active(m)
    /\ cache[m].phase = "deleting"
    /\ \/ obj[m].phase # "gone" /\ obj' = [obj EXCEPT ![m].cond = "Deleting"]
       \/ cache[m].cond = "Deleting" /\ UNCHANGED obj
    /\ Take(m, "delete", [cache[m] EXCEPT !.cond = "Deleting"])
    /\ BeginDelete(m)

ReconcileDeleteUnpatched(m) ==
    /\ Active(m)
    /\ cache[m].phase = "deleting"
    /\ cache[m].cond # "Deleting"
    /\ obj[m].phase = "gone" \/ "patch" \in Faults
    /\ Take(m, "patch", [cache[m] EXCEPT !.cond = "Deleting"])
    /\ UNCHANGED <<instVars, obj>>

\* Mutant: reconcileNormal is reached without the finalizer.
NormalGuardUnfinalized(m) == Active(m) /\ cache[m].phase = "live"

\* Reconcile has got as far as reconcileNormal.
NormalGuard(m) == Active(m) /\ cache[m].phase = "live" /\ cache[m].fin

ReconcileWait(m) ==
    /\ NormalGuard(m)
    /\ clusterSeen.infra = "pending" \/ (~cache[m].provider /\ ~boot[m])
    /\ Take(m, "patch", [cache[m] EXCEPT !.cond = "Waiting"])
    /\ UNCHANGED <<instVars, obj>>

\* A provisioned machine: look at its instance, and no more.
ReconcileProvisioned(m) ==
    /\ NormalGuard(m)
    /\ clusterSeen.infra = "ready"
    /\ cache[m].provider
    /\ Take(m, "patch",
             IF inst[m] = "absent"
             THEN [cache[m] EXCEPT !.ready = FALSE, !.cond = "InstanceDeleted"]
             ELSE [cache[m] EXCEPT !.ready = TRUE, !.cond = "Provisioned"])
    /\ UNCHANGED <<instVars, obj>>

\* Mutant: a launch that failed is not tried again.
ReconcileLaunchOnce(m) ==
    /\ NormalGuard(m)
    /\ clusterSeen.infra = "ready"
    /\ ~cache[m].provider
    /\ boot[m]
    /\ cache[m].cond # "Failed"
    /\ Take(m, "launch", cache[m])
    /\ BeginLaunch(m)
    /\ UNCHANGED obj

ReconcileLaunch(m) ==
    /\ NormalGuard(m)
    /\ clusterSeen.infra = "ready"
    /\ ~cache[m].provider
    /\ boot[m]
    /\ Take(m, "launch", cache[m])
    /\ BeginLaunch(m)
    /\ UNCHANGED obj

-----------------------------------------------------------------------------
\* The rest of reconcileNormal and reconcileDelete

Step(m, from, next, changed) ==
    /\ pc[m] = from
    /\ pc' = [pc EXCEPT ![m] = next]
    /\ loc' = [loc EXCEPT ![m] = changed]
    /\ UNCHANGED <<instVars, obj, cache, base, seenDel, boot, clusterVars>>

Provisioned(o) == [o EXCEPT !.provider = TRUE, !.ready = TRUE]

\* launchInstance has returned.
NeedsLoadBalancer(m) == m \in ControlPlane /\ ~loc[m].lb

Launched(m) ==
    /\ call[m] = "launched"
    /\ LET done == [loc[m] EXCEPT !.cond = "Provisioned"]
       IN IF NeedsLoadBalancer(m)
          THEN Step(m, "launch", "list", done)
          ELSE Step(m, "launch", "patch", Provisioned(done))
    /\ UNCHANGED <<want, lbVars>>

LaunchReason == [terminal |-> "Aborted", deadline |-> "Creating", error |-> "Failed"]

\* Mutant: the error itself becomes the reason.
NotLaunchedRaw(m) ==
    /\ call[m] \in DOMAIN LaunchReason
    /\ Step(m, "launch", "patch", [loc[m] EXCEPT !.cond = call[m]])
    /\ UNCHANGED <<want, lbVars>>

NotLaunched(m) ==
    /\ call[m] \in DOMAIN LaunchReason
    /\ Step(m, "launch", "patch", [loc[m] EXCEPT !.cond = LaunchReason[call[m]]])
    /\ UNCHANGED <<want, lbVars>>

\* Mutant: the load balancer is reconfigured even if its cluster is deleted.
DeletedReconfigures(m) ==
    /\ call[m] = "deleted"
    /\ IF m \in ControlPlane
       THEN Step(m, "delete", "list", loc[m])
       ELSE Step(m, "delete", "patch", [loc[m] EXCEPT !.fin = FALSE])
    /\ UNCHANGED <<want, lbVars>>

\* WaitForDeleteInstance has returned.
Deleted(m) ==
    /\ call[m] = "deleted"
    /\ IF m \in ControlPlane /\ ~seenDel[m]
       THEN Step(m, "delete", "list", loc[m])
       ELSE Step(m, "delete", "patch", [loc[m] EXCEPT !.fin = FALSE])
    /\ UNCHANGED <<want, lbVars>>

\* Mutant: the finalizer is dropped on the error path too.
NotDeletedFinalized(m) ==
    /\ call[m] = "error"
    /\ Step(m, "delete", "patch", [loc[m] EXCEPT !.fin = FALSE])
    /\ UNCHANGED <<want, lbVars>>

NotDeleted(m) ==
    /\ call[m] = "error"
    /\ Step(m, "delete", "patch", loc[m])
    /\ UNCHANGED <<want, lbVars>>

\* Mutant: only machines that have their ProviderID are considered.
ProvisionedBackends == {k \in ControlPlane : inst[k] = "up" /\ obj[k].provider}

\* getLoadBalancerConfiguration: the control plane instances with an address.
Backends == {k \in ControlPlane : inst[k] = "up"}

\* Manager.Reconfigure: list the backends, overwrite the configuration file,
\* reload the proxy.
ListBackends(m) ==
    /\ Step(m, "list", "write", loc[m])
    /\ want' = [want EXCEPT ![m] = Backends]
    /\ UNCHANGED lbVars

WriteConfig(m) ==
    /\ lbUp
    /\ Step(m, "write", "reload", loc[m])
    /\ lbFile' = want[m]
    /\ UNCHANGED <<want, lbUp, lbLive>>

\* Then the machine is provisioned, or its finalizer is not needed any more.
Configured(m) ==
    IF base[m].phase = "deleting"
    THEN [loc[m] EXCEPT !.fin = FALSE]
    ELSE [Provisioned(loc[m]) EXCEPT !.lb = TRUE]

Reload(m) ==
    /\ lbUp
    /\ Step(m, "reload", "patch", Configured(m))
    /\ lbLive' = lbFile
    /\ UNCHANGED <<want, lbUp, lbFile>>

\* RunCommand takes a failed command whose operation record is gone for done.
ReloadUnread(m) ==
    /\ "expire" \in Faults
    /\ lbUp
    /\ Step(m, "reload", "patch", Configured(m))
    /\ UNCHANGED <<want, lbVars>>

ReconfigureWithoutLB(m) ==
    /\ ~lbUp
    /\ pc[m] \in {"write", "reload"}
    /\ Step(m, pc[m], "patch", loc[m])
    /\ UNCHANGED <<want, lbVars>>

ReconfigureFails(m) ==
    /\ "lb" \in Faults
    /\ pc[m] \in Reconfiguring
    /\ Step(m, pc[m], "patch", loc[m])
    /\ UNCHANGED <<want, lbVars>>

-----------------------------------------------------------------------------
\* The deferred patchLXCMachine: conditions, then the object with its spec and
\* finalizers, then the status; one that fails does not stop the next.  Only
\* fields the worker changed are written.
Writes == {"conditions", "object", "status"}

Merge(o, b, l, ok) ==
    LET Put(write, new, old, cur) == IF write \in ok /\ new # old THEN new ELSE cur
        fin == Put("object", l.fin, b.fin, o.fin)
    IN [phase |-> IF o.phase = "deleting" /\ ~fin THEN "gone" ELSE o.phase,
        fin |-> fin,
        paused |-> o.paused,
        provider |-> Put("object", l.provider, b.provider, o.provider),
        ready |-> Put("status", l.ready, b.ready, o.ready),
        lb |-> Put("status", l.lb, b.lb, o.lb),
        cond |-> Put("conditions", l.cond, b.cond, o.cond)]

PatchSome(m, ok) ==
    /\ pc[m] = "patch"
    /\ obj' = IF obj[m].phase = "gone" THEN obj
              ELSE [obj EXCEPT ![m] = Merge(obj[m], base[m], loc[m], ok)]
    /\ pc' = [pc EXCEPT ![m] = "idle"]
    /\ base' = [base EXCEPT ![m] = Fresh]
    /\ loc' = [loc EXCEPT ![m] = Fresh]
    /\ seenDel' = [seenDel EXCEPT ![m] = FALSE]
    /\ want' = [want EXCEPT ![m] = {}]
    /\ UNCHANGED <<instVars, cache, boot, clusterVars, lbVars>>

Patch(m) == PatchSome(m, Writes)
PatchFails(m) == "patch" \in Faults /\ \E ok \in SUBSET Writes \ {Writes} : PatchSome(m, ok)

\* The manager is killed; its successor fills its caches before it starts.
Crash ==
    /\ AbandonCalls
    /\ pc' = [m \in Names |-> "idle"]
    /\ cache' = obj
    /\ clusterSeen' = cluster
    /\ base' = [m \in Names |-> Fresh]
    /\ loc' = [m \in Names |-> Fresh]
    /\ seenDel' = [m \in Names |-> FALSE]
    /\ want' = [m \in Names |-> {}]
    /\ UNCHANGED <<obj, boot, cluster, lbVars>>

-----------------------------------------------------------------------------
Reconcile(m) ==
    \/ ReconcilePaused(m) \/ EnsureFinalizer(m)
    \/ ReconcileDelete(m) \/ ReconcileDeleteUnpatched(m)
    \/ ReconcileWait(m) \/ ReconcileProvisioned(m) \/ ReconcileLaunch(m)

Proceed(m) ==
    \/ Launched(m) \/ NotLaunched(m) \/ Deleted(m) \/ NotDeleted(m)
    \/ ListBackends(m) \/ WriteConfig(m) \/ Reload(m) \/ ReconfigureWithoutLB(m)
    \/ Patch(m)

Work(m) == Proceed(m) \/ ReloadUnread(m) \/ ReconfigureFails(m) \/ PatchFails(m)

Instance(m) ==
    /\ Server(m) \/ Progress(m)
    /\ UNCHANGED <<machineVars, clusterVars, lbVars>>

Next ==
    \/ \E m \in Names : Observe(m) \/ Reconcile(m) \/ Work(m) \/ Instance(m)
    \/ Outside \/ ObserveCluster \/ Crash

Spec == Init /\ [][Next]_vars

-----------------------------------------------------------------------------
\* Fairness: the server finishes operations, watches deliver, a queued machine
\* is picked up (events, back-off and the manager's sync period re-queue it)
\* and a worker that can go on does.  The LXCCluster reconciler, which retries
\* likewise, gets the load balancer up.  Nothing is owed by users.
Fairness ==
    /\ WF_vars(ObserveCluster)
    /\ WF_vars(InfraReady)
    /\ \A m \in Names :
        /\ WF_vars(Observe(m))
        /\ WF_vars(Reconcile(m))
        /\ WF_vars(Work(m))
        /\ WF_vars(Server(m) /\ UNCHANGED <<machineVars, clusterVars, lbVars>>)
        /\ WF_vars(Progress(m) /\ UNCHANGED <<machineVars, clusterVars, lbVars>>)

FairSpec == Spec /\ Fairness

\* A step about m in which nothing goes wrong.  A request that the server
\* rejects because it is still busy with an older operation on m is one.
Smooth(m) ==
    \/ Observe(m)
    \/ Reconcile(m) /\ (ReconcileDeleteUnpatched(m) => obj[m].phase = "gone")
    \/ Proceed(m)
    \/ OpDone(m) \/ AddressUp(m)
    \/ AcceptCreate(m) \/ AcceptStart(m) \/ AcceptStop(m) \/ AcceptDelete(m)
    \/ ReturnLaunched(m) \/ ReturnTerminal(m) \/ ReturnDeleted(m)
    \/ op[m] # "none" /\ ReturnError(m)

\* From some point on nothing goes wrong.
EventuallyCalm == <>[][Outside \/ ObserveCluster \/ \E m \in Names : Smooth(m)]_vars

-----------------------------------------------------------------------------
\* Properties

\* controller.go:140: the finalizer is added "first ... to avoid the race
\* condition between init and delete".  Whatever the cache shows, no instance
\* is launched for an LXCMachine the API server could drop meanwhile.
LaunchUnderFinalizer == \A m \in Names : call[m] = "launch" => obj[m].fin

\* An instance outlives its LXCMachine only if the last delete that reported
\* success left it behind: the reconciler adds no leak of its own, through
\* stale reads, partial patches, crashes and retries.
OrphanHasKnownCause ==
    \A m \in Names :
        obj[m].phase = "gone" /\ (inst[m] # "absent" \/ op[m] = "create") => leak[m]

\* controller_delete.go:47: "Machine is deleted so remove the finalizer."  When
\* the LXCMachine is gone, so is its instance.
FinalizedMeansGone == \A m \in Names : obj[m].phase = "gone" => inst[m] = "absent"

\* While the load balancer is up, a control plane machine with a ProviderID and
\* a reachable instance is one of its running backends, and one whose object is
\* gone is not (unless the whole cluster goes).
BackendsFollowControlPlane ==
    \A m \in ControlPlane :
        /\ lbUp /\ obj[m].phase = "live" /\ obj[m].provider /\ inst[m] = "up" => m \in lbLive
        /\ obj[m].phase = "gone" /\ ~cluster.deleting => m \notin lbLive

\* No worker is busy and the cache is up to date.
AtRest == clusterSeen = cluster /\ \A m \in Names : pc[m] = "idle" /\ cache[m] = obj[m]

\* manager.go:20: "Reconfigure updates the load balancer configuration based on
\* the currently running control plane instances".  When every control plane
\* machine is provisioned and nothing is left to reconcile, the running
\* backends are the control plane instances.
BackendsAtRest ==
    /\ AtRest
    /\ lbUp /\ ~cluster.deleting
    /\ \A m \in ControlPlane : obj[m].phase = "gone" \/ (obj[m].phase = "live" /\ obj[m].provider)
    => lbLive = Backends

\* An LXCMachine that is being deleted goes away once failures stop, unless
\* its cluster is paused or its LXCCluster is gone.
DeleteCompletes ==
    EventuallyCalm =>
        \A m \in Names : obj[m].phase = "deleting" ~>
            obj[m].phase = "gone" \/ cluster.paused \/ cluster.infra = "gone"

\* A machine with infrastructure and bootstrap data gets its ProviderID once
\* failures stop, unless it or its cluster is deleted, or its options are invalid.
ProvisionCompletes ==
    EventuallyCalm =>
        \A m \in Names \ Unlaunchable : boot[m] /\ cluster.infra = "ready" ~>
            \/ obj[m].provider \/ obj[m].phase # "live"
            \/ cluster.deleting \/ cluster.paused \/ cluster.infra = "gone"
=============================================================================
