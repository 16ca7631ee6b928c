----------------------- MODULE MachineControllerProofs -----------------------
(***************************************************************************)
(* Proofs about MachineController, for any set of machines, any number of  *)
(* workers and any choice of faults.                                       *)
(***************************************************************************)
EXTENDS MachineController, InstanceContractProofs, FiniteSetTheorems

\* A copy of an LXCMachine with some fields changed is one.
LEMMA SetFin == ASSUME NEW o \in Objects, NEW b \in BOOLEAN PROVE [o EXCEPT !.fin = b] \in Objects
  BY Zenon DEF Objects

\* A copy with another reason of its condition is an LXCMachine.
LEMMA SetCond == ASSUME NEW o \in Objects, NEW r \in Reasons PROVE [o EXCEPT !.cond = r] \in Objects
  BY Zenon DEF Objects

\* A copy with another paused condition is an LXCMachine.
LEMMA SetPaused ==
    ASSUME NEW o \in Objects, NEW s \in {"unset", "false", "true"}
    PROVE  [o EXCEPT !.paused = s] \in Objects
  BY Zenon DEF Objects

\* A copy with another readiness and reason is an LXCMachine.
LEMMA SetReady ==
    ASSUME NEW o \in Objects, NEW b \in BOOLEAN, NEW r \in Reasons
    PROVE  [o EXCEPT !.ready = b, !.cond = r] \in Objects
  BY Zenon DEF Objects

\* A copy with ProviderID and readiness set is an LXCMachine.
LEMMA SetProvisioned ==
    ASSUME NEW o \in Objects
    PROVE  Provisioned(o) \in Objects /\ [Provisioned(o) EXCEPT !.lb = TRUE] \in Objects
  BY Zenon DEF Objects, Provisioned

\* The object Cluster API creates is an LXCMachine.
LEMMA FreshObject == Fresh \in Objects
  BY Zenon DEF Fresh, Objects, Phases, Reasons

\* What the deferred patch writes is an LXCMachine.
LEMMA MergeType ==
    ASSUME NEW o \in Objects, NEW b \in Objects, NEW l \in Objects, NEW ok
    PROVE  Merge(o, b, l, ok) \in Objects
  BY Zenon DEF Merge, Objects, Phases

\* The parts of TypeOK that the generic steps of a worker write.
LEMMA TakeType ==
    ASSUME TypeOK, NEW m \in Names, NEW next \in Pcs, NEW changed \in Objects,
           Take(m, next, changed)
    PROVE  /\ cache' \in [Names -> Objects] /\ base' \in [Names -> Objects]
           /\ loc' \in [Names -> Objects] /\ pc' \in [Names -> Pcs]
           /\ seenDel' \in [Names -> BOOLEAN] /\ want' \in [Names -> SUBSET ControlPlane]
           /\ boot' \in [Names -> BOOLEAN]
           /\ cluster' \in Clusters /\ clusterSeen' \in Clusters
           /\ lbUp' \in BOOLEAN /\ lbFile' \subseteq ControlPlane
           /\ lbLive' \subseteq ControlPlane
  BY Zenon DEF TypeOK, Take, clusterVars, lbVars, Clusters

\* A step of a worker inside reconcileNormal or reconcileDelete keeps the types.
LEMMA StepType ==
    ASSUME TypeOK, NEW m \in Names, NEW from, NEW next \in Pcs, NEW changed \in Objects,
           Step(m, from, next, changed)
    PROVE  /\ InstTypeOK'
           /\ obj' \in [Names -> Objects]
           /\ cache' \in [Names -> Objects] /\ base' \in [Names -> Objects]
           /\ loc' \in [Names -> Objects] /\ pc' \in [Names -> Pcs]
           /\ seenDel' \in [Names -> BOOLEAN]
           /\ boot' \in [Names -> BOOLEAN]
           /\ cluster' \in Clusters /\ clusterSeen' \in Clusters
  BY Zenon DEF TypeOK, InstTypeOK, Step, clusterVars, instVars

\* The initial state is typed.
LEMMA InitType == Init => TypeOK
  <1> SUFFICES ASSUME Init PROVE TypeOK
    BY Zenon
  <1>1. InstTypeOK
    BY Zenon DEF Init, InstInit, InstTypeOK, InstStates, OpKinds, Results
  <1>2. obj \in [Names -> Objects]
    BY FreshObject, Zenon DEF Init
  <1>3. cache = obj /\ base = obj /\ loc = obj
    BY Zenon DEF Init
  <1>4. cluster \in Clusters /\ clusterSeen \in Clusters
    BY Zenon DEF Init, Clusters
  <1>5. pc \in [Names -> Pcs]
    BY Zenon DEF Init, Pcs
  <1>6. seenDel \in [Names -> BOOLEAN] /\ boot \in [Names -> BOOLEAN]
    BY Zenon DEF Init
  <1>7. want \in [Names -> SUBSET ControlPlane]
    BY Zenon DEF Init
  <1>8. lbUp \in BOOLEAN /\ lbFile \subseteq ControlPlane /\ lbLive \subseteq ControlPlane
    BY Zenon DEF Init
  <1> QED  BY <1>1, <1>2, <1>3, <1>4, <1>5, <1>6, <1>7, <1>8, Zenon DEF TypeOK

\* Users, Cluster API and the LXCCluster reconciler keep the types.
LEMMA OutsideType == ASSUME TypeOK, Outside PROVE TypeOK'
  <1>1. ASSUME NEW m \in Names, DeleteMachine(m) PROVE TypeOK'
    <2>1. obj[m] \in Objects
      BY Zenon DEF TypeOK
    <2>2. [obj[m] EXCEPT !.phase = IF obj[m].fin THEN "deleting" ELSE "gone"] \in Objects
      BY <2>1, Zenon DEF Objects, Phases
    <2>3. obj' = [obj EXCEPT ![m] = [obj[m] EXCEPT !.phase = IF obj[m].fin THEN "deleting" ELSE "gone"]]
      BY <1>1, Zenon DEF DeleteMachine
    <2>4. obj' \in [Names -> Objects]
      BY <2>2, <2>3, Zenon DEF TypeOK
    <2> QED  BY <1>1, <2>4, Zenon DEF TypeOK, InstTypeOK, DeleteMachine, instVars, clusterVars, lbVars
  <1>2. ASSUME NEW m \in Names, SetBootstrapData(m) PROVE TypeOK'
    BY <1>2, Zenon DEF TypeOK, InstTypeOK, SetBootstrapData, instVars, clusterVars, lbVars
  <1>3. CASE InfraReady \/ DeleteCluster \/ TogglePause \/ RemoveInfra
    <2>1. cluster' \in Clusters
      BY <1>3, Zenon DEF TypeOK, Clusters, InfraReady, DeleteCluster, TogglePause, RemoveInfra
    <2> QED  BY <1>3, <2>1, Zenon DEF TypeOK, InstTypeOK, InfraReady, DeleteCluster, TogglePause, RemoveInfra,
                    instVars, machineVars, lbVars
  <1>4. CASE RemoveLoadBalancer
    BY <1>4, Zenon DEF TypeOK, InstTypeOK, RemoveLoadBalancer, instVars, machineVars, clusterVars
  <1> QED  BY <1>1, <1>2, <1>3, <1>4, Zenon DEF Outside

\* The first part of Reconcile keeps the types.
LEMMA ReconcileType == ASSUME TypeOK, NEW m \in Names, Reconcile(m) PROVE TypeOK'
  <1> USE DEF TypeOK
  <1>0. /\ cache[m] \in Objects /\ obj[m] \in Objects
        /\ {"Waiting", "InstanceDeleted", "Provisioned", "Deleting"} \subseteq Reasons
        /\ {"launch", "delete", "patch"} \subseteq Pcs
    BY Zenon DEF Reasons, Pcs
  <1>1. CASE ReconcilePaused(m)
    <2>1. PausedStatus \in {"unset", "false", "true"}
      BY Zenon DEF PausedStatus
    <2>2. [obj[m] EXCEPT !.paused = PausedStatus] \in Objects
      BY <1>0, <2>1, SetPaused, Zenon
    <2>3. obj' \in [Names -> Objects]
      BY <1>1, <2>2, Zenon DEF ReconcilePaused
    <2> QED  BY <1>1, <2>3, Zenon DEF ReconcilePaused, InstTypeOK, instVars, clusterVars, lbVars
  <1>2. CASE EnsureFinalizer(m)
    <2>1. [obj[m] EXCEPT !.fin = TRUE] \in Objects
      BY <1>0, SetFin, Zenon
    <2>2. obj' \in [Names -> Objects]
      BY <1>2, <2>1, Zenon DEF EnsureFinalizer
    <2> QED  BY <1>2, <2>2, Zenon DEF EnsureFinalizer, InstTypeOK, instVars, clusterVars, lbVars
  <1>3. CASE ReconcileDelete(m)
    <2>1. /\ [obj[m] EXCEPT !.cond = "Deleting"] \in Objects
          /\ [cache[m] EXCEPT !.cond = "Deleting"] \in Objects
      BY <1>0, SetCond, Zenon
    <2>2. obj' \in [Names -> Objects]
      BY <1>3, <2>1, Zenon DEF ReconcileDelete
    <2>3. InstTypeOK'
      BY <1>3, InstStepType, Zenon DEF ReconcileDelete, InstStep
    <2>4. Take(m, "delete", [cache[m] EXCEPT !.cond = "Deleting"])
      BY <1>3, Zenon DEF ReconcileDelete
    <2> QED  BY <1>0, <2>1, <2>2, <2>3, <2>4, TakeType, Zenon
  <1>4. CASE ReconcileDeleteUnpatched(m)
    <2>1. [cache[m] EXCEPT !.cond = "Deleting"] \in Objects
      BY <1>0, SetCond, Zenon
    <2>2. Take(m, "patch", [cache[m] EXCEPT !.cond = "Deleting"])
      BY <1>4, Zenon DEF ReconcileDeleteUnpatched
    <2> QED  BY <1>0, <1>4, <2>1, <2>2, TakeType, Zenon DEF ReconcileDeleteUnpatched, InstTypeOK, instVars
  <1>5. CASE ReconcileWait(m)
    <2>1. [cache[m] EXCEPT !.cond = "Waiting"] \in Objects
      BY <1>0, SetCond, Zenon
    <2>2. Take(m, "patch", [cache[m] EXCEPT !.cond = "Waiting"])
      BY <1>5, Zenon DEF ReconcileWait
    <2> QED  BY <1>0, <1>5, <2>1, <2>2, TakeType, Zenon DEF ReconcileWait, InstTypeOK, instVars
  <1>6. CASE ReconcileProvisioned(m)
    <2> DEFINE c == IF inst[m] = "absent"
                    THEN [cache[m] EXCEPT !.ready = FALSE, !.cond = "InstanceDeleted"]
                    ELSE [cache[m] EXCEPT !.ready = TRUE, !.cond = "Provisioned"]
    <2>1. c \in Objects
      BY <1>0, SetReady, Zenon
    <2>2. Take(m, "patch", c)
      BY <1>6, Zenon DEF ReconcileProvisioned
    <2> HIDE DEF c
    <2> QED  BY <1>0, <1>6, <2>1, <2>2, TakeType, Zenon DEF ReconcileProvisioned, InstTypeOK, instVars
  <1>7. CASE ReconcileLaunch(m)
    <2>1. Take(m, "launch", cache[m])
      BY <1>7, Zenon DEF ReconcileLaunch
    <2>2. InstTypeOK'
      BY <1>7, InstStepType, Zenon DEF ReconcileLaunch, InstStep
    <2> QED  BY <1>0, <1>7, <2>1, <2>2, TakeType, Zenon DEF ReconcileLaunch
  <1> QED  BY <1>1, <1>2, <1>3, <1>4, <1>5, <1>6, <1>7, Zenon DEF Reconcile

\* The rest of Reconcile, up to its deferred patch, keeps the types.
LEMMA WorkType == ASSUME TypeOK, NEW m \in Names, Work(m) PROVE TypeOK'
  <1> USE DEF TypeOK
  <1>0. /\ loc[m] \in Objects /\ base[m] \in Objects /\ obj[m] \in Objects
        /\ {"Provisioned", "Aborted", "Creating", "Failed"} \subseteq Reasons
        /\ {"list", "write", "reload", "patch"} \subseteq Pcs
    BY Zenon DEF Reasons, Pcs, Reconfiguring
  <1>1. CASE Launched(m)
    <2> DEFINE done == [loc[m] EXCEPT !.cond = "Provisioned"]
    <2>1. done \in Objects
      BY <1>0, SetCond, Zenon
    <2>2. Provisioned(done) \in Objects
      BY <2>1, SetProvisioned, Zenon
    <2>3. Step(m, "launch", "list", done) \/ Step(m, "launch", "patch", Provisioned(done))
      BY <1>1, Zenon DEF Launched
    <2> HIDE DEF done
    <2> QED  BY <1>0, <1>1, <2>1, <2>2, <2>3, StepType, Zenon DEF Launched, lbVars
  <1>2. CASE NotLaunched(m)
    <2>1. LaunchReason[call[m]] \in Reasons
      BY <1>0, <1>2 DEF NotLaunched, LaunchReason
    <2>2. [loc[m] EXCEPT !.cond = LaunchReason[call[m]]] \in Objects
      BY <1>0, <2>1, SetCond, Zenon
    <2>3. Step(m, "launch", "patch", [loc[m] EXCEPT !.cond = LaunchReason[call[m]]])
      BY <1>2, Zenon DEF NotLaunched
    <2> QED  BY <1>0, <1>2, <2>2, <2>3, StepType, Zenon DEF NotLaunched, lbVars
  <1>3. CASE Deleted(m)
    <2>1. [loc[m] EXCEPT !.fin = FALSE] \in Objects
      BY <1>0, SetFin, Zenon
    <2>2. Step(m, "delete", "list", loc[m])
          \/ Step(m, "delete", "patch", [loc[m] EXCEPT !.fin = FALSE])
      BY <1>3, Zenon DEF Deleted
    <2> QED  BY <1>0, <1>3, <2>1, <2>2, StepType, Zenon DEF Deleted, lbVars
  <1>4. CASE NotDeleted(m)
    BY <1>0, <1>4, StepType, Zenon DEF NotDeleted, lbVars
  <1>5. CASE ListBackends(m)
    <2>1. want' \in [Names -> SUBSET ControlPlane]
      BY <1>5, Zenon DEF ListBackends, Backends
    <2> QED  BY <1>0, <1>5, <2>1, StepType, Zenon DEF ListBackends, lbVars
  <1>6. CASE WriteConfig(m)
    BY <1>0, <1>6, StepType, Zenon DEF WriteConfig
  <1>7. CASE Reload(m) \/ ReloadUnread(m)
    <2>1. Configured(m) \in Objects
      BY <1>0, SetFin, SetProvisioned, Zenon DEF Configured
    <2> QED  BY <1>0, <1>7, <2>1, StepType, Zenon DEF Reload, ReloadUnread, lbVars
  <1>8. CASE ReconfigureWithoutLB(m) \/ ReconfigureFails(m)
    BY <1>0, <1>8, StepType, Zenon DEF ReconfigureWithoutLB, ReconfigureFails, lbVars
  <1>9. ASSUME NEW ok, PatchSome(m, ok) PROVE TypeOK'
    <2>1. Merge(obj[m], base[m], loc[m], ok) \in Objects
      BY <1>0, MergeType, Zenon
    <2>2. obj' \in [Names -> Objects]
      BY <1>9, <2>1, Zenon DEF PatchSome
    <2>3. base' \in [Names -> Objects] /\ loc' \in [Names -> Objects]
      BY <1>9, FreshObject, Zenon DEF PatchSome
    <2>4. pc' \in [Names -> Pcs] /\ seenDel' \in [Names -> BOOLEAN]
      BY <1>9, Zenon DEF PatchSome, Pcs
    <2>5. want' \in [Names -> SUBSET ControlPlane]
      BY <1>9, Zenon DEF PatchSome
    <2> QED  BY <1>9, <2>2, <2>3, <2>4, <2>5, Zenon DEF PatchSome, InstTypeOK, instVars, clusterVars, lbVars
  <1> QED  BY <1>1, <1>2, <1>3, <1>4, <1>5, <1>6, <1>7, <1>8, <1>9, Zenon DEF Work, Proceed, Patch, PatchFails

\* A restart of the manager keeps the types.
LEMMA CrashType == ASSUME TypeOK, Crash PROVE TypeOK'
  <1>1. InstTypeOK'
    BY Zenon DEF TypeOK, InstTypeOK, Crash, AbandonCalls, Results
  <1>2. base' \in [Names -> Objects] /\ loc' \in [Names -> Objects]
    BY FreshObject, Zenon DEF Crash
  <1>3. cache' \in [Names -> Objects] /\ obj' \in [Names -> Objects]
    BY Zenon DEF TypeOK, Crash
  <1>4. pc' \in [Names -> Pcs] /\ seenDel' \in [Names -> BOOLEAN]
    BY Zenon DEF Crash, Pcs
  <1>5. want' \in [Names -> SUBSET ControlPlane]
    BY Zenon DEF Crash
  <1> QED  BY <1>1, <1>2, <1>3, <1>4, <1>5, Zenon DEF TypeOK, Crash, lbVars

\* Every step keeps the types.
LEMMA NextType == TypeOK /\ [Next]_vars => TypeOK'
  <1> SUFFICES ASSUME TypeOK, [Next]_vars PROVE TypeOK'
    BY Zenon
  <1>1. ASSUME NEW m \in Names, Observe(m) PROVE TypeOK'
    BY <1>1, Zenon DEF TypeOK, InstTypeOK, Observe, instVars, clusterVars, lbVars
  <1>2. ASSUME NEW m \in Names, Reconcile(m) PROVE TypeOK'
    BY <1>2, ReconcileType, Zenon
  <1>3. ASSUME NEW m \in Names, Work(m) PROVE TypeOK'
    BY <1>3, WorkType, Zenon
  <1>4. ASSUME NEW m \in Names, Instance(m) PROVE TypeOK'
    <2>1. InstTypeOK'
      BY <1>4, InstStepType, Zenon DEF Instance, TypeOK, InstStep
    <2> QED  BY <1>4, <2>1, Zenon DEF TypeOK, Instance, machineVars, clusterVars, lbVars
  <1>5. CASE Outside
    BY <1>5, OutsideType, Zenon
  <1>6. CASE ObserveCluster
    BY <1>6, Zenon DEF TypeOK, InstTypeOK, ObserveCluster, instVars, machineVars, lbVars
  <1>7. CASE Crash
    BY <1>7, CrashType, Zenon
  <1>8. CASE UNCHANGED vars
    BY <1>8, Zenon DEF TypeOK, InstTypeOK, vars, instVars, machineVars, clusterVars, lbVars
  <1> QED  BY <1>1, <1>2, <1>3, <1>4, <1>5, <1>6, <1>7, <1>8, Zenon DEF Next

\* Every variable of the reconciler, its caches and the load balancer keeps its
\* type, whatever Reconcile, the users and the server do.
THEOREM TypeCorrect == Spec => []TypeOK
  BY InitType, NextType, PTL DEF Spec

-----------------------------------------------------------------------------
\* The inductive invariant behind LaunchUnderFinalizer and OrphanHasKnownCause

\* The last delete left nothing behind, or it is known that it did.
Clean(m) == inst[m] # "absent" \/ op[m] = "create" => leak[m]

\* Only an instance can be started or stopped.
ServerInv(m) == op[m] \in {"start", "stop"} => inst[m] # "absent"

\* A deleting object is held by the finalizer; one that never had it has no
\* instance.
ObjectInv(m) ==
    /\ obj[m].phase = "deleting" => obj[m].fin
    /\ obj[m].phase = "gone" => ~obj[m].fin /\ Clean(m)
    /\ obj[m].phase = "live" /\ ~obj[m].fin => inst[m] = "absent" /\ op[m] = "none"

\* What a stale cache entry still tells about the object.
CacheInv(m) ==
    /\ cache[m].phase = "live" /\ cache[m].fin => obj[m].fin
    /\ cache[m].phase = "deleting" => cache[m].fin /\ obj[m].phase # "live"
    /\ cache[m].phase = "gone" => obj[m].phase = "gone"

\* Calls are made by the worker of the machine.
CallInv(m) ==
    /\ call[m] = "launch" => pc[m] = "launch"
    /\ call[m] = "delete" => pc[m] = "delete"

\* A worker that read a live machine holds it by the finalizer and keeps the
\* finalizer; one that read a deleting machine drops it only when Clean.
WorkerInv(m) ==
    pc[m] # "idle" =>
        /\ base[m].fin
        /\ \/ /\ base[m].phase = "live"
              /\ loc[m].fin /\ obj[m].fin
              /\ pc[m] # "delete"
           \/ /\ base[m].phase = "deleting"
              /\ obj[m].phase # "live" /\ cache[m].phase # "live"
              /\ pc[m] # "launch"
              /\ pc[m] = "delete" => loc[m].fin
              /\ \/ pc[m] \in Reconfiguring
                 \/ pc[m] = "patch" /\ ~loc[m].fin
                 \/ pc[m] = "delete" /\ call[m] = "deleted"
                 => Clean(m)

MInv(m) == ServerInv(m) /\ ObjectInv(m) /\ CacheInv(m) /\ CallInv(m) /\ WorkerInv(m)

IInv == TypeOK /\ \A m \in Names : MInv(m)

\* MInv(m) is about the state of m only.
LEMMA Frame ==
    ASSUME NEW m \in Names, MInv(m),
           inst'[m] = inst[m], op'[m] = op[m], call'[m] = call[m], leak'[m] = leak[m],
           obj'[m] = obj[m], cache'[m] = cache[m], base'[m] = base[m], loc'[m] = loc[m],
           pc'[m] = pc[m]
    PROVE  MInv(m)'
  BY Zenon DEF MInv, ServerInv, ObjectInv, CacheInv, CallInv, WorkerInv, Clean

\* The variables MInv depends on are functions on the machines.
LEMMA Functions ==
    ASSUME TypeOK
    PROVE  /\ inst = [n \in Names |-> inst[n]] /\ op = [n \in Names |-> op[n]]
           /\ call = [n \in Names |-> call[n]] /\ leak = [n \in Names |-> leak[n]]
           /\ obj = [n \in Names |-> obj[n]] /\ cache = [n \in Names |-> cache[n]]
           /\ base = [n \in Names |-> base[n]] /\ loc = [n \in Names |-> loc[n]]
           /\ pc = [n \in Names |-> pc[n]]
           /\ \A n \in Names : obj[n] \in Objects /\ cache[n] \in Objects
                               /\ base[n] \in Objects /\ loc[n] \in Objects
  BY Zenon DEF TypeOK, InstTypeOK

\* Users, Cluster API and the LXCCluster reconciler keep the invariant: deleting
\* an LXCMachine that has no finalizer happens only before anything was launched.
LEMMA OutsideInv == ASSUME IInv, Outside PROVE \A m \in Names : MInv(m)'
  <1> SUFFICES ASSUME NEW m \in Names PROVE MInv(m)'
    BY Zenon
  <1>0. TypeOK /\ MInv(m)
    BY Zenon DEF IInv
  <1>1. ASSUME NEW k \in Names, DeleteMachine(k) PROVE MInv(m)'
    <2>1. CASE k # m
      BY <1>0, <1>1, <2>1, Frame, Functions, Zenon DEF DeleteMachine, instVars
    <2>2. CASE k = m
      <3>1. obj'[m] = [obj[m] EXCEPT !.phase = IF obj[m].fin THEN "deleting" ELSE "gone"]
        BY <1>0, <1>1, <2>2, Functions, Zenon DEF DeleteMachine
      <3>2. obj[m].phase = "live" /\ obj[m] \in Objects
        BY <1>0, <1>1, <2>2, Functions, Zenon DEF DeleteMachine
      <3>3. /\ obj'[m].phase = (IF obj[m].fin THEN "deleting" ELSE "gone")
            /\ obj'[m].fin = obj[m].fin
        BY <3>1, <3>2, Zenon DEF Objects
      <3>4. UNCHANGED <<inst, op, call, leak, cache, base, loc, pc>>
        BY <1>1, Zenon DEF DeleteMachine, instVars
      <3> QED  BY <1>0, <3>2, <3>3, <3>4, Zenon
                DEF MInv, ServerInv, ObjectInv, CacheInv, CallInv, WorkerInv, Clean
    <2> QED  BY <2>1, <2>2, Zenon
  <1>2. CASE \E k \in Names : SetBootstrapData(k)
    BY <1>0, <1>2, Frame, Zenon DEF SetBootstrapData, instVars
  <1>3. CASE InfraReady \/ DeleteCluster \/ RemoveLoadBalancer \/ TogglePause \/ RemoveInfra
    BY <1>0, <1>3, Frame, Zenon DEF InfraReady, DeleteCluster, RemoveLoadBalancer, TogglePause, RemoveInfra,
                             instVars, machineVars
  <1> QED  BY <1>1, <1>2, <1>3, Zenon DEF Outside

\* The informer copy may be replaced by the object at any time.
LEMMA ObserveInv == ASSUME IInv, NEW k \in Names, Observe(k) PROVE \A m \in Names : MInv(m)'
  <1> SUFFICES ASSUME NEW m \in Names PROVE MInv(m)'
    BY Zenon
  <1>0. TypeOK /\ MInv(m)
    BY Zenon DEF IInv
  <1>1. CASE k # m
    BY <1>0, <1>1, Frame, Functions, Zenon DEF Observe, instVars
  <1>2. CASE k = m
    <2>1. cache'[m] = obj[m] /\ obj[m] \in Objects
      BY <1>0, <1>2, Functions, Zenon DEF Observe
    <2>2. UNCHANGED <<inst, op, call, leak, obj, base, loc, pc>>
      BY Zenon DEF Observe, instVars
    <2> QED  BY <1>0, <2>1, <2>2, Zenon
              DEF MInv, ServerInv, ObjectInv, CacheInv, CallInv, WorkerInv, Clean, Objects, Phases
  <1> QED  BY <1>1, <1>2, Zenon

\* A restart forgets copies and calls, never what is Clean.
LEMMA CrashInv == ASSUME IInv, Crash PROVE \A m \in Names : MInv(m)'
  <1> SUFFICES ASSUME NEW m \in Names PROVE MInv(m)'
    BY Zenon
  <1>0. TypeOK /\ MInv(m) /\ obj[m] \in Objects
    BY Zenon DEF IInv, TypeOK
  <1>1. /\ UNCHANGED <<inst, op, leak, obj>>
        /\ call'[m] = "idle" /\ pc'[m] = "idle" /\ cache'[m] = obj[m]
    BY Zenon DEF Crash, AbandonCalls
  <1> QED  BY <1>0, <1>1, Zenon
            DEF MInv, ServerInv, ObjectInv, CacheInv, CallInv, WorkerInv, Clean, Objects, Phases

\* The server and the calls in progress keep the invariant.
LEMMA InstanceInv == ASSUME IInv, NEW k \in Names, Instance(k) PROVE \A m \in Names : MInv(m)'
  <1> SUFFICES ASSUME NEW m \in Names PROVE MInv(m)'
    BY Zenon
  <1>0. TypeOK /\ MInv(m)
    BY Zenon DEF IInv
  <1>1. UNCHANGED <<obj, cache, base, loc, pc>>
    BY Zenon DEF Instance, machineVars
  <1>2. CASE k # m
    <2>1. inst'[m] = inst[m] /\ op'[m] = op[m] /\ call'[m] = call[m] /\ leak'[m] = leak[m]
      BY <1>0, <1>2, Functions, Zenon
         DEF Instance, Server, OpDone, OpFail, AddressUp, Vanish,
             Progress, AcceptCreate, AcceptStart, AcceptStop, AcceptDelete, Accept, LoseFailure,
             ReturnLaunched, ReturnTerminal, ReturnDeadline, ReturnError, ReturnDeleted
    <2> QED  BY <1>0, <1>1, <2>1, Frame, Zenon
  <1>3. CASE k = m
    <2> USE DEF MInv, ServerInv, ObjectInv, CacheInv, CallInv, WorkerInv, Clean
    <2>0. obj[m].phase \in Phases
      BY <1>0, Functions, Zenon DEF Objects
    <2>1. CASE OpDone(m)
      <3>1. op[m] \in OpKinds
        BY <1>0, Zenon DEF TypeOK, InstTypeOK
      <3>2. op[m] # "none" /\ inst'[m] = After(op[m]) /\ op'[m] = "none" /\ UNCHANGED <<call, leak>>
        BY <1>0, <2>1, Functions, Zenon DEF OpDone
      <3>3. inst'[m] # "absent" => op[m] \in {"create", "start", "stop"}
        BY <3>1, <3>2, Zenon DEF After, OpKinds
      <3> QED  BY <1>0, <1>1, <2>0, <3>2, <3>3, Zenon DEF Phases
    <2>2. CASE OpFail(m)
      <3>1. op'[m] = "none" /\ op[m] # "none" /\ UNCHANGED <<inst, call, leak>>
        BY <1>0, <2>2, Functions, Zenon DEF OpFail
      <3> QED  BY <1>0, <1>1, <3>1, Zenon
    <2>3. CASE AddressUp(m)
      <3>1. inst'[m] = "up" /\ inst[m] = "running" /\ op[m] = "none" /\ UNCHANGED <<op, call, leak>>
        BY <1>0, <2>3, Functions, Zenon DEF AddressUp
      <3> QED  BY <1>0, <1>1, <3>1, Zenon
    <2>4. CASE Vanish(m)
      <3>1. inst'[m] = "absent" /\ op[m] = "none" /\ UNCHANGED <<op, call, leak>>
        BY <1>0, <2>4, Functions, Zenon DEF Vanish
      <3> QED  BY <1>0, <1>1, <3>1, Zenon
    <2>5. CASE AcceptCreate(m) \/ AcceptStart(m)
      <3>1. /\ call[m] = "launch" /\ op'[m] \in {"create", "start"}
            /\ op'[m] = "start" => inst[m] # "absent"
            /\ UNCHANGED <<inst, call, leak>>
        BY <1>0, <2>5, Functions, Zenon DEF AcceptCreate, AcceptStart, Accept
      <3> QED  BY <1>0, <1>1, <2>0, <3>1, Zenon DEF Phases, Reconfiguring
    <2>6. CASE AcceptStop(m) \/ AcceptDelete(m)
      <3>1. /\ call[m] = "delete" /\ op'[m] \in {"stop", "delete"} /\ inst[m] # "absent"
            /\ UNCHANGED <<inst, call, leak>>
        BY <1>0, <2>6, Functions, Zenon DEF AcceptStop, AcceptDelete, Accept, Running
      <3> QED  BY <1>0, <1>1, <2>0, <3>1, Zenon DEF Phases, Reconfiguring
    <2>7. CASE LoseFailure(m)
      BY <1>0, <1>1, <2>7, Zenon DEF LoseFailure
    <2>8. CASE ReturnLaunched(m) \/ ReturnTerminal(m) \/ ReturnDeadline(m) \/ ReturnError(m)
      <3>1. call'[m] \in {"launched", "terminal", "deadline", "error"} /\ UNCHANGED <<inst, op, leak>>
        BY <1>0, <2>8, Functions, Zenon DEF ReturnLaunched, ReturnTerminal, ReturnDeadline, ReturnError
      <3> QED  BY <1>0, <1>1, <3>1, Zenon
    <2>9. CASE ReturnDeleted(m)
      <3>1. /\ call'[m] = "deleted" /\ UNCHANGED <<inst, op>>
            /\ leak'[m] = (inst[m] # "absent" \/ op[m] = "create")
        BY <1>0, <2>9, Functions, Zenon DEF ReturnDeleted
      <3> QED  BY <1>0, <1>1, <3>1, Zenon
    <2> QED  BY <1>3, <2>1, <2>2, <2>3, <2>4, <2>5, <2>6, <2>7, <2>8, <2>9, Zenon
              DEF Instance, Server, Progress
  <1> QED  BY <1>2, <1>3, Zenon

\* Whatever the informer copy shows, the first part of Reconcile keeps the
\* invariant.
LEMMA ReconcileInv == ASSUME IInv, NEW k \in Names, Reconcile(k) PROVE \A m \in Names : MInv(m)'
  <1> SUFFICES ASSUME NEW m \in Names PROVE MInv(m)'
    BY Zenon
  <1>0. TypeOK /\ MInv(m)
    BY Zenon DEF IInv
  <1>1. CASE k # m
    BY <1>0, <1>1, Frame, Functions, Zenon
       DEF Reconcile, ReconcilePaused, EnsureFinalizer, ReconcileDelete, ReconcileDeleteUnpatched,
           ReconcileWait, ReconcileProvisioned, ReconcileLaunch, Take, BeginLaunch, BeginDelete, instVars
  <1>2. CASE k = m
    <2> USE DEF MInv, ServerInv, ObjectInv, CacheInv, CallInv, WorkerInv, Clean
    <2>0. obj[m] \in Objects /\ cache[m] \in Objects
      BY <1>0, Functions, Zenon
    <2>1. CASE ReconcilePaused(m)
      <3>1. obj'[m] = [obj[m] EXCEPT !.paused = PausedStatus]
        BY <1>0, <2>1, Functions, Zenon DEF ReconcilePaused
      <3>2. obj'[m].phase = obj[m].phase /\ obj'[m].fin = obj[m].fin
        BY <2>0, <3>1, Zenon DEF Objects
      <3> QED  BY <1>0, <2>1, <3>2, Zenon DEF ReconcilePaused, instVars
    <2>2. CASE EnsureFinalizer(m)
      <3>1. obj'[m] = [obj[m] EXCEPT !.fin = TRUE] /\ obj[m].phase = "live" /\ pc[m] = "idle"
        BY <1>0, <2>2, Functions, Zenon DEF EnsureFinalizer, Active, Dispatch
      <3>2. obj'[m].phase = "live" /\ obj'[m].fin
        BY <2>0, <3>1, Zenon DEF Objects
      <3> QED  BY <1>0, <2>2, <3>1, <3>2, Zenon DEF EnsureFinalizer, instVars
    <2>3. CASE ReconcileDelete(m)
      <3>1. /\ obj'[m].phase = obj[m].phase /\ obj'[m].fin = obj[m].fin
            /\ [cache[m] EXCEPT !.cond = "Deleting"].fin = cache[m].fin
        <4>1. obj'[m] = obj[m] \/ obj'[m] = [obj[m] EXCEPT !.cond = "Deleting"]
          BY <1>0, <2>3, Functions, Zenon DEF ReconcileDelete
        <4> QED  BY <2>0, <4>1, Zenon DEF Objects
      <3>2. /\ cache[m].phase = "deleting"
            /\ base'[m] = cache[m] /\ loc'[m].fin = cache[m].fin /\ pc'[m] = "delete"
            /\ call'[m] = "delete"
            /\ UNCHANGED <<cache, inst, op, leak>>
        BY <1>0, <2>3, <3>1, Functions, Zenon DEF ReconcileDelete, Take, BeginDelete
      <3> QED  BY <1>0, <3>1, <3>2, Zenon DEF Reconfiguring
    <2>4. CASE ReconcileDeleteUnpatched(m)
      <3>1. [cache[m] EXCEPT !.cond = "Deleting"].fin = cache[m].fin
        BY <2>0, Zenon DEF Objects
      <3>2. /\ cache[m].phase = "deleting" /\ pc[m] = "idle"
            /\ base'[m] = cache[m] /\ loc'[m].fin = cache[m].fin /\ pc'[m] = "patch"
            /\ UNCHANGED <<cache, obj, inst, op, call, leak>>
        BY <1>0, <2>4, <3>1, Functions, Zenon
           DEF ReconcileDeleteUnpatched, Take, instVars, Active, Dispatch
      <3> QED  BY <1>0, <3>2, Zenon DEF Reconfiguring
    <2>5. CASE ReconcileWait(m) \/ ReconcileProvisioned(m)
      <3>1. /\ [cache[m] EXCEPT !.cond = "Waiting"].fin = cache[m].fin
            /\ [cache[m] EXCEPT !.ready = FALSE, !.cond = "InstanceDeleted"].fin = cache[m].fin
            /\ [cache[m] EXCEPT !.ready = TRUE, !.cond = "Provisioned"].fin = cache[m].fin
        BY <2>0, Zenon DEF Objects
      <3>2. /\ cache[m].phase = "live" /\ cache[m].fin /\ pc[m] = "idle"
            /\ base'[m] = cache[m] /\ loc'[m].fin = cache[m].fin /\ pc'[m] = "patch"
            /\ UNCHANGED <<cache, obj, inst, op, call, leak>>
        BY <1>0, <2>5, <3>1, Functions, Zenon
           DEF ReconcileWait, ReconcileProvisioned, Take, instVars, NormalGuard, Active, Dispatch
      <3> QED  BY <1>0, <3>2, Zenon
    <2>6. CASE ReconcileLaunch(m)
      <3>1. /\ cache[m].phase = "live" /\ cache[m].fin /\ pc[m] = "idle"
            /\ base'[m] = cache[m] /\ loc'[m] = cache[m] /\ pc'[m] = "launch"
            /\ call'[m] = "launch"
            /\ UNCHANGED <<cache, obj, inst, op, leak>>
        BY <1>0, <2>6, Functions, Zenon DEF ReconcileLaunch, Take, BeginLaunch, NormalGuard, Active, Dispatch
      <3> QED  BY <1>0, <3>1, Zenon
    <2> QED  BY <1>2, <2>1, <2>2, <2>3, <2>4, <2>5, <2>6, Zenon DEF Reconcile
  <1> QED  BY <1>1, <1>2, Zenon

\* A step of a worker that keeps the finalizer in its copy.
LEMMA StepInv ==
    ASSUME IInv, NEW m \in Names, NEW from \in Pcs \ {"idle"}, NEW next, NEW changed,
           Step(m, from, next, changed),
           next \in Reconfiguring \/ next = "patch",
           call[m] \notin Calls,
           changed.fin = loc[m].fin,
           base[m].phase = "deleting" /\ next \in Reconfiguring => Clean(m),
           base[m].phase = "deleting" /\ ~changed.fin => Clean(m)
    PROVE  MInv(m)'
  <1>0. TypeOK /\ MInv(m)
    BY Zenon DEF IInv
  <1>1. /\ pc[m] = from /\ pc'[m] = next /\ loc'[m] = changed
        /\ UNCHANGED <<inst, op, call, leak, obj, cache, base>>
    BY <1>0, Functions, Zenon DEF Step, instVars
  <1> QED  BY <1>0, <1>1, Zenon
            DEF MInv, ServerInv, ObjectInv, CacheInv, CallInv, WorkerInv, Clean, Calls, Reconfiguring

\* The step of a worker that is done: the finalizer is dropped from the copy
\* of a deleting machine that is Clean, and kept in the copy of a live one.
LEMMA DoneInv ==
    ASSUME IInv, NEW m \in Names, NEW from \in Pcs \ {"idle"}, NEW changed,
           Step(m, from, "patch", changed),
           call[m] \notin Calls,
           base[m].phase = "live" => changed.fin = loc[m].fin,
           base[m].phase = "deleting" => Clean(m)
    PROVE  MInv(m)'
  <1>0. TypeOK /\ MInv(m)
    BY Zenon DEF IInv
  <1>1. /\ pc[m] = from /\ pc'[m] = "patch" /\ loc'[m] = changed
        /\ UNCHANGED <<inst, op, call, leak, obj, cache, base>>
    BY <1>0, Functions, Zenon DEF Step, instVars
  <1> QED  BY <1>0, <1>1, Zenon
            DEF MInv, ServerInv, ObjectInv, CacheInv, CallInv, WorkerInv, Clean, Calls, Reconfiguring

\* The deferred patch keeps the invariant, whichever of its writes succeed.
LEMMA PatchInv ==
    ASSUME IInv, NEW m \in Names, NEW ok, PatchSome(m, ok)
    PROVE  MInv(m)'
  <1> DEFINE new == Merge(obj[m], base[m], loc[m], ok)
  <1>0. /\ TypeOK /\ MInv(m)
        /\ obj[m] \in Objects /\ cache[m] \in Objects /\ base[m] \in Objects /\ loc[m] \in Objects
    BY Functions, Zenon DEF IInv
  <1>1. /\ pc[m] = "patch" /\ pc'[m] = "idle"
        /\ UNCHANGED <<inst, op, call, leak, cache>>
        /\ obj'[m] = (IF obj[m].phase = "gone" THEN obj[m] ELSE new)
    BY <1>0, Functions, Zenon DEF PatchSome, instVars
  <1>2. /\ new.fin = (IF "object" \in ok /\ loc[m].fin # base[m].fin THEN loc[m].fin ELSE obj[m].fin)
        /\ new.phase = (IF obj[m].phase = "deleting" /\ ~new.fin THEN "gone" ELSE obj[m].phase)
    BY Zenon DEF Merge
  <1> HIDE DEF new
  <1>3. CASE obj[m].phase = "gone" \/ new.fin = obj[m].fin
    <2>1. obj'[m].phase = obj[m].phase /\ obj'[m].fin = obj[m].fin
      BY <1>0, <1>1, <1>2, <1>3, Zenon DEF MInv, ObjectInv
    <2> QED  BY <1>0, <1>1, <2>1, Zenon DEF MInv, ServerInv, ObjectInv, CacheInv, CallInv, WorkerInv, Clean
  <1>4. CASE obj[m].phase # "gone" /\ new.fin # obj[m].fin
    <2>1. base[m].phase = "deleting" /\ ~loc[m].fin /\ new.fin = loc[m].fin
      BY <1>0, <1>1, <1>2, <1>4, Zenon DEF MInv, WorkerInv, Objects
    <2>2. obj[m].phase = "deleting" /\ cache[m].phase # "live" /\ Clean(m)
      BY <1>0, <1>1, <1>4, <2>1, Zenon DEF MInv, WorkerInv, Objects, Phases
    <2>3. obj'[m].phase = "gone" /\ ~obj'[m].fin
      BY <1>1, <1>2, <1>4, <2>1, <2>2, Zenon
    <2> QED  BY <1>0, <1>1, <2>2, <2>3, Zenon DEF MInv, ServerInv, ObjectInv, CacheInv, CallInv, WorkerInv, Clean
  <1> QED  BY <1>3, <1>4, Zenon

\* The rest of Reconcile keeps the invariant.
LEMMA WorkInv == ASSUME IInv, NEW k \in Names, Work(k) PROVE \A m \in Names : MInv(m)'
  <1> SUFFICES ASSUME NEW m \in Names PROVE MInv(m)'
    BY Zenon
  <1>0. TypeOK /\ MInv(m) /\ loc[m] \in Objects
    BY Functions, Zenon DEF IInv
  <1>1. CASE k # m
    BY <1>0, <1>1, Frame, Functions, Zenon
       DEF Work, Proceed, Launched, NotLaunched, Deleted, NotDeleted, ListBackends, WriteConfig, Reload,
           ReloadUnread, ReconfigureWithoutLB, ReconfigureFails, Patch, PatchFails, PatchSome, Step, instVars
  <1>2. CASE k = m
    <2>0. /\ {"launch", "delete", "list", "write", "reload"} \subseteq Pcs \ {"idle"}
          /\ {"list", "write", "reload"} = Reconfiguring
          /\ pc[m] \in Reconfiguring => call[m] \notin Calls
          /\ pc[m] \in Reconfiguring /\ base[m].phase = "deleting" => Clean(m)
      BY <1>0, Zenon DEF Pcs, Reconfiguring, Calls, MInv, CallInv, WorkerInv
    <2>1. CASE Launched(m)
      <3> DEFINE done == [loc[m] EXCEPT !.cond = "Provisioned"]
      <3>1. done.fin = loc[m].fin /\ Provisioned(done).fin = loc[m].fin
        BY <1>0, Zenon DEF Provisioned, Objects
      <3>2. \E next \in {"list", "patch"}, c \in {done, Provisioned(done)} : Step(m, "launch", next, c)
        BY <2>1, Zenon DEF Launched
      <3> HIDE DEF done
      <3>3. base[m].phase = "live" /\ call[m] \notin Calls
        BY <1>0, <2>1, <3>2, Zenon DEF Launched, Step, Calls, MInv, WorkerInv
      <3> QED  BY <2>0, <3>1, <3>2, <3>3, StepInv, Zenon
    <2>2. CASE NotLaunched(m)
      <3>1. [loc[m] EXCEPT !.cond = LaunchReason[call[m]]].fin = loc[m].fin
        BY <1>0, Zenon DEF Objects
      <3>2. Step(m, "launch", "patch", [loc[m] EXCEPT !.cond = LaunchReason[call[m]]])
        BY <2>2, Zenon DEF NotLaunched
      <3>3. base[m].phase = "live" /\ call[m] \notin Calls
        BY <1>0, <2>2, <3>2, Zenon DEF NotLaunched, LaunchReason, Step, Calls, MInv, WorkerInv
      <3> QED  BY <2>0, <3>1, <3>2, <3>3, StepInv, Zenon
    <2>3. CASE Deleted(m)
      <3>1. pc[m] = "delete" /\ call[m] = "deleted" /\ call[m] \notin Calls
        BY <2>3, Zenon DEF Deleted, Step, Calls
      <3>2. base[m].phase = "deleting" /\ Clean(m)
        BY <1>0, <3>1, Zenon DEF MInv, WorkerInv
      <3>3. Step(m, "delete", "list", loc[m])
            \/ Step(m, "delete", "patch", [loc[m] EXCEPT !.fin = FALSE])
        BY <2>3, Zenon DEF Deleted
      <3> QED  BY <2>0, <3>1, <3>2, <3>3, StepInv, DoneInv, Zenon
    <2>4. CASE NotDeleted(m)
      <3>1. pc[m] = "delete" /\ call[m] \notin Calls /\ Step(m, "delete", "patch", loc[m])
        BY <2>4, Zenon DEF NotDeleted, Step, Calls
      <3>2. loc[m].fin
        BY <1>0, <3>1, Zenon DEF MInv, WorkerInv
      <3> QED  BY <2>0, <3>1, <3>2, StepInv, Zenon DEF Reconfiguring
    <2>5. CASE ListBackends(m) \/ WriteConfig(m) \/ ReconfigureWithoutLB(m) \/ ReconfigureFails(m)
      <3>1. \E from \in Reconfiguring, next \in {"write", "reload", "patch"} : Step(m, from, next, loc[m])
        BY <2>0, <2>5, Zenon DEF ListBackends, WriteConfig, ReconfigureWithoutLB, ReconfigureFails
      <3>2. pc[m] \in Reconfiguring
        BY <3>1, Zenon DEF Step
      <3> QED  BY <2>0, <3>1, <3>2, StepInv, Zenon
    <2>6. CASE Reload(m) \/ ReloadUnread(m)
      <3>1. Step(m, "reload", "patch", Configured(m))
        BY <2>6, Zenon DEF Reload, ReloadUnread
      <3>2. pc[m] = "reload"
        BY <3>1, Zenon DEF Step
      <3>3. base[m].phase = "live" => Configured(m).fin = loc[m].fin
        BY <1>0, Zenon DEF Configured, Provisioned, Objects
      <3> QED  BY <2>0, <3>1, <3>2, <3>3, DoneInv, Zenon
    <2>7. CASE Patch(m) \/ PatchFails(m)
      BY <2>7, PatchInv, Zenon DEF Patch, PatchFails
    <2> QED  BY <1>2, <2>1, <2>2, <2>3, <2>4, <2>5, <2>6, <2>7, Zenon DEF Work, Proceed
  <1> QED  BY <1>1, <1>2, Zenon

\* The invariant holds initially.
LEMMA InitInv == Init => IInv
  <1> SUFFICES ASSUME Init, NEW m \in Names PROVE MInv(m)
    BY InitType, Zenon DEF IInv
  <1>1. /\ inst[m] = "absent" /\ op[m] = "none" /\ call[m] = "idle" /\ pc[m] = "idle"
        /\ obj[m] = Fresh /\ cache[m] = Fresh
    BY Zenon DEF Init, InstInit
  <1> QED  BY <1>1, SMTT(30) DEF MInv, ServerInv, ObjectInv, CacheInv, CallInv, WorkerInv, Clean, Fresh

\* The invariant is inductive.
LEMMA NextInv == IInv /\ [Next]_vars => IInv'
  <1> SUFFICES ASSUME IInv, [Next]_vars PROVE \A m \in Names : MInv(m)'
    BY NextType, Zenon DEF IInv
  <1>1. CASE UNCHANGED vars \/ ObserveCluster
    <2>1. UNCHANGED <<inst, op, call, leak, obj, cache, base, loc, pc>>
      BY <1>1, Zenon DEF vars, ObserveCluster, instVars, machineVars
    <2> QED  BY <2>1, Frame, Zenon DEF IInv
  <1>2. CASE Outside
    BY <1>2, OutsideInv, Zenon
  <1>3. CASE Crash
    BY <1>3, CrashInv, Zenon
  <1>4. ASSUME NEW k \in Names, Observe(k) \/ Reconcile(k) \/ Work(k) \/ Instance(k)
        PROVE  \A m \in Names : MInv(m)'
    BY <1>4, ObserveInv, ReconcileInv, WorkInv, InstanceInv, Zenon
  <1> QED  BY <1>1, <1>2, <1>3, <1>4, Zenon DEF Next

\* The invariant holds in every reachable state.
LEMMA Invariance == Spec => []IInv
  BY InitInv, NextInv, PTL DEF Spec

\* EnsureFinalizer at controller.go:140 does what it is there for: whatever the
\* informer cache shows, however often the manager crashes and whichever writes
\* fail, an instance is only launched while the finalizer keeps the LXCMachine.
THEOREM LaunchHeldByFinalizer == Spec => []LaunchUnderFinalizer
  <1>1. IInv => LaunchUnderFinalizer
    <2> SUFFICES ASSUME IInv, NEW m \in Names, call[m] = "launch" PROVE obj[m].fin
      BY Zenon DEF LaunchUnderFinalizer
    <2> QED  BY Zenon DEF IInv, MInv, CallInv, WorkerInv
  <1> QED  BY <1>1, Invariance, PTL

\* An instance without an LXCMachine is always one that WaitForDeleteInstance
\* left behind when it last reported success: reconcileDelete, with its retries,
\* partial patches, stale reads and restarts, adds no leak of its own.
THEOREM OrphansAreLeaks == Spec => []OrphanHasKnownCause
  <1>1. IInv => OrphanHasKnownCause
    BY Zenon DEF IInv, MInv, ObjectInv, Clean, OrphanHasKnownCause
  <1> QED  BY <1>1, Invariance, PTL

-----------------------------------------------------------------------------
\* The reconciler and its environment use instances only as the contract allows.
LEMMA StepKeepsContract == [Next]_vars => [InstNext]_instVars
  <1> SUFFICES ASSUME [Next]_vars PROVE InstNext \/ UNCHANGED instVars
    BY Zenon
  <1>1. ASSUME NEW k \in Names, Work(k) \/ Observe(k) PROVE UNCHANGED instVars
    BY <1>1, Zenon DEF Observe, Work, Proceed, Launched, NotLaunched, Deleted, NotDeleted, ListBackends, WriteConfig,
                Reload, ReloadUnread, ReconfigureWithoutLB, ReconfigureFails, Patch, PatchFails,
                PatchSome, Step
  <1>2. ASSUME NEW k \in Names, Reconcile(k)
        PROVE  UNCHANGED instVars \/ BeginLaunch(k) \/ BeginDelete(k)
    BY <1>2, Zenon DEF Reconcile, ReconcilePaused, EnsureFinalizer, ReconcileDelete,
                ReconcileDeleteUnpatched, ReconcileWait, ReconcileProvisioned, ReconcileLaunch
  <1>3. CASE Outside \/ ObserveCluster \/ UNCHANGED vars
    BY <1>3, Zenon DEF Outside, DeleteMachine, SetBootstrapData, InfraReady, DeleteCluster,
                RemoveLoadBalancer, TogglePause, RemoveInfra, ObserveCluster, vars
  <1>4. ASSUME NEW k \in Names, Instance(k) PROVE Server(k) \/ Progress(k)
    BY <1>4, Zenon DEF Instance
  <1>5. CASE Crash
    BY <1>5, Zenon DEF Crash, InstNext
  <1> QED  BY <1>1, <1>2, <1>3, <1>4, <1>5, Zenon DEF Next, InstNext

\* The LXCMachine reconciler uses internal/lxc as the contract says: one call per
\* instance at a time, and nothing but calls.
LEMMA KeepsInstanceContract == Spec => InstSpec
  <1>1. Init => InstInit
    BY Zenon DEF Init
  <1> QED  BY <1>1, StepKeepsContract, PTL DEF Spec, InstSpec

\* controller_delete.go:47, "Machine is deleted so remove the finalizer", is true
\* as long as no call is cut off from its operation: once the LXCMachine is gone
\* no instance is left, through failed requests and operations, partial patches,
\* stale reads and instances that others remove.
THEOREM FinalizedWhenTracked == ASSUME Tracked PROVE Spec => []FinalizedMeansGone
  <1>1. NoLeak /\ OrphanHasKnownCause => FinalizedMeansGone
    BY Zenon DEF NoLeak, OrphanHasKnownCause, FinalizedMeansGone
  <1>2. InstSpec => []NoLeak
    BY TrackedLeavesNothing, Zenon
  <1> QED  BY <1>1, <1>2, KeepsInstanceContract, OrphansAreLeaks, PTL

-----------------------------------------------------------------------------
\* The load balancer follows the control plane when one worker does all the work

\* What the proofs above say of every reachable state.
Steady == IInv /\ Fitting /\ NoLeak

\* Nobody removes instances behind the manager's back, no call is cut off from its
\* operation, and the manager runs one worker.
Calm == Tracked /\ "vanish" \notin Faults /\ Concurrency = 1

\* One machine at a time is worked on.
Alone == \A j, k \in Names : pc[j] # "idle" /\ pc[k] # "idle" => j = k

\* The worker of k has listed the backends and not yet reloaded the proxy.
Fixing(k) == pc[k] \in {"write", "reload"}

\* What the manager saw of the cluster stays true of it, the load balancer comes
\* with the infrastructure, and a reload makes the list of its own worker active.
LBInv ==
    /\ clusterSeen.infra = "ready" \/ lbUp => cluster.infra # "pending"
    /\ clusterSeen.deleting => cluster.deleting
    /\ \A k \in Names : /\ seenDel[k] => cluster.deleting
                        /\ pc[k] = "reload" => cluster.infra # "pending"
                        /\ pc[k] = "reload" /\ lbUp => lbFile = want[k]

\* m is a backend, and stays one after the reconfiguration in progress.
Listed(m) == m \in lbLive /\ \A k \in Names : Fixing(k) => m \in want[k]

\* m is no backend, and does not become one.
Unlisted(m) == m \notin lbLive /\ \A k \in Names : Fixing(k) => m \notin want[k]

\* Some copy of the LXCMachine has its ProviderID or LoadBalancerConfigured.
HasMark(o) == o.provider \/ o.lb
Marked(m) == HasMark(obj[m]) \/ HasMark(cache[m]) \/ HasMark(loc[m])

\* As long as the manager takes m for live nobody stops its instance: once up it
\* stays up, and it is a backend before any copy of the LXCMachine is marked.
ServedInv(m) ==
    cache[m].phase = "live" =>
        /\ op[m] \notin {"stop", "delete"}
        /\ pc[m] \in Reconfiguring \cup {"launch"} => cluster.infra # "pending"
        /\ pc[m] \in Reconfiguring \/ (pc[m] = "launch" /\ call[m] = "launched") => inst[m] = "up"
        /\ Fixing(m) => m \in want[m]
        /\ Marked(m) => inst[m] = "up" /\ cluster.infra # "pending" /\ (lbUp => Listed(m))

\* m is off the load balancer before its finalizer is, unless the cluster goes.
GoneInv(m) ==
    /\ obj[m].phase = "live" /\ ~obj[m].fin => Unlisted(m)
    /\ obj[m].phase = "gone" => cluster.deleting \/ Unlisted(m)
    /\ pc[m] # "idle" /\ base[m].phase = "deleting" =>
        /\ pc[m] \in Reconfiguring => loc[m].fin
        /\ Fixing(m) => m \notin want[m]
        /\ pc[m] = "patch" /\ ~loc[m].fin => cluster.deleting \/ Unlisted(m)

BInv == Alone /\ LBInv /\ \A m \in ControlPlane : ServedInv(m) /\ GoneInv(m)

\* A machine is dispatched to the only worker when no other is.
LEMMA OneWorker ==
    ASSUME Concurrency = 1, NEW m \in Names, Dispatch(m)
    PROVE  \A k \in Names : pc[k] = "idle"
  <1> DEFINE busy == {k \in Names : pc[k] # "idle"}
  <1>1. IsFiniteSet(busy)
    BY MachineAssumption, FS_Subset, Zenon
  <1>2. Cardinality(busy) < 1
    BY Zenon DEF Dispatch
  <1>3. Cardinality(busy) \in Nat
    BY <1>1, FS_CardinalityType, Zenon
  <1>4. Cardinality(busy) = 0
    <2> HIDE DEF busy
    <2> QED  BY <1>2, <1>3
  <1> QED  BY <1>1, <1>4, FS_EmptySet, Zenon

\* Nothing changes about the worker of m and what it has listed.
SameWorker(m) == pc'[m] = pc[m] /\ base'[m] = base[m] /\ loc'[m] = loc[m] /\ want'[m] = want[m]
                 /\ seenDel'[m] = seenDel[m]

\* Two copies of an LXCMachine agree on what the invariants read of them.
Alike(o, p) == o.phase = p.phase /\ o.fin = p.fin /\ o.provider = p.provider /\ o.lb = p.lb

\* What Reconcile makes of the worker of m, as far as the invariant tells.
Taken(m) ==
    /\ \A k \in Names : pc[k] = "idle" /\ (k # m => pc'[k] = "idle")
    /\ pc'[m] \in {"launch", "delete", "patch"}
    /\ base'[m] = cache[m] /\ Alike(loc'[m], cache[m])
    /\ seenDel'[m] = clusterSeen.deleting
    /\ pc'[m] = "launch" => clusterSeen.infra = "ready" /\ call'[m] # "launched"
    /\ cache'[m] = cache[m]

\* What the other steps make of it.
Moved(m) ==
    /\ base'[m] = base[m] /\ seenDel'[m] = seenDel[m]
    /\ \/ pc[m] = "launch" /\ call[m] = "launched" /\ pc'[m] = "list" /\ Alike(loc'[m], loc[m])
       \/ pc[m] = "launch" /\ pc'[m] = "patch" /\ Alike(loc'[m], loc[m])
       \/ pc[m] = "launch" /\ pc'[m] = "patch" /\ (m \in ControlPlane => loc[m].lb)
       \/ pc[m] = "delete" /\ pc'[m] = "list" /\ loc'[m] = loc[m]
       \/ pc[m] = "delete" /\ pc'[m] = "patch" /\ loc'[m] = loc[m]
       \/ pc[m] = "delete" /\ pc'[m] = "patch" /\ (m \in ControlPlane => seenDel[m])
       \/ pc[m] = "list" /\ pc'[m] = "write" /\ loc'[m] = loc[m] /\ want'[m] = Backends
       \/ pc[m] = "write" /\ pc'[m] = "reload" /\ loc'[m] = loc[m] /\ want'[m] = want[m]
          /\ lbUp /\ lbFile' = want[m]
       \/ pc[m] = "reload" /\ pc'[m] = "patch" /\ lbUp /\ lbLive' = lbFile
       \/ pc[m] \in Reconfiguring /\ pc'[m] = "patch" /\ loc'[m] = loc[m]

Finished(m) == pc[m] = "patch" /\ pc'[m] = "idle" /\ loc'[m] = Fresh /\ ~seenDel'[m]

\* A step of the worker of k leaves the workers of other machines alone.
LEMMA OtherWorkers ==
    ASSUME TypeOK, NEW k \in Names, NEW m \in Names, k # m, Observe(k) \/ Reconcile(k) \/ Work(k) \/ Instance(k)
    PROVE  SameWorker(m) /\ obj'[m] = obj[m] /\ cache'[m] = cache[m] /\ call'[m] = call[m]
  <1>1. want = [n \in Names |-> want[n]] /\ seenDel = [n \in Names |-> seenDel[n]]
    BY Zenon DEF TypeOK
  <1>2. CASE Observe(k)
    BY <1>2, Functions, Zenon DEF Observe, SameWorker, instVars
  <1>3. CASE Reconcile(k)
    BY <1>1, <1>3, Functions, Zenon
       DEF Reconcile, ReconcilePaused, EnsureFinalizer, ReconcileDelete, ReconcileDeleteUnpatched,
           ReconcileWait, ReconcileProvisioned, ReconcileLaunch, Take, BeginLaunch, BeginDelete,
           instVars, SameWorker
  <1>4. CASE Work(k)
    BY <1>1, <1>4, Functions, Zenon
       DEF Work, Proceed, Launched, NotLaunched, Deleted, NotDeleted, ListBackends, WriteConfig, Reload,
           ReloadUnread, ReconfigureWithoutLB, ReconfigureFails, Patch, PatchFails, PatchSome, Step,
           instVars, SameWorker
  <1>5. CASE Instance(k)
    <2>1. InstStep(k) /\ InstTypeOK
      BY <1>5, Zenon DEF Instance, InstStep, TypeOK
    <2>2. UNCHANGED machineVars
      BY <1>5, Zenon DEF Instance
    <2> QED  BY <2>1, <2>2, InstOthers, Zenon DEF machineVars, SameWorker
  <1> QED  BY <1>2, <1>3, <1>4, <1>5, Zenon

\* Take, and what Reconcile changes in the copy it takes.
LEMMA TakeEffect ==
    ASSUME TypeOK, Calm, NEW m \in Names, Dispatch(m), NEW next \in {"launch", "delete", "patch"}, NEW changed,
           Take(m, next, changed), Alike(changed, cache[m]),
           next = "launch" => clusterSeen.infra = "ready" /\ call'[m] # "launched"
    PROVE  Taken(m)
  <1>1. seenDel = [n \in Names |-> seenDel[n]]
    BY Zenon DEF TypeOK
  <1>2. \A k \in Names : pc[k] = "idle"
    BY OneWorker, Zenon DEF Calm
  <1>3. pc'[m] = next /\ base'[m] = cache[m] /\ loc'[m] = changed /\ cache'[m] = cache[m]
        /\ seenDel'[m] = clusterSeen.deleting
    BY <1>1, Functions, Zenon DEF Take
  <1>4. \A k \in Names : k # m => pc'[k] = pc[k]
    BY Functions, Zenon DEF Take
  <1> QED  BY <1>2, <1>3, <1>4, Zenon DEF Taken

\* The first part of Reconcile, for the only worker.
LEMMA ReconcileMoves ==
    ASSUME TypeOK, Calm, NEW m \in Names, Reconcile(m)
    PROVE  (SameWorker(m) /\ call'[m] = call[m]) \/ Taken(m)
  <1>0. cache[m] \in Objects
    BY Functions, Zenon
  <1>1. /\ Alike([cache[m] EXCEPT !.cond = "Deleting"], cache[m])
        /\ Alike([cache[m] EXCEPT !.cond = "Waiting"], cache[m])
        /\ Alike([cache[m] EXCEPT !.ready = FALSE, !.cond = "InstanceDeleted"], cache[m])
        /\ Alike([cache[m] EXCEPT !.ready = TRUE, !.cond = "Provisioned"], cache[m])
        /\ Alike(cache[m], cache[m])
    BY <1>0, Zenon DEF Alike, Objects
  <1>2. CASE ReconcilePaused(m) \/ EnsureFinalizer(m)
    BY <1>2, Zenon DEF ReconcilePaused, EnsureFinalizer, instVars, SameWorker
  <1>3. CASE ReconcileDelete(m)
    BY <1>1, <1>3, TakeEffect, Zenon DEF ReconcileDelete, Active
  <1>4. CASE ReconcileDeleteUnpatched(m)
    BY <1>1, <1>4, TakeEffect, Zenon DEF ReconcileDeleteUnpatched, Active
  <1>5. CASE ReconcileWait(m)
    BY <1>1, <1>5, TakeEffect, Zenon DEF ReconcileWait, NormalGuard, Active
  <1>6. CASE ReconcileProvisioned(m)
    <2>1. PICK c \in {[cache[m] EXCEPT !.ready = FALSE, !.cond = "InstanceDeleted"],
                      [cache[m] EXCEPT !.ready = TRUE, !.cond = "Provisioned"]} : Take(m, "patch", c)
      BY <1>6, Zenon DEF ReconcileProvisioned
    <2>2. Alike(c, cache[m])
      BY <1>1, <2>1, Zenon
    <2> QED  BY <1>6, <2>1, <2>2, TakeEffect, Zenon DEF ReconcileProvisioned, NormalGuard, Active
  <1>7. CASE ReconcileLaunch(m)
    <2>1. call'[m] = "launch"
      BY <1>7, Functions, Zenon DEF ReconcileLaunch, BeginLaunch
    <2> QED  BY <1>1, <1>7, <2>1, TakeEffect, Zenon DEF ReconcileLaunch, NormalGuard, Active
  <1> QED  BY <1>2, <1>3, <1>4, <1>5, <1>6, <1>7, Zenon DEF Reconcile

\* The rest of Reconcile.
LEMMA WorkMoves ==
    ASSUME TypeOK, Tracked, NEW m \in Names, Work(m)
    PROVE  (Moved(m) \/ Finished(m)) /\ call'[m] = call[m] /\ cache'[m] = cache[m]
  <1>0. loc[m] \in Objects /\ "expire" \notin Faults
    BY Functions, Zenon DEF Tracked
  <1>1. want = [n \in Names |-> want[n]] /\ seenDel = [n \in Names |-> seenDel[n]]
    BY Zenon DEF TypeOK
  <1>2. ASSUME NEW from, NEW next, NEW changed, Step(m, from, next, changed)
        PROVE  /\ pc[m] = from /\ pc'[m] = next /\ loc'[m] = changed
               /\ base'[m] = base[m] /\ seenDel'[m] = seenDel[m] /\ call'[m] = call[m] /\ cache'[m] = cache[m]
    BY <1>2, Functions, Zenon DEF Step, instVars
  <1>3. CASE Launched(m)
    <2>1. Alike([loc[m] EXCEPT !.cond = "Provisioned"], loc[m])
      BY <1>0, Zenon DEF Alike, Objects
    <2> QED  BY <1>2, <1>3, <2>1, Zenon DEF Launched, NeedsLoadBalancer, Moved
  <1>4. CASE NotLaunched(m)
    <2>1. Alike([loc[m] EXCEPT !.cond = LaunchReason[call[m]]], loc[m])
      BY <1>0, Zenon DEF Alike, Objects
    <2> QED  BY <1>2, <1>4, <2>1, Zenon DEF NotLaunched, Moved
  <1>5. CASE Deleted(m)
    BY <1>2, <1>5, Zenon DEF Deleted, Moved
  <1>6. CASE NotDeleted(m)
    BY <1>2, <1>6, Zenon DEF NotDeleted, Moved
  <1>7. CASE ListBackends(m)
    BY <1>1, <1>2, <1>7, Zenon DEF ListBackends, Moved
  <1>8. CASE WriteConfig(m)
    BY <1>2, <1>8, Zenon DEF WriteConfig, Moved
  <1>9. CASE Reload(m)
    BY <1>2, <1>9, Zenon DEF Reload, Moved
  <1>10. CASE ReconfigureWithoutLB(m) \/ ReconfigureFails(m)
    <2>1. pc[m] \in Reconfiguring /\ Step(m, pc[m], "patch", loc[m])
      BY <1>10, Zenon DEF ReconfigureWithoutLB, ReconfigureFails, Reconfiguring
    <2> QED  BY <1>2, <2>1, Zenon DEF Moved
  <1>11. CASE Patch(m) \/ PatchFails(m)
    <2>1. PICK ok : PatchSome(m, ok)
      BY <1>11, Zenon DEF Patch, PatchFails
    <2> QED  BY <1>1, <2>1, Functions, Zenon DEF PatchSome, Finished, instVars
  <1> QED  BY <1>0, <1>3, <1>4, <1>5, <1>6, <1>7, <1>8, <1>9, <1>10, <1>11, Zenon
            DEF Work, Proceed, ReloadUnread

\* The steps that are about no machine in particular leave the workers alone, and
\* a crash is none of them.
LEMMA NoWorkerMoves ==
    ASSUME Tracked, Outside \/ ObserveCluster \/ Crash \/ UNCHANGED vars, NEW m \in Names
    PROVE  SameWorker(m) /\ call'[m] = call[m] /\ cache'[m] = cache[m]
  <1>1. ~Crash
    BY Zenon DEF Crash, AbandonCalls, Tracked
  <1> QED  BY <1>1, Zenon
            DEF Outside, DeleteMachine, SetBootstrapData, InfraReady, DeleteCluster, RemoveLoadBalancer,
                TogglePause, RemoveInfra, ObserveCluster, vars, instVars, machineVars, SameWorker

\* What any step makes of the worker of m.
LEMMA WorkerMoves ==
    ASSUME TypeOK, Calm, [Next]_vars, NEW m \in Names
    PROVE  SameWorker(m) \/ Taken(m) \/ Moved(m) \/ Finished(m)
  <1>1. CASE Outside \/ ObserveCluster \/ Crash \/ UNCHANGED vars
    BY <1>1, NoWorkerMoves, Zenon DEF Calm
  <1>2. ASSUME NEW k \in Names, Observe(k) \/ Reconcile(k) \/ Work(k) \/ Instance(k)
        PROVE  SameWorker(m) \/ Taken(m) \/ Moved(m) \/ Finished(m)
    <2>1. CASE k # m
      BY <1>2, <2>1, OtherWorkers, Zenon
    <2>2. CASE k = m
      <3>1. CASE Observe(m) \/ Instance(m)
        BY <3>1, Zenon DEF Observe, Instance, machineVars, SameWorker
      <3> QED  BY <1>2, <2>2, <3>1, ReconcileMoves, WorkMoves, Zenon DEF Calm
    <2> QED  BY <2>1, <2>2, Zenon
  <1> QED  BY <1>1, <1>2, Zenon DEF Next

\* A launch that has returned found the instance up.
LEMMA LaunchMoves ==
    ASSUME TypeOK, Calm, [Next]_vars, NEW m \in Names, pc'[m] = "launch", call'[m] = "launched"
    PROVE  pc[m] = "launch" /\ (call[m] = "launched" \/ inst[m] = "up")
  <1>1. CASE Outside \/ ObserveCluster \/ Crash \/ UNCHANGED vars
    BY <1>1, NoWorkerMoves, Zenon DEF Calm, SameWorker
  <1>2. ASSUME NEW k \in Names, Observe(k) \/ Reconcile(k) \/ Work(k) \/ Instance(k)
        PROVE  pc[m] = "launch" /\ (call[m] = "launched" \/ inst[m] = "up")
    <2>1. CASE k # m
      BY <1>2, <2>1, OtherWorkers, Zenon DEF SameWorker
    <2>2. CASE Observe(m)
      BY <2>2, Zenon DEF Observe, instVars
    <2>3. CASE Reconcile(m)
      BY <2>3, ReconcileMoves, Zenon DEF SameWorker, Taken
    <2>4. CASE Work(m)
      BY <2>4, WorkMoves, Zenon DEF Moved, Finished, Calm
    <2>5. CASE Instance(m)
      <3>1. InstTypeOK /\ pc'[m] = pc[m]
        BY <2>5, Zenon DEF Instance, machineVars, TypeOK
      <3>2. CASE Server(m)
        BY <3>1, <3>2, ServerEffect, Zenon
      <3>3. CASE Progress(m)
        BY <3>1, <3>3, ProgressEffect, Zenon
      <3> QED  BY <2>5, <3>2, <3>3, Zenon DEF Instance
    <2> QED  BY <1>2, <2>1, <2>2, <2>3, <2>4, <2>5, Zenon
  <1> QED  BY <1>1, <1>2, Zenon DEF Next

\* What can be told of the LXCMachine and of the manager's copy before a step from
\* what they are after it: the object is marked by patches only, loses its finalizer
\* to a worker that found it deleting, and is not there any more after such a patch
\* or if it never had the finalizer.
ObjectBack(m) ==
    /\ HasMark(obj'[m]) => HasMark(obj[m]) \/ HasMark(loc[m])
    /\ obj'[m].phase = "live" /\ ~obj'[m].fin => obj[m].phase = "live" /\ ~obj[m].fin
    /\ obj'[m].phase = "gone" =>
        \/ obj[m].phase = "gone"
        \/ obj[m].phase = "live" /\ ~obj[m].fin
        \/ pc[m] = "patch" /\ base[m].phase = "deleting" /\ ~loc[m].fin

\* A patch is as ObjectBack says.
LEMMA PatchBack ==
    ASSUME IInv, NEW m \in Names, NEW ok, PatchSome(m, ok)
    PROVE  ObjectBack(m)
  <1> DEFINE new == Merge(obj[m], base[m], loc[m], ok)
  <1>0. /\ TypeOK /\ MInv(m)
        /\ obj[m] \in Objects /\ base[m] \in Objects /\ loc[m] \in Objects
    BY Functions, Zenon DEF IInv
  <1>1. pc[m] = "patch" /\ obj'[m] = (IF obj[m].phase = "gone" THEN obj[m] ELSE new)
    BY <1>0, Functions, Zenon DEF PatchSome
  <1>2. /\ new.fin = (IF "object" \in ok /\ loc[m].fin # base[m].fin THEN loc[m].fin ELSE obj[m].fin)
        /\ new.phase = (IF obj[m].phase = "deleting" /\ ~new.fin THEN "gone" ELSE obj[m].phase)
        /\ new.provider \in {loc[m].provider, obj[m].provider}
        /\ new.lb \in {loc[m].lb, obj[m].lb}
    BY Zenon DEF Merge
  <1> HIDE DEF new
  <1>3. CASE obj[m].phase = "gone"
    BY <1>1, <1>3, Zenon DEF ObjectBack
  <1>4. CASE obj[m].phase # "gone"
    <2>1. obj'[m] = new
      BY <1>1, <1>4, Zenon
    <2>2. HasMark(new) => HasMark(obj[m]) \/ HasMark(loc[m])
      BY <1>2, Zenon DEF HasMark
    <2>3. new.phase = "live" /\ ~new.fin => obj[m].phase = "live" /\ ~obj[m].fin
      BY <1>0, <1>1, <1>2, Zenon DEF MInv, WorkerInv
    <2>4. new.phase = "gone" => base[m].phase = "deleting" /\ ~loc[m].fin
      BY <1>0, <1>1, <1>2, <1>4, Zenon DEF MInv, WorkerInv, ObjectInv
    <2> QED  BY <1>1, <2>1, <2>2, <2>3, <2>4, Zenon DEF ObjectBack
  <1> QED  BY <1>3, <1>4, Zenon

\* So is every step.
LEMMA ObjectMoves ==
    ASSUME IInv, Calm, [Next]_vars, NEW m \in Names
    PROVE  /\ cache'[m] \in {cache[m], obj[m]}
           /\ ObjectBack(m)
  <1>0. TypeOK /\ obj[m] \in Objects
    BY Functions, Zenon DEF IInv
  <1>1. CASE UNCHANGED <<obj, cache>>
    BY <1>1, Zenon DEF ObjectBack
  <1>2. ASSUME NEW k \in Names, DeleteMachine(k)
        PROVE  cache'[m] = cache[m] /\ ObjectBack(m)
    <2>1. cache'[m] = cache[m]
      BY <1>2, Zenon DEF DeleteMachine
    <2>2. CASE k # m
      BY <1>0, <1>2, <2>1, <2>2, Functions, Zenon DEF DeleteMachine, ObjectBack
    <2>3. CASE k = m
      <3>1. obj'[m] = [obj[m] EXCEPT !.phase = IF obj[m].fin THEN "deleting" ELSE "gone"]
            /\ obj[m].phase = "live"
        BY <1>0, <1>2, <2>3, Functions, Zenon DEF DeleteMachine
      <3>2. /\ obj'[m].phase = (IF obj[m].fin THEN "deleting" ELSE "gone")
            /\ obj'[m].fin = obj[m].fin /\ obj'[m].provider = obj[m].provider /\ obj'[m].lb = obj[m].lb
        BY <1>0, <3>1, Zenon DEF Objects
      <3> QED  BY <2>1, <3>1, <3>2, Zenon DEF ObjectBack, HasMark
    <2> QED  BY <2>2, <2>3, Zenon
  <1>3. ~Crash
    BY Zenon DEF Crash, AbandonCalls, Calm, Tracked
  <1>4. ASSUME NEW k \in Names, Observe(k) \/ Reconcile(k) \/ Work(k) \/ Instance(k), k # m
        PROVE  cache'[m] = cache[m] /\ ObjectBack(m)
    BY <1>0, <1>4, OtherWorkers, Zenon DEF ObjectBack
  <1>5. CASE Observe(m)
    BY <1>0, <1>5, Functions, Zenon DEF Observe, ObjectBack
  <1>6. CASE Reconcile(m)
    <2>1. cache'[m] = cache[m]
      BY <1>6, Zenon DEF Reconcile, ReconcilePaused, EnsureFinalizer, ReconcileDelete,
         ReconcileDeleteUnpatched, ReconcileWait, ReconcileProvisioned, ReconcileLaunch, Take
    <2>2. \/ obj'[m] = obj[m]
          \/ obj'[m] = [obj[m] EXCEPT !.paused = PausedStatus]
          \/ obj'[m] = [obj[m] EXCEPT !.cond = "Deleting"]
          \/ obj'[m] = [obj[m] EXCEPT !.fin = TRUE]
      BY <1>0, <1>6, Functions, Zenon DEF Reconcile, ReconcilePaused, EnsureFinalizer, ReconcileDelete,
         ReconcileDeleteUnpatched, ReconcileWait, ReconcileProvisioned, ReconcileLaunch
    <2>3. /\ obj'[m].phase = obj[m].phase /\ (obj'[m].fin = obj[m].fin \/ obj'[m].fin)
          /\ obj'[m].provider = obj[m].provider /\ obj'[m].lb = obj[m].lb
      BY <1>0, <2>2, Zenon DEF Objects
    <2> QED  BY <2>1, <2>3, Zenon DEF ObjectBack, HasMark
  <1>7. CASE Work(m)
    <2>1. cache'[m] = cache[m]
      BY <1>0, <1>7, WorkMoves, Zenon DEF Calm
    <2>2. UNCHANGED obj \/ \E ok : PatchSome(m, ok)
      BY <1>7, Zenon DEF Work, Proceed, Launched, NotLaunched, Deleted, NotDeleted, ListBackends, WriteConfig,
         Reload, ReloadUnread, ReconfigureWithoutLB, ReconfigureFails, Patch, PatchFails, Step
    <2> QED  BY <2>1, <2>2, PatchBack, Zenon DEF ObjectBack
  <1>8. CASE Instance(m)
    BY <1>1, <1>8, Zenon DEF Instance, machineVars
  <1>9. CASE UNCHANGED vars \/ ObserveCluster \/ (Outside /\ ~\E k \in Names : DeleteMachine(k))
    BY <1>1, <1>9, Zenon
       DEF Outside, SetBootstrapData, InfraReady, DeleteCluster, RemoveLoadBalancer,
           TogglePause, RemoveInfra, ObserveCluster, vars, machineVars
  <1> QED  BY <1>2, <1>3, <1>4, <1>5, <1>6, <1>7, <1>8, <1>9, Zenon DEF Next

\* The infrastructure is not pending again, a deletion is not taken back, and the
\* load balancer comes up with the infrastructure.
LEMMA ClusterMoves ==
    ASSUME TypeOK, [Next]_vars
    PROVE  /\ cluster.infra # "pending" => cluster'.infra # "pending"
           /\ cluster.deleting => cluster'.deleting
           /\ clusterSeen' = clusterSeen \/ (clusterSeen' = cluster /\ UNCHANGED cluster)
           /\ lbUp' => lbUp \/ (cluster.infra = "pending" /\ cluster'.infra = "ready")
  <1>0. cluster \in Clusters
    BY Zenon DEF TypeOK
  <1>1. CASE UNCHANGED <<cluster, clusterSeen, lbUp>>
    BY <1>1, Zenon
  <1>2. CASE InfraReady
    <2>1. cluster' = [cluster EXCEPT !.infra = "ready"] /\ cluster.infra = "pending" /\ UNCHANGED clusterSeen
      BY <1>2, Zenon DEF InfraReady
    <2>2. cluster'.infra = "ready" /\ cluster'.deleting = cluster.deleting
      BY <1>0, <2>1, Zenon DEF Clusters
    <2> QED  BY <2>1, <2>2, Zenon
  <1>3. CASE DeleteCluster \/ TogglePause
    <2>1. (cluster' = [cluster EXCEPT !.deleting = TRUE] \/ cluster' = [cluster EXCEPT !.paused = ~cluster.paused])
          /\ UNCHANGED <<clusterSeen, lbUp>>
      BY <1>3, Zenon DEF DeleteCluster, TogglePause, lbVars
    <2>2. cluster'.infra = cluster.infra /\ (cluster'.deleting \/ cluster'.deleting = cluster.deleting)
      BY <1>0, <2>1, Zenon DEF Clusters
    <2> QED  BY <2>1, <2>2, Zenon
  <1>4. CASE RemoveInfra
    <2>1. cluster' = [cluster EXCEPT !.infra = "gone"] /\ UNCHANGED <<clusterSeen, lbUp>>
      BY <1>4, Zenon DEF RemoveInfra, lbVars
    <2>2. cluster'.infra = "gone" /\ cluster'.deleting = cluster.deleting
      BY <1>0, <2>1, Zenon DEF Clusters
    <2> QED  BY <2>1, <2>2, Zenon
  <1>5. CASE RemoveLoadBalancer
    <2>1. ~lbUp'
      BY <1>5, Zenon DEF RemoveLoadBalancer
    <2>2. UNCHANGED <<cluster, clusterSeen>>
      BY <1>5, Zenon DEF RemoveLoadBalancer, clusterVars
    <2> QED  BY <2>1, <2>2, Zenon
  <1>6. CASE ObserveCluster \/ Crash
    <2>1. clusterSeen' = cluster /\ UNCHANGED <<cluster, lbUp>>
      BY <1>6, Zenon DEF ObserveCluster, Crash, lbVars
    <2> QED  BY <2>1, Zenon
  <1>7. ASSUME NEW k \in Names, Observe(k) \/ DeleteMachine(k) \/ SetBootstrapData(k) \/ Instance(k)
        PROVE  UNCHANGED <<cluster, clusterSeen, lbUp>>
    BY <1>7, Zenon DEF Observe, DeleteMachine, SetBootstrapData, Instance, clusterVars, lbVars
  <1>8. ASSUME NEW k \in Names, Reconcile(k)
        PROVE  UNCHANGED <<cluster, clusterSeen, lbUp>>
    BY <1>8, Zenon DEF Reconcile, ReconcilePaused, EnsureFinalizer, ReconcileDelete,
       ReconcileDeleteUnpatched, ReconcileWait, ReconcileProvisioned, ReconcileLaunch, Take, clusterVars, lbVars
  <1>9. ASSUME NEW k \in Names, Work(k)
        PROVE  UNCHANGED <<cluster, clusterSeen, lbUp>>
    BY <1>9, Zenon DEF Work, Proceed, Launched, NotLaunched, Deleted, NotDeleted, ListBackends, WriteConfig,
       Reload, ReloadUnread, ReconfigureWithoutLB, ReconfigureFails, Patch, PatchFails, PatchSome, Step,
       clusterVars, lbVars
  <1>10. CASE UNCHANGED vars
    BY <1>10, Zenon DEF vars, clusterVars, lbVars
  <1> QED  BY <1>1, <1>2, <1>3, <1>4, <1>5, <1>6, <1>7, <1>8, <1>9, <1>10, Zenon DEF Next, Outside

\* Where the running and the written configuration come from.
LEMMA ProxyMoves ==
    ASSUME TypeOK, Calm, [Next]_vars
    PROVE  /\ \/ lbLive' = lbLive
              \/ lbLive' = {} /\ ~lbUp'
              \/ lbUp /\ lbLive' = lbFile /\ \E k \in Names : pc[k] = "reload"
           /\ \/ lbFile' = lbFile
              \/ ~lbUp'
              \/ \E k \in Names : pc[k] = "write" /\ pc'[k] = "reload" /\ lbFile' = want[k] /\ want' = want
  <1>1. CASE UNCHANGED <<lbFile, lbLive>>
    BY <1>1, Zenon
  <1>2. CASE RemoveLoadBalancer
    BY <1>2, Zenon DEF RemoveLoadBalancer
  <1>3. CASE Outside /\ ~RemoveLoadBalancer
    BY <1>3, Zenon DEF Outside, DeleteMachine, SetBootstrapData, InfraReady, DeleteCluster, TogglePause,
       RemoveInfra, lbVars
  <1>4. CASE ObserveCluster \/ Crash \/ UNCHANGED vars
    BY <1>4, Zenon DEF ObserveCluster, Crash, vars, lbVars
  <1>5. ASSUME NEW k \in Names, Observe(k) \/ Instance(k) \/ Reconcile(k)
        PROVE  UNCHANGED <<lbFile, lbLive>>
    BY <1>5, Zenon DEF Observe, Instance, Reconcile, ReconcilePaused, EnsureFinalizer, ReconcileDelete,
       ReconcileDeleteUnpatched, ReconcileWait, ReconcileProvisioned, ReconcileLaunch, Take, lbVars
  <1>6. ASSUME NEW k \in Names, Work(k), ~WriteConfig(k), ~Reload(k)
        PROVE  UNCHANGED <<lbFile, lbLive>>
    BY <1>6, Zenon DEF Work, Proceed, Launched, NotLaunched, Deleted, NotDeleted, ListBackends,
       ReloadUnread, ReconfigureWithoutLB, ReconfigureFails, Patch, PatchFails, PatchSome, lbVars
  <1>7. ASSUME NEW k \in Names, WriteConfig(k)
        PROVE  lbLive' = lbLive /\ pc[k] = "write" /\ pc'[k] = "reload" /\ lbFile' = want[k] /\ want' = want
    BY <1>7, Functions, Zenon DEF WriteConfig, Step
  <1>8. ASSUME NEW k \in Names, Reload(k)
        PROVE  lbUp /\ lbLive' = lbFile /\ pc[k] = "reload" /\ lbFile' = lbFile
    BY <1>8, Zenon DEF Reload, Step
  <1> QED  BY <1>1, <1>2, <1>3, <1>4, <1>5, <1>6, <1>7, <1>8, Zenon DEF Next

\* The worker of j holds a list it had, or one it has just made.
LEMMA ListMoves ==
    ASSUME TypeOK, Calm, [Next]_vars, NEW j \in Names, pc'[j] \in {"write", "reload"}
    PROVE  \/ pc[j] \in {"write", "reload"} /\ want'[j] = want[j]
           \/ pc[j] = "list" /\ want'[j] = Backends
  BY WorkerMoves, Zenon DEF SameWorker, Taken, Moved, Finished

\* The server keeps a reachable instance that nothing stops, and has nothing to
\* bring up where there is none; only a delete call stops or deletes.
LEMMA ServerMoves ==
    ASSUME Steady, Calm, [Next]_vars, NEW m \in Names
    PROVE  /\ inst[m] = "up" /\ op[m] \notin {"stop", "delete"} => inst'[m] = "up"
           /\ inst[m] = "absent" /\ op[m] # "create" => inst'[m] = "absent"
           /\ cache[m].phase = "live" /\ op[m] \notin {"stop", "delete"} => op'[m] \notin {"stop", "delete"}
  <1>0. InstTypeOK /\ op[m] \in OpKinds
    BY Zenon DEF Steady, IInv, TypeOK, InstTypeOK
  <1>1. /\ op[m] = "create" => inst[m] = "absent"
        /\ op[m] \in {"start", "delete"} => inst[m] = "stopped"
        /\ op[m] = "stop" => inst[m] \in Running
    BY Zenon DEF Steady, Fitting
  <1>2. cache[m].phase = "live" => call[m] # "delete"
    BY Zenon DEF Steady, IInv, MInv, CallInv, WorkerInv
  <1>3. InstNext \/ UNCHANGED instVars
    BY StepKeepsContract, Zenon
  <1>4. ~AbandonCalls /\ "vanish" \notin Faults
    BY Zenon DEF AbandonCalls, Calm, Tracked
  <1>5. ASSUME NEW n \in Names, InstStep(n), n # m PROVE op'[m] = op[m] /\ inst'[m] = inst[m]
    BY <1>0, <1>5, InstOthers, Zenon
  <1>6. CASE Server(m)
    BY <1>0, <1>1, <1>4, <1>6, ServerEffect, AfterOp, Zenon DEF OpKinds, Running
  <1>7. CASE Progress(m)
    BY <1>0, <1>1, <1>2, <1>7, ProgressEffect, Zenon
  <1>8. CASE BeginLaunch(m) \/ BeginDelete(m)
    BY <1>0, <1>8, BeginEffect, Zenon
  <1>9. CASE UNCHANGED instVars
    BY <1>9, Zenon DEF instVars
  <1> QED  BY <1>3, <1>4, <1>5, <1>6, <1>7, <1>8, <1>9, InstNextSteps, Zenon DEF InstStep

\* One machine at a time stays one machine at a time.
LEMMA AloneNext == ASSUME TypeOK, Alone, Calm, [Next]_vars PROVE Alone'
  <1> SUFFICES ASSUME NEW j \in Names, NEW k \in Names, pc'[j] # "idle", pc'[k] # "idle" PROVE j = k
    BY Zenon DEF Alone
  <1>1. pc[j] # "idle" \/ Taken(j)
    BY WorkerMoves, Zenon DEF SameWorker, Moved, Finished, Reconfiguring
  <1>2. pc[k] # "idle" \/ Taken(k)
    BY WorkerMoves, Zenon DEF SameWorker, Moved, Finished, Reconfiguring
  <1> QED  BY <1>1, <1>2, Zenon DEF Alone, Taken

\* What the manager and the load balancer know of the cluster stays true.
LEMMA LBNext == ASSUME TypeOK, Alone, LBInv, Calm, [Next]_vars PROVE LBInv'
  <1>1. /\ clusterSeen'.infra = "ready" \/ lbUp' => cluster'.infra # "pending"
        /\ clusterSeen'.deleting => cluster'.deleting
    BY ClusterMoves, Zenon DEF LBInv
  <1>2. ASSUME NEW k \in Names PROVE seenDel'[k] => cluster'.deleting
    BY <1>2, WorkerMoves, ClusterMoves, Zenon DEF SameWorker, Taken, Moved, Finished, LBInv
  <1>3. ASSUME NEW k \in Names, pc'[k] = "reload", lbUp' PROVE lbFile' = want'[k]
    <2>1. CASE pc[k] = "reload"
      <3>1. want'[k] = want[k]
        BY <1>3, <2>1, ListMoves, Zenon
      <3>2. lbUp
        BY <1>3, <2>1, ClusterMoves, Zenon DEF LBInv
      <3>3. lbFile' = lbFile
        BY <1>3, <2>1, ProxyMoves, Zenon DEF Alone
      <3> QED  BY <2>1, <3>1, <3>2, <3>3, Zenon DEF LBInv
    <2>2. CASE pc[k] # "reload"
      BY <1>3, <2>2, WorkerMoves, Zenon DEF SameWorker, Taken, Moved, Finished
    <2> QED  BY <2>1, <2>2, Zenon
  <1>4. ASSUME NEW k \in Names, pc'[k] = "reload" PROVE cluster'.infra # "pending"
    BY <1>4, WorkerMoves, ClusterMoves, Zenon DEF SameWorker, Taken, Moved, Finished, LBInv
  <1> QED  BY <1>1, <1>2, <1>3, <1>4, Zenon DEF LBInv

\* A backend whose instance is up stays a backend while there is a load balancer.
LEMMA ListedNext ==
    ASSUME TypeOK, Alone, LBInv, Calm, [Next]_vars, NEW m \in ControlPlane,
           inst[m] = "up", lbUp', Listed(m)
    PROVE  Listed(m)'
  <1>1. m \in Backends
    BY Zenon DEF Backends
  <1>2. m \in lbLive'
    BY ProxyMoves, Zenon DEF LBInv, Listed, Fixing
  <1>3. ASSUME NEW k \in Names, pc'[k] \in {"write", "reload"} PROVE m \in want'[k]
    BY <1>1, <1>3, ListMoves, Zenon DEF Listed, Fixing
  <1> QED  BY <1>2, <1>3, Zenon DEF Listed, Fixing

\* A machine without an instance does not become a backend.
LEMMA UnlistedNext ==
    ASSUME TypeOK, Alone, LBInv, Calm, [Next]_vars, NEW m \in ControlPlane,
           inst[m] = "absent", Unlisted(m)
    PROVE  Unlisted(m)'
  <1>1. m \notin Backends
    BY Zenon DEF Backends
  <1>2. m \notin lbLive'
    BY ProxyMoves, Zenon DEF LBInv, Unlisted, Fixing
  <1>3. ASSUME NEW k \in Names, pc'[k] \in {"write", "reload"} PROVE m \notin want'[k]
    BY <1>1, <1>3, ListMoves, Zenon DEF Unlisted, Fixing
  <1> QED  BY <1>2, <1>3, Zenon DEF Unlisted, Fixing

\* A machine that is served stays served.
LEMMA ServedNext ==
    ASSUME Steady, BInv, Calm, [Next]_vars, NEW m \in ControlPlane
    PROVE  ServedInv(m)'
  <1> SUFFICES ASSUME cache'[m].phase = "live"
               PROVE  /\ op'[m] \notin {"stop", "delete"}
                      /\ pc'[m] \in Reconfiguring \cup {"launch"} => cluster'.infra # "pending"
                      /\ pc'[m] \in Reconfiguring \/ (pc'[m] = "launch" /\ call'[m] = "launched")
                         => inst'[m] = "up"
                      /\ Fixing(m)' => m \in want'[m]
                      /\ Marked(m)' => inst'[m] = "up" /\ cluster'.infra # "pending" /\ (lbUp' => Listed(m)')
    BY Zenon DEF ServedInv, Reconfiguring
  <1>0. m \in Names /\ IInv /\ TypeOK /\ MInv(m) /\ Alone /\ LBInv /\ ServedInv(m)
    BY MachineAssumption, Zenon DEF Steady, IInv, BInv
  <1>1. cache[m].phase = "live"
    <2>1. cache[m].phase \in Phases
      BY <1>0, Functions, Zenon DEF Objects
    <2> QED  BY <1>0, <2>1, ObjectMoves, Zenon DEF MInv, CacheInv, Phases
  <1>2. /\ op[m] \notin {"stop", "delete"}
        /\ pc[m] \in Reconfiguring \cup {"launch"} => cluster.infra # "pending"
        /\ pc[m] \in Reconfiguring \/ (pc[m] = "launch" /\ call[m] = "launched") => inst[m] = "up"
        /\ Fixing(m) => m \in want[m]
        /\ Marked(m) => inst[m] = "up" /\ cluster.infra # "pending" /\ (lbUp => Listed(m))
        /\ pc[m] # "idle" => base[m].phase = "live" /\ pc[m] # "delete"
    BY <1>0, <1>1, Zenon DEF ServedInv, MInv, WorkerInv
  <1>3. op'[m] \notin {"stop", "delete"} /\ (inst[m] = "up" => inst'[m] = "up")
    BY <1>0, <1>1, <1>2, ServerMoves, Zenon
  <1>4. pc'[m] \in Reconfiguring \cup {"launch"} => cluster'.infra # "pending"
    BY <1>0, <1>2, WorkerMoves, ClusterMoves, Zenon
       DEF SameWorker, Taken, Moved, Finished, LBInv, Reconfiguring
  <1>5. pc'[m] \in Reconfiguring => inst'[m] = "up"
    BY <1>0, <1>2, <1>3, WorkerMoves, Zenon DEF SameWorker, Taken, Moved, Finished, Reconfiguring
  <1>6. pc'[m] = "launch" /\ call'[m] = "launched" => inst'[m] = "up"
    BY <1>0, <1>2, <1>3, LaunchMoves, Zenon
  <1>7. Fixing(m)' => m \in want'[m]
    <2>1. pc[m] = "list" => m \in Backends
      BY <1>2, Zenon DEF Backends, Reconfiguring
    <2> QED  BY <1>0, <1>2, <2>1, ListMoves, Zenon DEF Fixing
  <1>8. ASSUME Marked(m)
        PROVE  inst'[m] = "up" /\ cluster'.infra # "pending" /\ (lbUp' => Listed(m)')
    <2>1. lbUp' => lbUp
      BY <1>0, <1>2, <1>8, ClusterMoves, Zenon
    <2> QED  BY <1>0, <1>2, <1>3, <1>8, <2>1, ClusterMoves, ListedNext, Zenon
  <1>9. ASSUME Marked(m)', ~Marked(m)
        PROVE  pc[m] = "reload" /\ pc'[m] = "patch" /\ lbUp /\ lbLive' = lbFile
    <2>1. ~HasMark(obj'[m]) /\ ~HasMark(cache'[m])
      BY <1>0, <1>9, ObjectMoves, Zenon DEF ObjectBack, Marked
    <2>2. HasMark(loc'[m])
      BY <1>9, <2>1, Zenon DEF Marked
    <2>3. ~HasMark(Fresh)
      BY Zenon DEF HasMark, Fresh
    <2> QED  BY <1>0, <1>2, <1>9, <2>2, <2>3, WorkerMoves, Zenon
              DEF SameWorker, Taken, Moved, Finished, Alike, HasMark, Marked
  <1>10. ASSUME pc[m] = "reload", pc'[m] = "patch", lbUp, lbLive' = lbFile
         PROVE  inst'[m] = "up" /\ cluster'.infra # "pending" /\ Listed(m)'
    <2>1. inst'[m] = "up" /\ cluster'.infra # "pending"
      BY <1>0, <1>2, <1>3, <1>10, ClusterMoves, Zenon DEF Reconfiguring
    <2>2. m \in lbLive'
      BY <1>0, <1>2, <1>10, Zenon DEF LBInv, Fixing
    <2>3. ASSUME NEW k \in Names, pc'[k] \in {"write", "reload"} PROVE FALSE
      BY <1>0, <1>10, <2>3, ListMoves, Zenon DEF Alone
    <2> QED  BY <2>1, <2>2, <2>3, Zenon DEF Listed, Fixing
  <1> QED  BY <1>3, <1>4, <1>5, <1>6, <1>7, <1>8, <1>9, <1>10, Zenon

\* The finalizer of m is dropped after m left the load balancer.
LEMMA GoneNext ==
    ASSUME Steady, BInv, Calm, [Next]_vars, NEW m \in ControlPlane
    PROVE  GoneInv(m)'
  <1>0. m \in Names /\ IInv /\ TypeOK /\ MInv(m) /\ Alone /\ LBInv /\ GoneInv(m) /\ ~leak[m]
    BY MachineAssumption, Zenon DEF Steady, IInv, BInv, NoLeak
  <1>1. ASSUME inst[m] = "absent", cluster.deleting \/ Unlisted(m)
        PROVE  cluster'.deleting \/ Unlisted(m)'
    BY <1>0, <1>1, ClusterMoves, UnlistedNext, Zenon
  <1>2. obj'[m].phase = "live" /\ ~obj'[m].fin => Unlisted(m)'
    BY <1>0, ObjectMoves, UnlistedNext, Zenon DEF ObjectBack, GoneInv, MInv, ObjectInv
  <1>3. obj'[m].phase = "gone" => cluster'.deleting \/ Unlisted(m)'
    <2>1. ASSUME obj'[m].phase = "gone"
          PROVE  inst[m] = "absent" /\ (cluster.deleting \/ Unlisted(m))
      BY <1>0, <2>1, ObjectMoves, Zenon DEF ObjectBack, GoneInv, MInv, ObjectInv, WorkerInv, Clean
    <2> QED  BY <1>1, <2>1, Zenon
  <1>4. ASSUME pc'[m] # "idle", base'[m].phase = "deleting"
        PROVE  /\ pc'[m] \in Reconfiguring => loc'[m].fin
               /\ Fixing(m)' => m \notin want'[m]
               /\ pc'[m] = "patch" /\ ~loc'[m].fin => cluster'.deleting \/ Unlisted(m)'
    <2>1. CASE Taken(m)
      <3>1. pc'[m] \in {"launch", "delete", "patch"} /\ base'[m] = cache[m] /\ loc'[m].fin = cache[m].fin
        BY <2>1, Zenon DEF Taken, Alike
      <3>2. loc'[m].fin
        BY <1>0, <1>4, <3>1, Zenon DEF MInv, CacheInv
      <3> QED  BY <3>1, <3>2, Zenon DEF Fixing, Reconfiguring
    <2>2. CASE SameWorker(m) \/ Moved(m)
      <3>1. pc[m] # "idle" /\ base[m].phase = "deleting"
        BY <1>4, <2>2, Zenon DEF SameWorker, Moved, Reconfiguring
      <3>2. /\ pc[m] \in Reconfiguring => loc[m].fin /\ inst[m] = "absent"
            /\ pc[m] = "delete" => loc[m].fin
            /\ pc[m] # "launch"
            /\ Fixing(m) => m \notin want[m]
            /\ pc[m] = "patch" /\ ~loc[m].fin => inst[m] = "absent" /\ (cluster.deleting \/ Unlisted(m))
        BY <1>0, <3>1, Zenon DEF GoneInv, MInv, WorkerInv, Clean
      <3>3. pc'[m] \in Reconfiguring => loc'[m].fin
        BY <2>2, <3>2, Zenon DEF SameWorker, Moved, Reconfiguring
      <3>4. Fixing(m)' => m \notin want'[m]
        <4>1. pc[m] = "list" => m \notin Backends
          BY <3>2, Zenon DEF Backends, Reconfiguring
        <4> QED  BY <1>0, <3>2, <4>1, ListMoves, Zenon DEF Fixing
      <3>5. ASSUME pc'[m] = "patch", ~loc'[m].fin PROVE cluster'.deleting \/ Unlisted(m)'
        <4>1. CASE SameWorker(m)
          BY <1>1, <3>2, <3>5, <4>1, Zenon DEF SameWorker
        <4>2. CASE pc[m] = "delete" /\ seenDel[m]
          BY <1>0, <4>2, ClusterMoves, Zenon DEF LBInv
        <4>3. CASE pc[m] = "reload" /\ lbUp /\ lbLive' = lbFile
          <5>1. m \notin lbLive'
            BY <1>0, <3>2, <4>3, Zenon DEF LBInv, Fixing
          <5>2. ASSUME NEW k \in Names, pc'[k] \in {"write", "reload"} PROVE FALSE
            BY <1>0, <3>5, <4>3, <5>2, ListMoves, Zenon DEF Alone
          <5> QED  BY <5>1, <5>2, Zenon DEF Unlisted, Fixing
        <4> QED  BY <2>2, <3>2, <3>5, <4>1, <4>2, <4>3, Zenon DEF Moved
      <3> QED  BY <3>3, <3>4, <3>5, Zenon
    <2>3. CASE Finished(m)
      BY <1>4, <2>3, Zenon DEF Finished
    <2> QED  BY <1>0, <2>1, <2>2, <2>3, WorkerMoves, Zenon
  <1> QED  BY <1>2, <1>3, <1>4, Zenon DEF GoneInv, Reconfiguring

\* It holds initially.
LEMMA BackendsInit == Init => BInv
  <1> SUFFICES ASSUME Init PROVE BInv
    OBVIOUS
  <1>1. /\ \A k \in Names : /\ pc[k] = "idle" /\ ~seenDel[k] /\ op[k] = "none"
                            /\ obj[k] = Fresh /\ cache[k] = Fresh /\ loc[k] = Fresh
        /\ ~lbUp /\ lbLive = {} /\ clusterSeen = cluster
    BY Zenon DEF Init, InstInit
  <1>2. cluster.infra = "pending" /\ ~cluster.deleting
    BY Zenon DEF Init
  <1>3. Fresh.phase = "live" /\ ~HasMark(Fresh)
    BY Zenon DEF Fresh, HasMark
  <1>4. Alone /\ LBInv
    BY <1>1, <1>2, Zenon DEF Alone, LBInv
  <1>5. ASSUME NEW m \in ControlPlane PROVE ServedInv(m) /\ GoneInv(m)
    <2>1. m \in Names
      BY MachineAssumption, Zenon
    <2>2. Unlisted(m) /\ ~Marked(m)
      BY <1>1, <1>3, <2>1, Zenon DEF Unlisted, Marked, Fixing
    <2> QED  BY <1>1, <1>3, <2>1, <2>2, Zenon DEF ServedInv, GoneInv, Fixing, Reconfiguring
  <1> QED  BY <1>4, <1>5, Zenon DEF BInv

\* internal/loadbalancer reconfigures from what it listed, and that is enough when
\* one worker does all the work: through failed reconfigurations, partial patches,
\* stale reads and failed operations, a provisioned control plane machine is one of
\* the running backends before its ProviderID shows, and a removed one has left them
\* before its finalizer.  More workers break this (run machine_backends_race).
THEOREM BackendsKeepUp == ASSUME Calm PROVE Spec => []BackendsFollowControlPlane
  <1>1. Steady /\ BInv /\ [Next]_vars => BInv'
    <2> SUFFICES ASSUME Steady, BInv, [Next]_vars PROVE BInv'
      OBVIOUS
    <2>1. TypeOK /\ Alone /\ LBInv
      BY Zenon DEF Steady, IInv, BInv
    <2>2. Alone' /\ LBInv'
      BY <2>1, AloneNext, LBNext, Zenon
    <2> QED  BY <2>2, ServedNext, GoneNext, Zenon DEF BInv
  <1>2. Steady /\ BInv => BackendsFollowControlPlane
    <2> SUFFICES ASSUME Steady, BInv, NEW m \in ControlPlane
                 PROVE  /\ lbUp /\ obj[m].phase = "live" /\ obj[m].provider /\ inst[m] = "up" => m \in lbLive
                        /\ obj[m].phase = "gone" /\ ~cluster.deleting => m \notin lbLive
      BY Zenon DEF BackendsFollowControlPlane
    <2>1. m \in Names /\ MInv(m) /\ TypeOK /\ ServedInv(m) /\ GoneInv(m)
      BY MachineAssumption, Zenon DEF Steady, IInv, BInv
    <2>2. obj[m].phase = "live" => cache[m].phase = "live"
      BY <2>1, Functions, Zenon DEF MInv, CacheInv, Objects, Phases
    <2>3. obj[m].provider => Marked(m)
      BY Zenon DEF Marked, HasMark
    <2> QED  BY <2>1, <2>2, <2>3, Zenon DEF ServedInv, GoneInv, Listed, Unlisted
  <1>3. Spec => []Steady
    <2>1. InstSpec => []NoLeak
      BY TrackedLeavesNothing, Zenon DEF Calm
    <2> QED  BY <2>1, Invariance, KeepsInstanceContract, ServerFits, PTL DEF Steady
  <1> QED  BY <1>1, <1>2, <1>3, BackendsInit, PTL DEF Spec
=============================================================================
