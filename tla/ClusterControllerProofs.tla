----------------------- MODULE ClusterControllerProofs -----------------------
(***************************************************************************)
(* Proofs about ClusterController, for any set of clusters, any choice of  *)
(* load balancer types and any choice of faults.                           *)
(***************************************************************************)
EXTENDS ClusterController, InstanceContractProofs

\* A copy of an LXCCluster with some fields changed is one.
LEMMA SetFin == ASSUME NEW o \in Objects, NEW b \in BOOLEAN PROVE [o EXCEPT !.fin = b] \in Objects
  BY Zenon DEF Objects

\* A copy with another paused condition is an LXCCluster.
LEMMA SetPaused ==
    ASSUME NEW o \in Objects, NEW s \in {"unset", "false", "true"}
    PROVE  [o EXCEPT !.paused = s] \in Objects
  BY Zenon DEF Objects

\* What reconcileNormal and reconcileDelete make of their copy is an LXCCluster,
\* with the phase and the finalizer of the copy; only Available makes it ready or
\* sets its endpoint, and no endpoint that is set is changed.
LEMMA Outcomes ==
    ASSUME NEW o \in Objects, NEW ip \in Hosts
    PROVE  /\ {Aborted(o), Failed(o), Deleting(o), Available(o, ip)} \subseteq Objects
           /\ \A x \in {Aborted(o), Failed(o), Deleting(o)} :
                 x.phase = o.phase /\ x.fin = o.fin /\ x.host = o.host /\ x.ready = o.ready
           /\ Available(o, ip).phase = o.phase /\ Available(o, ip).fin = o.fin
           /\ o.host # "" => Available(o, ip).host = o.host
           /\ Available(o, ip).ready
  BY ZenonT(30) DEF Aborted, Failed, Deleting, Available, Objects, Reasons

\* The object Cluster API creates is an LXCCluster.
LEMMA FreshObject == Fresh \in Objects
  BY Zenon DEF Fresh, Objects, Reasons, Hosts

\* What the deferred patch writes is an LXCCluster.
LEMMA MergeType ==
    ASSUME NEW o \in Objects, NEW b \in Objects, NEW l \in Objects, NEW ok
    PROVE  Merge(o, b, l, ok) \in Objects
  BY Zenon DEF Merge, Objects

\* It writes a field the worker changed, or keeps the field of the object.
LEMMA MergeWrites ==
    ASSUME NEW o, NEW b, NEW l, NEW ok
    PROVE  LET n == Merge(o, b, l, ok)
           IN  /\ n.phase = o.phase \/ (n.phase = "gone" /\ o.phase = "deleting" /\ ~n.fin)
               /\ n.fin = o.fin \/ (n.fin = l.fin /\ l.fin # b.fin)
               /\ n.host = o.host \/ (n.host = l.host /\ l.host # b.host)
               /\ n.ready = o.ready \/ (n.ready = l.ready /\ l.ready # b.ready)
  BY SMTT(30) DEF Merge

\* The variables of the clusters are functions on them.
LEMMA Typed ==
    ASSUME TypeOK, NEW c \in Names
    PROVE  /\ conf[c] \in Confs /\ pc[c] \in Pcs /\ first[c] \in Addresses
           /\ obj[c] \in Objects /\ cache[c] \in Objects /\ base[c] \in Objects /\ loc[c] \in Objects
           /\ obj[c].host \in Hosts /\ cache[c].host \in Hosts /\ loc[c].host \in Hosts
  BY Zenon DEF TypeOK, Objects

\* An object that is replaced by an LXCCluster keeps the type of obj.
LEMMA ObjType ==
    ASSUME TypeOK, NEW c \in Names, NEW o \in Objects, obj' = [obj EXCEPT ![c] = o]
    PROVE  obj' \in [Names -> Objects]
  BY Zenon DEF TypeOK

\* A worker that takes its copies keeps the types, if what it does to the
\* LXCCluster and the load balancer does.
LEMMA TakeType ==
    ASSUME TypeOK, NEW c \in Names, NEW next \in Pcs, NEW changed \in Objects,
           Take(c, next, changed), UNCHANGED blind,
           InstTypeOK', obj' \in [Names -> Objects],
           ovn' \in Names \cup {"none", Foreign}, taken' \in BOOLEAN
    PROVE  TypeOK'
  BY Zenon DEF TypeOK, Take, outsideVars

\* The same for a step of a worker that has its copies.
LEMMA StepType ==
    ASSUME TypeOK, NEW c \in Names, NEW from, NEW next \in Pcs, NEW changed \in Objects,
           Step(c, from, next, changed), blind' \in [Names -> BOOLEAN]
    PROVE  TypeOK'
  BY Zenon DEF TypeOK, InstTypeOK, Step, outsideVars, lbVars, ovnVars, instVars

\* The initial state is typed.
LEMMA InitType == Init => TypeOK
  <1> SUFFICES ASSUME Init PROVE TypeOK
    BY Zenon
  <1>1. InstTypeOK
    BY InstInitType, Zenon DEF Init
  <1>2. conf \in [Names -> Confs]
    BY Zenon DEF Init
  <1>3. obj \in [Names -> Objects]
    <2>1. PICK h \in [Names -> {"", "vip"}] : obj = [c \in Names |-> [Fresh EXCEPT !.host = h[c]]]
      BY Zenon DEF Init
    <2>2. ASSUME NEW c \in Names PROVE [Fresh EXCEPT !.host = h[c]] \in Objects
      <3>1. h[c] \in Hosts
        BY <2>1, Zenon DEF Hosts
      <3> QED  BY <3>1, FreshObject, Zenon DEF Objects
    <2> QED  BY <2>1, <2>2, Zenon
  <1>4. cache \in [Names -> Objects] /\ base \in [Names -> Objects] /\ loc \in [Names -> Objects]
    BY <1>3, FreshObject, Zenon DEF Init
  <1>5. pc \in [Names -> Pcs]
    BY Zenon DEF Init, Pcs
  <1>6. /\ clusterDel \in [Names -> BOOLEAN] /\ clusterPaused \in [Names -> BOOLEAN]
        /\ infraReady \in [Names -> BOOLEAN] /\ machines \in [Names -> BOOLEAN]
        /\ machinesSeen \in [Names -> BOOLEAN] /\ blind \in [Names -> BOOLEAN]
    BY Zenon DEF Init
  <1>7. first \in [Names -> Addresses] /\ ovn \in Names \cup {"none", Foreign} /\ taken \in BOOLEAN
    BY Zenon DEF Init, Addresses
  <1> QED  BY <1>1, <1>2, <1>3, <1>4, <1>5, <1>6, <1>7, Zenon DEF TypeOK

\* Users, Cluster API and the machines of the cluster keep the types.
LEMMA OutsideType == ASSUME TypeOK, NEW c \in Names, Outside(c) PROVE TypeOK'
  <1> USE DEF instVars, clusterVars, outsideVars, lbVars, ovnVars
  <1>1. CASE LastMachineGone(c) \/ DeleteCluster(c) \/ TogglePause(c) \/ SetInfrastructureReady(c)
    BY <1>1, Zenon DEF TypeOK, InstTypeOK, LastMachineGone, DeleteCluster, TogglePause, SetInfrastructureReady
  <1>2. CASE DeleteLXCCluster(c)
    <2> DEFINE o == [obj[c] EXCEPT !.phase = IF obj[c].fin THEN "deleting" ELSE "gone"]
    <2>1. o \in Objects
      BY Typed, Zenon DEF Objects
    <2>2. obj' = [obj EXCEPT ![c] = o]
      BY <1>2, Zenon DEF DeleteLXCCluster
    <2>3. obj' \in [Names -> Objects]
      BY <2>1, <2>2, ObjType, Zenon
    <2> QED  BY <1>2, <2>3, Zenon DEF TypeOK, InstTypeOK, DeleteLXCCluster
  <1>3. CASE MachineReconfigures(c)
    BY <1>3, Zenon DEF TypeOK, InstTypeOK, MachineReconfigures
  <1> QED  BY <1>1, <1>2, <1>3, Zenon DEF Outside

\* The first part of Reconcile keeps the types.
LEMMA ReconcileType == ASSUME TypeOK, NEW c \in Names, Reconcile(c) PROVE TypeOK'
  <1>0. /\ cache[c] \in Objects /\ obj[c] \in Objects /\ cache[c].host \in Hosts
        /\ {"launch", "ovnCreate", "delete", "machines", "patch"} \subseteq Pcs
    BY Typed, Zenon DEF Pcs
  <1>1. /\ {Aborted(cache[c]), Failed(cache[c]), Deleting(cache[c]), Available(cache[c], cache[c].host)}
              \subseteq Objects
        /\ Deleting(obj[c]) \in Objects
    BY <1>0, Outcomes, Zenon DEF Hosts
  <1>2. ASSUME NEW o \in Objects, obj' = [obj EXCEPT ![c] = o],
               UNCHANGED <<instVars, conf, cache, base, loc, pc, outsideVars, lbVars, blind>>
        PROVE  TypeOK'
    <2>1. obj' \in [Names -> Objects]
      BY <1>2, ObjType, Zenon
    <2> QED  BY <1>2, <2>1, Zenon DEF TypeOK, InstTypeOK, instVars, outsideVars, lbVars, ovnVars
  <1>3. ASSUME NEW next \in Pcs, NEW changed \in Objects, Take(c, next, changed),
               UNCHANGED <<instVars, obj, ovnVars, blind>>
        PROVE  TypeOK'
    BY <1>3, TakeType, Zenon DEF TypeOK, InstTypeOK, instVars, ovnVars
  <1>4. ASSUME NEW kind, CreateInstance(c, kind) PROVE TypeOK'
    <2>1. InstTypeOK'
      BY <1>4, InstStepType, Zenon DEF CreateInstance, InstStep, TypeOK
    <2> QED  BY <1>0, <1>4, <2>1, TakeType, Zenon DEF CreateInstance, TypeOK, ovnVars
  <1>5. CASE EnsureFinalizer(c)
    <2>1. [obj[c] EXCEPT !.fin = TRUE] \in Objects
      BY <1>0, SetFin, Zenon
    <2> QED  BY <1>2, <1>5, <2>1, Zenon DEF EnsureFinalizer
  <1>6. CASE ReconcilePaused(c)
    <2>1. [obj[c] EXCEPT !.paused = PausedStatus(c)] \in Objects
      BY <1>0, SetPaused, Zenon DEF PausedStatus
    <2> QED  BY <1>2, <1>6, <2>1, Zenon DEF ReconcilePaused
  <1>7. CASE CreateOCI(c)
    BY <1>0, <1>1, <1>3, <1>4, <1>7, Zenon DEF CreateOCI
  <1>8. CASE CreateExternal(c) \/ CreateKubeVIP(c)
    BY <1>0, <1>1, <1>3, <1>8, Zenon DEF CreateExternal, CreateKubeVIP, TakeEndpoint
  <1>9. CASE CreateOvn(c) \/ CreateOvnTerminal(c)
    BY <1>0, <1>1, <1>3, <1>9, Zenon DEF CreateOvn, CreateOvnTerminal
  <1>10. CASE ReconcileDelete(c)
    <2>1. obj' \in [Names -> Objects]
      BY <1>1, <1>10, ObjType, Zenon DEF ReconcileDelete, TypeOK
    <2>2. UNCHANGED blind
      BY <1>10, Zenon DEF ReconcileDelete
    <2>3. CASE DeleteLXC(c) \/ DeleteOCI(c)
      <3>1. InstTypeOK'
        BY <2>3, InstStepType, Zenon DEF DeleteLXC, DeleteOCI, DeleteInstance, InstStep, TypeOK
      <3> QED  BY <1>0, <1>1, <2>1, <2>2, <2>3, <3>1, TakeType, Zenon
                DEF DeleteLXC, DeleteOCI, DeleteInstance, TypeOK, ovnVars
    <2>4. CASE DeleteOvn(c) \/ DeleteExternal(c) \/ DeleteKubeVIP(c)
      <3>1. InstTypeOK' /\ ovn' \in Names \cup {"none", Foreign} /\ taken' \in BOOLEAN
        BY <2>4, Zenon DEF DeleteOvn, DeleteExternal, DeleteKubeVIP, DeleteNothing, TypeOK, InstTypeOK, instVars, ovnVars
      <3>2. \E next \in {"machines", "patch"} : Take(c, next, Deleting(cache[c]))
        BY <2>4, Zenon DEF DeleteOvn, DeleteExternal, DeleteKubeVIP, DeleteNothing
      <3> QED  BY <1>0, <1>1, <2>1, <2>2, <3>1, <3>2, TakeType, Zenon
    <2> QED  BY <1>10, <2>3, <2>4, Zenon DEF ReconcileDelete
  <1>11. CASE ReconcileDeleteUnpatched(c)
    BY <1>0, <1>1, <1>3, <1>11, Zenon DEF ReconcileDeleteUnpatched
  <1> QED  BY <1>4, <1>5, <1>6, <1>7, <1>8, <1>9, <1>10, <1>11, Zenon DEF Reconcile

\* The rest of Reconcile keeps the types.
LEMMA WorkType == ASSUME TypeOK, NEW c \in Names, Work(c) PROVE TypeOK'
  <1>0. /\ loc[c] \in Objects /\ base[c] \in Objects /\ obj[c] \in Objects
        /\ loc[c].host \in Hosts /\ first[c] \in Hosts
        /\ {"machines", "patch", "idle"} \subseteq Pcs
    BY Typed, Zenon DEF Pcs, Hosts
  <1>1. /\ {Aborted(loc[c]), Failed(loc[c]), Available(loc[c], loc[c].host), Available(loc[c], first[c])}
              \subseteq Objects
        /\ [loc[c] EXCEPT !.fin = FALSE] \in Objects
        /\ blind \in [Names -> BOOLEAN]
    <2>1. [loc[c] EXCEPT !.fin = FALSE] \in Objects
      BY <1>0, SetFin, Zenon
    <2>2. blind \in [Names -> BOOLEAN]
      BY Zenon DEF TypeOK
    <2>3. {Aborted(loc[c]), Failed(loc[c]), Available(loc[c], loc[c].host), Available(loc[c], first[c])}
              \subseteq Objects
      BY <1>0, Outcomes, Zenon
    <2> QED  BY <2>1, <2>2, <2>3, Zenon
  <1>2. CASE CreateNetworkLoadBalancer(c)
    <2>0. \/ loc' = [loc EXCEPT ![c] = Available(loc[c], loc[c].host)]
          \/ loc' = [loc EXCEPT ![c] = Failed(loc[c])]
      BY <1>2, Zenon DEF CreateNetworkLoadBalancer
    <2>1. loc' \in [Names -> Objects]
      BY <1>1, <2>0, Zenon DEF TypeOK
    <2> QED  BY <1>0, <1>2, <2>1, Zenon DEF CreateNetworkLoadBalancer, TypeOK, InstTypeOK, instVars, outsideVars, ovnVars
  <1>3. CASE Launched(c) \/ NotLaunched(c)
    BY <1>0, <1>1, <1>3, StepType, Zenon DEF Launched, NotLaunched
  <1>4. CASE Deleted(c) \/ NotDeleted(c) \/ AwaitMachines(c)
    BY <1>0, <1>1, <1>4, StepType, Zenon DEF Deleted, NotDeleted, AwaitMachines
  <1>5. CASE Finalize(c)
    <2>1. blind' \in [Names -> BOOLEAN]
      BY <1>1, <1>5, Zenon DEF Finalize, TypeOK
    <2> QED  BY <1>0, <1>1, <1>5, <2>1, StepType, Zenon DEF Finalize
  <1>6. ASSUME NEW ok, PatchSome(c, ok) PROVE TypeOK'
    <2>1. Merge(obj[c], base[c], loc[c], ok) \in Objects
      BY <1>0, MergeType, Zenon
    <2>2. obj' \in [Names -> Objects]
      BY <1>6, <2>1, Zenon DEF PatchSome, TypeOK
    <2>3. base' \in [Names -> Objects] /\ loc' \in [Names -> Objects] /\ pc' \in [Names -> Pcs]
      BY <1>0, <1>6, FreshObject, Zenon DEF PatchSome, TypeOK
    <2> QED  BY <1>6, <2>2, <2>3, Zenon DEF PatchSome, TypeOK, InstTypeOK, instVars, outsideVars, lbVars, ovnVars
  <1> QED  BY <1>2, <1>3, <1>4, <1>5, <1>6, Zenon DEF Work, Patch, PatchFails

\* Every step keeps the types.
LEMMA NextType == TypeOK /\ [Next]_vars => TypeOK'
  <1> SUFFICES ASSUME TypeOK, [Next]_vars PROVE TypeOK'
    BY Zenon
  <1> USE DEF instVars, clusterVars, outsideVars, lbVars, ovnVars
  <1>1. ASSUME NEW c \in Names, Outside(c) PROVE TypeOK'
    BY <1>1, OutsideType, Zenon
  <1>2. ASSUME NEW c \in Names, Observe(c) \/ ObserveMachines(c) PROVE TypeOK'
    BY <1>2, Zenon DEF TypeOK, InstTypeOK, Observe, ObserveMachines
  <1>3. ASSUME NEW c \in Names, GainAddress(c) PROVE TypeOK'
    <2>1. InstTypeOK'
      BY <1>3, InstStepType, Zenon DEF GainAddress, InstStep, Server, TypeOK, InstTypeOK
    <2>2. first' \in [Names -> Addresses]
      BY <1>3, Zenon DEF GainAddress, TypeOK, Addresses
    <2> QED  BY <1>3, <2>1, <2>2, Zenon DEF GainAddress, TypeOK
  <1>4. ASSUME NEW c \in Names, Serve(c) \/ CallGoesOn(c) PROVE TypeOK'
    <2>1. InstTypeOK'
      BY <1>4, InstStepType, Zenon DEF Serve, CallGoesOn, InstStep, Server, TypeOK
    <2> QED  BY <1>4, <2>1, Zenon DEF Serve, CallGoesOn, TypeOK
  <1>5. ASSUME NEW c \in Names, Reconcile(c) PROVE TypeOK'
    BY <1>5, ReconcileType, Zenon
  <1>6. ASSUME NEW c \in Names, Work(c) PROVE TypeOK'
    BY <1>6, WorkType, Zenon
  <1>7. CASE ForeignOvn
    BY <1>7, Zenon DEF ForeignOvn, TypeOK, InstTypeOK
  <1>8. CASE Crash
    <2>1. InstTypeOK'
      BY <1>8, AbandonType, Zenon DEF Crash, TypeOK
    <2>2. base' \in [Names -> Objects] /\ loc' \in [Names -> Objects] /\ pc' \in [Names -> Pcs]
      BY <1>8, FreshObject, Zenon DEF Crash, Pcs
    <2> QED  BY <1>8, <2>1, <2>2, Zenon DEF Crash, TypeOK
  <1>9. CASE UNCHANGED vars
    BY <1>9, Zenon DEF TypeOK, InstTypeOK, vars
  <1> QED  BY <1>1, <1>2, <1>3, <1>4, <1>5, <1>6, <1>7, <1>8, <1>9, Zenon DEF Next

\* Every variable of the reconciler, its caches and the load balancers keeps its
\* type, whatever Reconcile, the users and the server do.
THEOREM TypeCorrect == Spec => []TypeOK
  BY InitType, NextType, PTL DEF Spec

-----------------------------------------------------------------------------
\* The inductive invariant

\* Nothing of the load balancer is left, except what the client's last delete
\* left behind or a machine of the cluster took over.
Clean(c) ==
    /\ inst[c] # "absent" \/ op[c] = "create" => leak[c]
    /\ ovn = c => taken

\* The cluster can have a network load balancer.
Balances(c) == conf[c].kind = "ovn" /\ conf[c].support = "full" /\ conf[c].network = "ok"

\* Instances belong to the types that launch one, network load balancers to ovn.
KindInv(c) ==
    /\ conf[c].kind \notin Instances =>
          inst[c] = "absent" /\ op[c] = "none" /\ call[c] \notin Calls /\ pc[c] \notin {"launch", "delete"}
    /\ ~Balances(c) => ovn # c /\ pc[c] # "ovnCreate"

\* Only an instance can be started or stopped.
ServerInv(c) == op[c] \in {"start", "stop"} => inst[c] # "absent"

\* A deleting LXCCluster is held by the finalizer; one that never had it has no
\* load balancer.
ObjectInv(c) ==
    /\ obj[c].phase = "deleting" => obj[c].fin
    /\ obj[c].phase = "gone" => ~obj[c].fin /\ Clean(c)
    /\ obj[c].phase = "live" /\ ~obj[c].fin =>
          inst[c] = "absent" /\ op[c] = "none" /\ (ovn = c => taken)
    /\ obj[c].phase # "live" => clusterDel[c]

\* What a stale cache entry still tells about the object.
CacheInv(c) ==
    /\ cache[c].phase = "live" /\ cache[c].fin => obj[c].fin
    /\ cache[c].phase = "deleting" => cache[c].fin /\ obj[c].phase # "live"
    /\ cache[c].phase = "gone" => obj[c].phase = "gone"

\* Calls are made by the worker of the cluster.
CallInv(c) ==
    /\ call[c] = "launch" => pc[c] = "launch"
    /\ call[c] = "delete" => pc[c] = "delete"

\* A worker that read a live cluster holds it by the finalizer and keeps the
\* finalizer; one that read a deleting cluster drops it only when the load
\* balancer is gone and no Machines were seen.  It replaces no endpoint it knows.
WorkerInv(c) ==
    pc[c] # "idle" =>
        /\ base[c].fin
        /\ loc[c].host # base[c].host => base[c].host = ""
        /\ base[c].ready => loc[c].ready
        /\ \/ /\ base[c].phase = "live"
              /\ loc[c].fin /\ obj[c].fin
              /\ pc[c] \in {"launch", "ovnCreate", "patch"}
           \/ /\ base[c].phase = "deleting"
              /\ obj[c].phase # "live" /\ cache[c].phase # "live"
              /\ pc[c] \in {"delete", "machines", "patch"}
              /\ pc[c] # "patch" => loc[c].fin
              /\ \/ pc[c] = "machines"
                 \/ pc[c] = "patch" /\ ~loc[c].fin
                 \/ pc[c] = "delete" /\ call[c] = "deleted"
                 => Clean(c)
              /\ pc[c] = "patch" /\ ~loc[c].fin => ~machines[c] \/ blind[c]

CInv(c) ==
    KindInv(c) /\ ServerInv(c) /\ ObjectInv(c) /\ CacheInv(c) /\ CallInv(c) /\ WorkerInv(c)

IInv == TypeOK /\ \A c \in Names : CInv(c)

\* The state CInv(c) is about does not change, except that the Cluster may be
\* deleted, its Machines may go, and another owner may take over the network load
\* balancer.
Same(c) ==
    /\ inst'[c] = inst[c] /\ op'[c] = op[c] /\ call'[c] = call[c] /\ leak'[c] = leak[c]
    /\ conf'[c] = conf[c] /\ obj'[c] = obj[c] /\ cache'[c] = cache[c] /\ base'[c] = base[c]
    /\ loc'[c] = loc[c] /\ pc'[c] = pc[c]
    /\ clusterDel[c] => clusterDel'[c]
    /\ machines'[c] => machines[c]
    /\ blind'[c] = blind[c]
    /\ ovn' = c => ovn = c /\ taken' = taken

\* CInv(c) depends on nothing else.
LEMMA Frame == ASSUME NEW c \in Names, CInv(c), Same(c) PROVE CInv(c)'
  <1>1. KindInv(c)' /\ ServerInv(c)' /\ CacheInv(c)' /\ CallInv(c)'
    BY Zenon DEF Same, CInv, KindInv, Balances, ServerInv, CacheInv, CallInv
  <1>2. Clean(c) => Clean(c)'
    BY Zenon DEF Same, Clean
  <1>3. ObjectInv(c)'
    BY <1>2 DEF Same, CInv, ObjectInv
  <1>4. WorkerInv(c)'
    BY <1>2, Zenon DEF Same, CInv, WorkerInv
  <1> QED  BY <1>1, <1>3, <1>4, Zenon DEF CInv

\* A step about cluster k.
StepOf(k) ==
    \/ Outside(k) \/ Observe(k) \/ ObserveMachines(k)
    \/ GainAddress(k) \/ Serve(k) \/ CallGoesOn(k) \/ Reconcile(k) \/ Work(k)

\* A step about cluster k uses the instance of k as the contract allows.
LEMMA UsesContract ==
    ASSUME NEW k \in Names, StepOf(k)
    PROVE  InstStep(k) \/ UNCHANGED instVars
  <1>1. CASE Outside(k) \/ Observe(k) \/ ObserveMachines(k)
    BY <1>1, Zenon DEF Outside, LastMachineGone, DeleteCluster, DeleteLXCCluster, TogglePause, SetInfrastructureReady,
                MachineReconfigures, Observe, ObserveMachines
  <1>2. CASE GainAddress(k) \/ Serve(k) \/ CallGoesOn(k)
    BY <1>2, Zenon DEF GainAddress, Serve, CallGoesOn, InstStep, Server
  <1>3. CASE Reconcile(k)
    BY <1>3, Zenon DEF Reconcile, EnsureFinalizer, ReconcilePaused, CreateInstance, CreateOCI, CreateExternal,
                CreateKubeVIP, TakeEndpoint, CreateOvn, CreateOvnTerminal, ReconcileDelete, DeleteLXC, DeleteOCI,
                DeleteInstance, DeleteOvn, DeleteExternal, DeleteKubeVIP, DeleteNothing,
                ReconcileDeleteUnpatched, InstStep
  <1>4. CASE Work(k)
    BY <1>4, Zenon DEF Work, CreateNetworkLoadBalancer, Launched, NotLaunched, Deleted, NotDeleted, Finalize,
                AwaitMachines, Patch, PatchFails, PatchSome, Step
  <1> QED  BY <1>1, <1>2, <1>3, <1>4, Zenon DEF StepOf

\* Whatever is done about k leaves the state of the others alone.
LEMMA Others ==
    ASSUME TypeOK, NEW k \in Names, NEW c \in Names, c # k, StepOf(k)
    PROVE  Same(c)
  <1>0. c # "none" /\ c # Foreign
    BY OwnersAssumption, Zenon
  <1>1. inst'[c] = inst[c] /\ op'[c] = op[c] /\ call'[c] = call[c] /\ leak'[c] = leak[c]
    BY UsesContract, InstOthers, Zenon DEF TypeOK, instVars
  <1> USE DEF TypeOK, clusterVars, outsideVars, lbVars, ovnVars
  <1>2. CASE Outside(k) \/ Observe(k) \/ ObserveMachines(k)
    BY <1>0, <1>1, <1>2, Zenon DEF Same, Outside, LastMachineGone, DeleteCluster, DeleteLXCCluster, TogglePause,
                            SetInfrastructureReady, MachineReconfigures, Observe, ObserveMachines
  <1>3. CASE GainAddress(k) \/ Serve(k) \/ CallGoesOn(k)
    BY <1>1, <1>3, Zenon DEF Same, GainAddress, Serve, CallGoesOn
  <1>4. CASE Reconcile(k)
    <2>1. CASE EnsureFinalizer(k) \/ ReconcilePaused(k)
      BY <1>1, <2>1, Zenon DEF Same, EnsureFinalizer, ReconcilePaused
    <2>2. CASE CreateInstance(k, "lxc") \/ CreateOCI(k) \/ CreateExternal(k) \/ CreateKubeVIP(k)
               \/ CreateOvn(k) \/ CreateOvnTerminal(k) \/ ReconcileDeleteUnpatched(k)
      BY <1>1, <2>2, Zenon DEF Same, CreateInstance, CreateOCI, CreateExternal, CreateKubeVIP, TakeEndpoint, CreateOvn,
                        CreateOvnTerminal, ReconcileDeleteUnpatched, Take
    <2>3. CASE ReconcileDelete(k)
      BY <1>0, <1>1, <2>3, Zenon DEF Same, ReconcileDelete, DeleteLXC, DeleteOCI, DeleteInstance, DeleteOvn,
                              DeleteExternal, DeleteKubeVIP, DeleteNothing, Take
    <2> QED  BY <1>4, <2>1, <2>2, <2>3, Zenon DEF Reconcile
  <1>5. CASE Work(k)
    <2>1. CASE CreateNetworkLoadBalancer(k)
      BY <1>1, <2>1, Zenon DEF Same, CreateNetworkLoadBalancer
    <2>2. CASE Launched(k) \/ NotLaunched(k) \/ Deleted(k) \/ NotDeleted(k) \/ Finalize(k) \/ AwaitMachines(k)
      BY <1>1, <2>2 DEF Same, Launched, NotLaunched, Deleted, NotDeleted, Finalize, AwaitMachines, Step
    <2>3. CASE Patch(k) \/ PatchFails(k)
      BY <1>1, <2>3 DEF Same, Patch, PatchFails, PatchSome
    <2> QED  BY <1>5, <2>1, <2>2, <2>3, Zenon DEF Work
  <1> QED  BY <1>2, <1>3, <1>4, <1>5, Zenon DEF StepOf

\* The variables CInv depends on are functions on the clusters.
LEMMA Functions ==
    ASSUME TypeOK
    PROVE  /\ inst = [n \in Names |-> inst[n]] /\ op = [n \in Names |-> op[n]]
           /\ call = [n \in Names |-> call[n]] /\ leak = [n \in Names |-> leak[n]]
           /\ obj = [n \in Names |-> obj[n]] /\ cache = [n \in Names |-> cache[n]]
           /\ base = [n \in Names |-> base[n]] /\ loc = [n \in Names |-> loc[n]]
           /\ pc = [n \in Names |-> pc[n]] /\ clusterDel = [n \in Names |-> clusterDel[n]]
           /\ machines = [n \in Names |-> machines[n]] /\ blind = [n \in Names |-> blind[n]]
  BY Zenon DEF TypeOK, InstTypeOK

\* Users, Cluster API and machines keep the invariant: an LXCCluster without a
\* finalizer is deleted only before anything was created for it, and what a
\* machine takes over is marked.
LEMMA OutsideInv == ASSUME TypeOK, NEW c \in Names, CInv(c), Outside(c) PROVE CInv(c)'
  <1> USE DEF instVars, clusterVars, outsideVars, lbVars, ovnVars
  <1>1. CASE LastMachineGone(c) \/ DeleteCluster(c)
    BY <1>1, Functions, Frame, Zenon DEF Same, LastMachineGone, DeleteCluster
  <1>2. CASE DeleteLXCCluster(c)
    <2>1. /\ UNCHANGED <<inst, op, call, leak, conf, cache, base, loc, pc, clusterDel, machines, ovn, taken, blind>>
          /\ obj'[c] = [obj[c] EXCEPT !.phase = IF obj[c].fin THEN "deleting" ELSE "gone"]
          /\ clusterDel[c] /\ obj[c].phase = "live"
      BY <1>2, Functions, Zenon DEF DeleteLXCCluster
    <2>2. /\ obj'[c].phase = (IF obj[c].fin THEN "deleting" ELSE "gone")
          /\ obj'[c].fin = obj[c].fin
      BY <2>1, Typed, Zenon DEF Objects
    <2>3. ObjectInv(c)'
      BY <2>1, <2>2, Zenon DEF CInv, ObjectInv, Clean
    <2>4. CacheInv(c)' /\ WorkerInv(c)'
      BY <2>1, <2>2, Zenon DEF CInv, CacheInv, WorkerInv, Clean
    <2> QED  BY <2>1, <2>3, <2>4, Zenon DEF CInv, KindInv, Balances, ServerInv, CallInv
  <1>3. CASE TogglePause(c) \/ SetInfrastructureReady(c)
    BY <1>3, Frame, Zenon DEF Same, TogglePause, SetInfrastructureReady
  <1>4. CASE MachineReconfigures(c)
    <2>1. /\ UNCHANGED <<inst, op, call, leak, conf, obj, cache, base, loc, pc, clusterDel, machines, blind>>
          /\ Balances(c) /\ taken'
      BY <1>4, Zenon DEF MachineReconfigures, Balances
    <2>2. Clean(c) => Clean(c)'
      BY <2>1, Zenon DEF Clean
    <2>3. ObjectInv(c)' /\ WorkerInv(c)'
      BY <2>1, <2>2, Zenon DEF CInv, ObjectInv, WorkerInv
    <2> QED  BY <2>1, <2>3, Zenon DEF CInv, KindInv, Balances, ServerInv, CacheInv, CallInv
  <1> QED  BY <1>1, <1>2, <1>3, <1>4, Zenon DEF Outside

\* The informer copies may be replaced by the objects at any time.
LEMMA ObserveInv ==
    ASSUME TypeOK, NEW c \in Names, CInv(c), Observe(c) \/ ObserveMachines(c)
    PROVE  CInv(c)'
  <1> USE DEF instVars, clusterVars, outsideVars, lbVars, ovnVars
  <1>1. CASE Observe(c)
    <2>1. /\ UNCHANGED <<inst, op, call, leak, conf, obj, base, loc, pc, clusterDel, machines, ovn, taken, blind>>
          /\ cache'[c] = obj[c] /\ obj[c].phase \in {"live", "deleting", "gone"}
      BY <1>1, Functions, Typed, Zenon DEF Observe, Objects
    <2>2. Clean(c) => Clean(c)'
      BY <2>1, Zenon DEF Clean
    <2>3. CacheInv(c)' /\ WorkerInv(c)'
      BY <2>1, <2>2, Zenon DEF CInv, ObjectInv, CacheInv, WorkerInv
    <2> QED  BY <2>1, <2>2, <2>3, Zenon DEF CInv, KindInv, Balances, ServerInv, ObjectInv, CallInv
  <1>2. CASE ObserveMachines(c)
    BY <1>2, Frame, Zenon DEF Same, ObserveMachines
  <1> QED  BY <1>1, <1>2, Zenon

\* The server and the calls in progress keep the invariant.
LEMMA InstanceInv ==
    ASSUME TypeOK, NEW c \in Names, CInv(c), GainAddress(c) \/ Serve(c) \/ CallGoesOn(c)
    PROVE  CInv(c)'
  <1> USE DEF clusterVars, outsideVars, lbVars, ovnVars
  <1>0. /\ UNCHANGED <<conf, obj, cache, base, loc, pc, clusterDel, machines, ovn, taken, blind>>
        /\ InstTypeOK /\ obj[c].phase \in {"live", "deleting", "gone"} /\ op[c] \in OpKinds
    BY Typed, Zenon DEF GainAddress, Serve, CallGoesOn, TypeOK, InstTypeOK, Objects
  <1>1. CASE UNCHANGED instVars
    BY <1>0, <1>1, Frame, Zenon DEF Same, instVars
  <1>2. CASE Server(c)
    <2>1. /\ UNCHANGED <<call, leak>> /\ op'[c] = "none"
          /\ inst'[c] # "absent" => inst[c] # "absent" \/ op[c] = "create"
      BY <1>0, <1>2, ServerEffect, AfterOp, Zenon DEF OpKinds, CInv, ServerInv
    <2>2. inst[c] = "absent" /\ op[c] = "none" => inst'[c] = "absent"
      BY <2>1, Zenon
    <2>3. Clean(c) => Clean(c)'
      BY <1>0, <2>1, Zenon DEF Clean
    <2>4. KindInv(c)' /\ ServerInv(c)' /\ CallInv(c)' /\ CacheInv(c)'
      BY <1>0, <2>1, <2>2, Zenon DEF CInv, KindInv, Balances, ServerInv, CallInv, CacheInv
    <2> QED  BY <1>0, <2>1, <2>2, <2>3, <2>4, Zenon DEF CInv, ObjectInv, WorkerInv
  <1>3. CASE Progress(c)
    <2>0. UNCHANGED inst
      BY <1>0, <1>3, ProgressEffect, Zenon
    <2>1. conf[c].kind \in Instances
      BY <1>0, <1>3, ProgressEffect, Zenon DEF CInv, KindInv, Balances, Calls
    <2>2. CASE op'[c] \in {"create", "start"} /\ call[c] = "launch" /\ UNCHANGED <<call, leak>>
               /\ (op'[c] = "start" => inst[c] # "absent")
      <3>1. pc[c] = "launch" /\ base[c].phase = "live" /\ obj[c].fin
        BY <2>2, Zenon DEF CInv, CallInv, WorkerInv
      <3>2. ObjectInv(c)' /\ WorkerInv(c)'
        BY <1>0, <2>0, <2>2, <3>1, Zenon DEF CInv, ObjectInv, WorkerInv
      <3> QED  BY <1>0, <2>0, <2>1, <2>2, <3>2, Zenon DEF CInv, KindInv, Balances, ServerInv, CallInv, CacheInv
    <2>3. CASE op'[c] \in {"stop", "delete"} /\ call[c] = "delete" /\ UNCHANGED <<call, leak>>
               /\ inst[c] # "absent"
      <3>1. pc[c] = "delete" /\ base[c].phase = "deleting" /\ obj[c].phase # "live"
        BY <2>3, Zenon DEF CInv, CallInv, WorkerInv
      <3>2. Clean(c) => Clean(c)'
        BY <1>0, <2>0, <2>3, Zenon DEF Clean
      <3>3. WorkerInv(c)'
        BY <1>0, <2>3, <3>2, Zenon DEF CInv, WorkerInv
      <3> QED  BY <1>0, <2>0, <2>1, <2>3, <3>1, <3>2, <3>3, Zenon
                DEF CInv, KindInv, Balances, ServerInv, ObjectInv, CallInv, CacheInv
    <2>4. CASE UNCHANGED <<op, call, leak>>
      BY <1>0, <2>0, <2>4, Frame, Zenon DEF Same
    <2>5. CASE UNCHANGED <<op, leak>> /\ call'[c] \in {"launched", "terminal", "deadline", "error"}
      <3>1. Clean(c) => Clean(c)'
        BY <1>0, <2>0, <2>5, Zenon DEF Clean
      <3>2. WorkerInv(c)'
        BY <1>0, <2>5, <3>1, Zenon DEF CInv, WorkerInv
      <3> QED  BY <1>0, <2>0, <2>1, <2>5, <3>1, <3>2, Zenon
                DEF CInv, KindInv, Balances, ServerInv, ObjectInv, CallInv, CacheInv
    <2>6. CASE UNCHANGED op /\ call[c] = "delete" /\ call'[c] = "deleted"
               /\ leak'[c] = (inst[c] # "absent" \/ op[c] = "create")
      <3>1. pc[c] = "delete"
        BY <2>6, Zenon DEF CInv, CallInv
      <3>2. ovn # c
        BY <2>1, Zenon DEF CInv, KindInv, Balances, Instances
      <3>3. Clean(c)'
        BY <1>0, <2>0, <2>6, <3>2, Zenon DEF Clean
      <3>4. WorkerInv(c)'
        BY <1>0, <2>6, <3>1, <3>3, Zenon DEF CInv, WorkerInv
      <3> QED  BY <1>0, <2>0, <2>1, <2>6, <3>1, <3>3, <3>4, Zenon
                DEF CInv, KindInv, Balances, ServerInv, ObjectInv, CallInv, CacheInv
    <2> QED  BY <1>0, <1>3, <2>2, <2>3, <2>4, <2>5, <2>6, ProgressEffect, Zenon DEF Running
  <1> QED  BY <1>1, <1>2, <1>3, Zenon DEF GainAddress, Serve, CallGoesOn, Server

\* A worker takes its copies of a live LXCCluster.
LEMMA TakeLive ==
    ASSUME TypeOK, NEW c \in Names, CInv(c), pc[c] = "idle", cache[c].phase = "live", cache[c].fin,
           NEW next \in {"launch", "ovnCreate", "patch"}, NEW changed, Take(c, next, changed),
           changed.fin, changed.host = cache[c].host, cache[c].ready => changed.ready,
           UNCHANGED <<inst, op, leak, obj, ovnVars, blind>>,
           \/ next = "launch" /\ call'[c] = "launch" /\ conf[c].kind \in Instances
           \/ next = "ovnCreate" /\ UNCHANGED call /\ Balances(c)
           \/ next = "patch" /\ UNCHANGED call
    PROVE  CInv(c)'
  <1>1. /\ pc'[c] = next /\ base'[c] = cache[c] /\ loc'[c] = changed
        /\ UNCHANGED <<conf, cache, clusterDel, machines, ovn, taken>>
    BY Functions, Zenon DEF Take, outsideVars, ovnVars
  <1>2. Clean(c) => Clean(c)'
    BY <1>1, Zenon DEF Clean
  <1>3. KindInv(c)' /\ ServerInv(c)' /\ CacheInv(c)'
    BY <1>1, Zenon DEF CInv, KindInv, Balances, ServerInv, CacheInv, Instances
  <1>4. ObjectInv(c)'
    BY <1>1, <1>2, Zenon DEF CInv, ObjectInv
  <1>5. CallInv(c)'
    BY <1>1, Zenon DEF CInv, CallInv
  <1>6. WorkerInv(c)'
    BY <1>1, Zenon DEF CInv, CacheInv, WorkerInv
  <1> QED  BY <1>3, <1>4, <1>5, <1>6, Zenon DEF CInv

\* A worker takes its copies of a deleting LXCCluster.
LEMMA TakeDeleting ==
    ASSUME TypeOK, NEW c \in Names, CInv(c), pc[c] = "idle", cache[c].phase = "deleting",
           NEW next \in {"delete", "machines", "patch"}, NEW changed, Take(c, next, changed),
           changed.fin, changed.host = cache[c].host, cache[c].ready => changed.ready,
           UNCHANGED <<inst, op, leak, blind>>,
           obj'[c].phase = obj[c].phase, obj'[c].fin = obj[c].fin,
           ovn' = c => ovn = c /\ taken' = taken,
           \/ next = "delete" /\ call'[c] = "delete" /\ conf[c].kind \in Instances
           \/ next = "machines" /\ UNCHANGED call /\ conf[c].kind \notin Instances /\ ovn' # c
           \/ next = "patch" /\ UNCHANGED call
    PROVE  CInv(c)'
  <1>1. /\ pc'[c] = next /\ base'[c] = cache[c] /\ loc'[c] = changed
        /\ UNCHANGED <<conf, cache, clusterDel, machines>>
    BY Functions, Zenon DEF Take, outsideVars
  <1>2. Clean(c) => Clean(c)'
    BY <1>1, Zenon DEF Clean
  <1>3. next = "machines" => Clean(c)'
    BY Zenon DEF CInv, KindInv, Balances, Clean
  <1>4. KindInv(c)' /\ ServerInv(c)' /\ CacheInv(c)'
    BY <1>1, Zenon DEF CInv, KindInv, Balances, ServerInv, CacheInv, Instances
  <1>5. ObjectInv(c)'
    BY <1>1, <1>2, Zenon DEF CInv, ObjectInv
  <1>6. CallInv(c)'
    BY <1>1, Zenon DEF CInv, CallInv
  <1>7. WorkerInv(c)'
    BY <1>1, <1>3, Zenon DEF CInv, CacheInv, WorkerInv
  <1> QED  BY <1>4, <1>5, <1>6, <1>7, Zenon DEF CInv

\* Whatever the informer copies show, the first part of Reconcile keeps the
\* invariant.
LEMMA ReconcileInv == ASSUME TypeOK, NEW c \in Names, CInv(c), Reconcile(c) PROVE CInv(c)'
  <1>0. /\ obj[c] \in Objects /\ cache[c] \in Objects /\ cache[c].host \in Hosts
        /\ c # "none" /\ InstTypeOK
    BY Typed, OwnersAssumption, Zenon DEF TypeOK
  <1>1. /\ \A x \in {Aborted(cache[c]), Failed(cache[c]), Deleting(cache[c])} :
              x.fin = cache[c].fin /\ x.host = cache[c].host /\ x.ready = cache[c].ready
        /\ Available(cache[c], cache[c].host).fin = cache[c].fin
        /\ Available(cache[c], cache[c].host).host = cache[c].host
        /\ Available(cache[c], cache[c].host).ready
        /\ Deleting(obj[c]).fin = obj[c].fin /\ Deleting(obj[c]).phase = obj[c].phase
    BY <1>0, Zenon DEF Aborted, Failed, Deleting, Available, Objects
  <1>2. CASE EnsureFinalizer(c)
    <2>1. /\ obj'[c] = [obj[c] EXCEPT !.fin = TRUE] /\ obj[c].phase = "live" /\ pc[c] = "idle"
          /\ UNCHANGED <<inst, op, call, leak, conf, cache, base, loc, pc, clusterDel, machines, ovn, taken, blind>>
      BY <1>2, Functions, Zenon DEF EnsureFinalizer, Dispatch, instVars, outsideVars, lbVars, ovnVars
    <2>2. obj'[c].phase = "live" /\ obj'[c].fin
      BY <1>0, <2>1, Zenon DEF Objects
    <2> QED  BY <2>1, <2>2, Zenon DEF CInv, KindInv, Balances, ServerInv, ObjectInv, CacheInv, CallInv, WorkerInv
  <1>3. CASE ReconcilePaused(c)
    <2>1. /\ obj'[c] = [obj[c] EXCEPT !.paused = PausedStatus(c)]
          /\ UNCHANGED <<inst, op, call, leak, conf, cache, base, loc, pc, clusterDel, machines, ovn, taken, blind>>
      BY <1>3, Functions, Zenon DEF ReconcilePaused, instVars, outsideVars, lbVars, ovnVars
    <2>2. obj'[c].phase = obj[c].phase /\ obj'[c].fin = obj[c].fin
      BY <1>0, <2>1, Zenon DEF Objects
    <2>3. Clean(c) => Clean(c)'
      BY <2>1, Zenon DEF Clean
    <2>4. ObjectInv(c)' /\ WorkerInv(c)'
      BY <2>1, <2>2, <2>3, Zenon DEF CInv, ObjectInv, WorkerInv
    <2> QED  BY <2>1, <2>2, <2>4, Zenon DEF CInv, KindInv, Balances, ServerInv, CacheInv, CallInv
  <1>4. ASSUME NEW kinds, Normal(c, kinds)
        PROVE  pc[c] = "idle" /\ cache[c].phase = "live" /\ cache[c].fin /\ conf[c].kind \in kinds
    BY <1>4, Zenon DEF Normal, Active, Finalized, Dispatch
  <1>5. ASSUME NEW kind \in Instances, CreateInstance(c, kind) PROVE CInv(c)'
    <2>1. call'[c] = "launch" /\ UNCHANGED <<inst, op, leak>>
      BY <1>0, <1>5, BeginEffect, Zenon DEF CreateInstance
    <2>2. Take(c, "launch", cache[c]) /\ UNCHANGED <<obj, ovnVars, blind>> /\ Normal(c, {kind})
      BY <1>5, Zenon DEF CreateInstance
    <2>3. conf[c].kind \in Instances
      BY <1>4, <1>5, <2>2
    <2> QED  BY <1>4, <2>1, <2>2, <2>3, TakeLive, Zenon
  <1>6. ASSUME NEW kinds, Normal(c, kinds), UNCHANGED <<instVars, obj, ovnVars, blind>>,
               NEW changed \in {Aborted(cache[c]), Failed(cache[c]), Available(cache[c], cache[c].host)},
               Take(c, "patch", changed)
        PROVE  CInv(c)'
    <2>1. changed.fin = cache[c].fin /\ changed.host = cache[c].host /\ (cache[c].ready => changed.ready)
      BY <1>1, <1>6, Zenon
    <2>2. UNCHANGED <<inst, op, call, leak, obj, ovnVars, blind>>
      BY <1>6, Zenon DEF instVars
    <2> QED  BY <1>4, <1>6, <2>1, <2>2, TakeLive, Zenon
  <1>7. CASE CreateInstance(c, "lxc") \/ CreateOCI(c)
    BY <1>5, <1>6, <1>7, Zenon DEF CreateOCI, Instances
  <1>8. CASE CreateExternal(c) \/ CreateKubeVIP(c)
    BY <1>6, <1>8, Zenon DEF CreateExternal, CreateKubeVIP, TakeEndpoint
  <1>9. CASE CreateOvn(c) \/ CreateOvnTerminal(c)
    <2>1. CASE Take(c, "ovnCreate", cache[c])
      <3>1. UNCHANGED <<inst, op, call, leak, obj, ovnVars, blind>> /\ Normal(c, {"ovn"})
        BY <1>9, Zenon DEF CreateOvn, CreateOvnTerminal, instVars
      <3>2. Balances(c)
        <4>1. pc'[c] = "ovnCreate"
          BY <2>1, Functions, Zenon DEF Take
        <4>2. CreateOvn(c)
          <5>1. CASE CreateOvnTerminal(c)
            <6>1. pc'[c] = "patch"
              BY <5>1, Functions, Zenon DEF CreateOvnTerminal, Take
            <6> QED  BY <4>1, <6>1
          <5> QED  BY <1>9, <5>1, Zenon
        <4>3. conf[c].kind = "ovn"
          BY <1>4, <3>1
        <4> QED  BY <4>2, <4>3, Zenon DEF CreateOvn, Balances
      <3> QED  BY <1>4, <2>1, <3>1, <3>2, TakeLive, Zenon
    <2> QED  BY <1>6, <1>9, <2>1, Zenon DEF CreateOvn, CreateOvnTerminal
  <1>10. ASSUME DeleteGuard(c)
         PROVE  pc[c] = "idle" /\ cache[c].phase = "deleting" /\ cache[c].fin
    BY <1>10, Zenon DEF DeleteGuard, Active, Finalized, Dispatch, CInv, CacheInv
  <1>11. CASE ReconcileDelete(c)
    <2>0. DeleteGuard(c) /\ UNCHANGED blind
      BY <1>11, Zenon DEF ReconcileDelete
    <2>1. obj'[c].phase = obj[c].phase /\ obj'[c].fin = obj[c].fin
      BY <1>1, <1>11, Functions, Zenon DEF ReconcileDelete
    <2>2. CASE DeleteLXC(c) \/ DeleteOCI(c)
      <3>1. /\ Take(c, "delete", Deleting(cache[c])) /\ conf[c].kind \in Instances
            /\ BeginDelete(c) /\ UNCHANGED <<ovn, taken>>
        BY <2>2, Zenon DEF DeleteLXC, DeleteOCI, DeleteInstance, Instances, ovnVars
      <3>2. call'[c] = "delete" /\ UNCHANGED <<inst, op, leak>>
        BY <1>0, <3>1, BeginEffect, Zenon
      <3> QED  BY <1>1, <1>10, <2>0, <2>1, <3>1, <3>2, TakeDeleting, Zenon
    <2>3. CASE DeleteOvn(c)
      <3>1. /\ conf[c].kind \notin Instances /\ UNCHANGED <<inst, op, call, leak>>
            /\ \/ Take(c, "machines", Deleting(cache[c])) /\ ovn' # c
               \/ Take(c, "patch", Deleting(cache[c])) /\ UNCHANGED <<ovn, taken>>
        <4>1. conf[c].network # "ok" => ovn # c
          BY Zenon DEF CInv, KindInv, Balances
        <4> QED  BY <1>0, <2>3, <4>1, Zenon DEF DeleteOvn, Instances, instVars, ovnVars
      <3> QED  BY <1>1, <1>10, <2>0, <2>1, <3>1, TakeDeleting, Zenon
    <2>4. CASE DeleteExternal(c) \/ DeleteKubeVIP(c)
      <3>1. /\ conf[c].kind \notin Instances /\ conf[c].kind # "ovn"
            /\ UNCHANGED <<inst, op, call, leak, ovn, taken>>
            /\ Take(c, "machines", Deleting(cache[c]))
        BY <2>4, Zenon DEF DeleteExternal, DeleteKubeVIP, DeleteNothing, Instances, instVars, ovnVars
      <3>2. ovn' # c
        BY <3>1, Zenon DEF CInv, KindInv, Balances
      <3> QED  BY <1>1, <1>10, <2>0, <2>1, <3>1, <3>2, TakeDeleting, Zenon
    <2> QED  BY <1>11, <2>2, <2>3, <2>4, Zenon DEF ReconcileDelete
  <1>12. CASE ReconcileDeleteUnpatched(c)
    <2>1. /\ DeleteGuard(c) /\ Take(c, "patch", Deleting(cache[c]))
          /\ UNCHANGED <<inst, op, call, leak, obj, ovn, taken, blind>>
      BY <1>12, Zenon DEF ReconcileDeleteUnpatched, instVars, ovnVars
    <2> QED  BY <1>1, <1>10, <2>1, TakeDeleting, Zenon
  <1> QED  BY <1>2, <1>3, <1>7, <1>8, <1>9, <1>11, <1>12, Zenon DEF Reconcile

\* A step of a worker that has its copies: it keeps what WorkerInv says of them.
LEMMA StepInv ==
    ASSUME TypeOK, NEW c \in Names, CInv(c), NEW from \in Pcs \ {"idle"}, NEW next \in {"machines", "patch"},
           NEW changed, pc[c] = from, pc'[c] = next, loc'[c] = changed,
           UNCHANGED <<inst, op, call, leak, conf, obj, cache, base, clusterDel, machines>>,
           call[c] \notin Calls,
           ovn' = c => Balances(c) /\ (base[c].phase = "live" \/ (ovn = c /\ taken' = taken)),
           changed.host # base[c].host => base[c].host = "",
           base[c].ready => changed.ready,
           base[c].phase = "live" => next = "patch" /\ changed.fin,
           base[c].phase = "deleting" =>
               /\ next = "machines" => changed.fin
               /\ next = "machines" \/ ~changed.fin => Clean(c)
               /\ next = "patch" /\ ~changed.fin => ~machines[c] \/ blind'[c]
    PROVE  CInv(c)'
  <1>1. base[c].phase # "live" => base[c].phase = "deleting" /\ (Clean(c) => Clean(c)')
    BY Zenon DEF CInv, WorkerInv, Clean
  <1>2. KindInv(c)' /\ ServerInv(c)' /\ CacheInv(c)' /\ CallInv(c)'
    BY Zenon DEF CInv, KindInv, Balances, ServerInv, CacheInv, CallInv, Calls
  <1>3. ObjectInv(c)'
    <2>1. CASE base[c].phase = "live"
      BY <2>1, Zenon DEF CInv, ObjectInv, WorkerInv
    <2>2. CASE base[c].phase = "deleting"
      BY <1>1, <2>2, Zenon DEF CInv, ObjectInv, WorkerInv
    <2> QED  BY <1>1, <2>1, <2>2, Zenon
  <1>4. WorkerInv(c)'
    <2>1. CASE base[c].phase = "live"
      BY <2>1, Zenon DEF CInv, WorkerInv
    <2>2. CASE base[c].phase = "deleting"
      BY <1>1, <2>2, Zenon DEF CInv, WorkerInv
    <2> QED  BY <1>1, <2>1, <2>2, Zenon
  <1> QED  BY <1>2, <1>3, <1>4, Zenon DEF CInv

\* The deferred patch keeps the invariant, whichever of its writes succeed.
LEMMA PatchInv == ASSUME TypeOK, NEW c \in Names, CInv(c), NEW ok, PatchSome(c, ok) PROVE CInv(c)'
  <1> DEFINE new == Merge(obj[c], base[c], loc[c], ok)
  <1>0. obj[c] \in Objects /\ base[c] \in Objects /\ loc[c] \in Objects
    BY Typed, Zenon
  <1>1. /\ pc[c] = "patch" /\ pc'[c] = "idle"
        /\ UNCHANGED <<inst, op, call, leak, conf, cache, clusterDel, machines, ovn, taken, blind>>
        /\ obj'[c] = (IF obj[c].phase = "gone" THEN obj[c] ELSE new)
    BY Functions, Zenon DEF PatchSome, instVars, outsideVars, lbVars, ovnVars
  <1>2. /\ new.fin = (IF "object" \in ok /\ loc[c].fin # base[c].fin THEN loc[c].fin ELSE obj[c].fin)
        /\ new.phase = (IF obj[c].phase = "deleting" /\ ~new.fin THEN "gone" ELSE obj[c].phase)
    BY Zenon DEF Merge
  <1> HIDE DEF new
  <1>3. Clean(c) => Clean(c)'
    BY <1>1, Zenon DEF Clean
  <1>4. KindInv(c)' /\ ServerInv(c)' /\ CallInv(c)' /\ WorkerInv(c)'
    BY <1>1, Zenon DEF CInv, KindInv, Balances, ServerInv, CallInv, WorkerInv
  <1>5. CASE obj[c].phase = "gone" \/ new.fin = obj[c].fin
    <2>1. obj'[c].phase = obj[c].phase /\ obj'[c].fin = obj[c].fin
      BY <1>0, <1>1, <1>2, <1>5, Zenon DEF CInv, ObjectInv
    <2>2. ObjectInv(c)' /\ CacheInv(c)'
      BY <1>1, <1>3, <2>1, Zenon DEF CInv, ObjectInv, CacheInv
    <2> QED  BY <1>4, <2>2, Zenon DEF CInv
  <1>6. CASE obj[c].phase # "gone" /\ new.fin # obj[c].fin
    <2>1. base[c].phase = "deleting" /\ ~loc[c].fin /\ new.fin = loc[c].fin
      BY <1>0, <1>1, <1>2, <1>6, Zenon DEF CInv, WorkerInv, Objects
    <2>2. obj[c].phase = "deleting" /\ cache[c].phase # "live" /\ Clean(c)
      BY <1>0, <1>1, <1>6, <2>1, Zenon DEF CInv, WorkerInv, Objects
    <2>3. obj'[c].phase = "gone" /\ ~obj'[c].fin
      BY <1>1, <1>2, <1>6, <2>1, <2>2, Zenon
    <2>4. ObjectInv(c)' /\ CacheInv(c)'
      BY <1>1, <1>3, <2>2, <2>3, Zenon DEF CInv, ObjectInv, CacheInv
    <2> QED  BY <1>4, <2>4, Zenon DEF CInv
  <1> QED  BY <1>5, <1>6, Zenon

\* The rest of Reconcile keeps the invariant.
LEMMA WorkInv == ASSUME TypeOK, NEW c \in Names, CInv(c), Work(c) PROVE CInv(c)'
  <1>0. /\ loc[c] \in Objects /\ first[c] \in Hosts /\ loc[c].host \in Hosts
        /\ {"launch", "ovnCreate", "delete", "machines", "patch"} \subseteq Pcs \ {"idle"}
    BY Typed, Zenon DEF Pcs, Hosts
  <1>1. /\ \A x \in {Aborted(loc[c]), Failed(loc[c])} :
              x.fin = loc[c].fin /\ x.host = loc[c].host /\ x.ready = loc[c].ready
        /\ \A ip \in Hosts : /\ Available(loc[c], ip).fin = loc[c].fin /\ Available(loc[c], ip).ready
                             /\ loc[c].host # "" => Available(loc[c], ip).host = loc[c].host
        /\ [loc[c] EXCEPT !.fin = FALSE].host = loc[c].host
        /\ [loc[c] EXCEPT !.fin = FALSE].ready = loc[c].ready
        /\ ~[loc[c] EXCEPT !.fin = FALSE].fin
    BY <1>0, Zenon DEF Aborted, Failed, Available, Objects
  <1>2. loc = [n \in Names |-> loc[n]] /\ pc = [n \in Names |-> pc[n]] /\ blind = [n \in Names |-> blind[n]]
    BY Functions, Zenon
  <1>3. pc[c] # "idle" =>
            /\ loc[c].host # base[c].host => base[c].host = ""
            /\ base[c].host # "" => loc[c].host = base[c].host
            /\ base[c].ready => loc[c].ready
            /\ base[c].phase = "live" => loc[c].fin /\ pc[c] \in {"launch", "ovnCreate", "patch"}
            /\ pc[c] \in {"delete", "machines"} => base[c].phase = "deleting"
            /\ pc[c] \in {"launch", "ovnCreate"} => base[c].phase = "live"
    BY Zenon DEF CInv, WorkerInv
  <1>4. ovn = c => Balances(c)
    BY Zenon DEF CInv, KindInv, Balances
  <1>5. CASE CreateNetworkLoadBalancer(c)
    <2>1. /\ pc[c] = "ovnCreate" /\ pc'[c] = "patch"
          /\ UNCHANGED <<inst, op, call, leak, conf, obj, cache, base, clusterDel, machines>>
          /\ loc'[c] \in {Available(loc[c], loc[c].host), Failed(loc[c])}
      BY <1>5, Functions, Zenon DEF CreateNetworkLoadBalancer, instVars, outsideVars
    <2>2. call[c] \notin Calls /\ Balances(c) /\ base[c].phase = "live"
      BY <1>3, <2>1, Zenon DEF CInv, CallInv, KindInv, Balances, Calls
    <2>3. /\ loc'[c].fin = loc[c].fin /\ (loc[c].ready => loc'[c].ready)
          /\ loc[c].host # "" => loc'[c].host = loc[c].host
      BY <1>0, <1>1, <2>1, Zenon
    <2>4. /\ loc'[c].host # base[c].host => base[c].host = ""
          /\ base[c].ready => loc'[c].ready
          /\ loc'[c].fin
      BY <1>3, <2>1, <2>2, <2>3, Zenon
    <2> QED  BY <1>0, <2>1, <2>2, <2>4, StepInv, Zenon
  <1> DEFINE Rest == UNCHANGED <<inst, op, call, leak, conf, obj, cache, base, clusterDel, machines, ovn, taken>>
  <1> USE DEF Step, instVars, outsideVars, lbVars, ovnVars
  <1>6. CASE Launched(c) \/ NotLaunched(c)
    <2>1. /\ pc[c] = "launch" /\ pc'[c] = "patch" /\ Rest /\ call[c] \notin Calls
          /\ loc'[c] \in {Available(loc[c], first[c]), Aborted(loc[c]), Failed(loc[c])}
      BY <1>2, <1>6, Zenon DEF Launched, NotLaunched, Calls
    <2>2. base[c].phase = "live"
      BY <1>3, <2>1, Zenon
    <2>3. /\ loc'[c].fin = loc[c].fin /\ (loc[c].ready => loc'[c].ready)
          /\ loc[c].host # "" => loc'[c].host = loc[c].host
      BY <1>0, <1>1, <2>1, Zenon
    <2>4. /\ loc'[c].host # base[c].host => base[c].host = ""
          /\ base[c].ready => loc'[c].ready
          /\ loc'[c].fin
      BY <1>3, <2>1, <2>2, <2>3, Zenon
    <2> QED  BY <1>0, <1>4, <2>1, <2>2, <2>4, StepInv, Zenon
  <1>7. CASE Deleted(c)
    <2>1. /\ pc[c] = "delete" /\ pc'[c] = "machines" /\ Rest /\ call[c] = "deleted" /\ loc'[c] = loc[c]
      BY <1>2, <1>7, Zenon DEF Deleted
    <2>2. base[c].phase = "deleting" /\ call[c] \notin Calls /\ Clean(c) /\ loc[c].fin
      BY <1>3, <2>1, Zenon DEF Calls, CInv, WorkerInv
    <2> QED  BY <1>0, <1>3, <1>4, <2>1, <2>2, StepInv, Zenon
  <1>8. CASE NotDeleted(c)
    <2>1. /\ pc[c] = "delete" /\ pc'[c] = "patch" /\ Rest /\ call[c] = "error" /\ loc'[c] = loc[c]
      BY <1>2, <1>8, Zenon DEF NotDeleted
    <2>2. base[c].phase = "deleting" /\ call[c] \notin Calls /\ loc[c].fin
      BY <1>3, <2>1, Zenon DEF Calls, CInv, WorkerInv
    <2> QED  BY <1>0, <1>3, <1>4, <2>1, <2>2, StepInv, Zenon
  <1>9. CASE Finalize(c)
    <2>1. /\ pc[c] = "machines" /\ pc'[c] = "patch" /\ Rest
          /\ loc'[c] = [loc[c] EXCEPT !.fin = FALSE]
          /\ blind'[c] = machines[c] \/ blind'[c] = TRUE
      BY <1>2, <1>9, Zenon DEF Finalize
    <2>2. base[c].phase = "deleting" /\ call[c] \notin Calls /\ Clean(c)
      BY <1>3, <2>1, Zenon DEF Calls, CInv, CallInv, WorkerInv
    <2>3. ~machines[c] \/ blind'[c]
      BY <2>1, Zenon
    <2>4. ~loc'[c].fin /\ loc'[c].host = loc[c].host /\ loc'[c].ready = loc[c].ready
      BY <1>1, <2>1, Zenon
    <2> QED  BY <1>0, <1>3, <1>4, <2>1, <2>2, <2>3, <2>4, StepInv, Zenon
  <1>10. CASE AwaitMachines(c)
    <2>1. /\ pc[c] = "machines" /\ pc'[c] = "patch" /\ Rest /\ loc'[c] = loc[c] /\ UNCHANGED blind
      BY <1>2, <1>10, Zenon DEF AwaitMachines
    <2>2. base[c].phase = "deleting" /\ call[c] \notin Calls /\ Clean(c)
      BY <1>3, <2>1, Zenon DEF Calls, CInv, CallInv, WorkerInv
    <2>3. loc[c].fin
      BY <2>1, <2>2, Zenon DEF CInv, WorkerInv
    <2> QED  BY <1>0, <1>3, <1>4, <2>1, <2>2, <2>3, StepInv, Zenon
  <1>11. CASE Patch(c) \/ PatchFails(c)
    BY <1>11, PatchInv, Zenon DEF Patch, PatchFails
  <1> QED  BY <1>5, <1>6, <1>7, <1>8, <1>9, <1>10, <1>11, Zenon DEF Work

\* A restart forgets copies and calls, never what is Clean.
LEMMA CrashInv == ASSUME TypeOK, NEW c \in Names, CInv(c), Crash PROVE CInv(c)'
  <1>1. /\ UNCHANGED <<inst, op, leak, conf, obj, clusterDel, machines, ovn, taken, blind>>
        /\ call'[c] = "idle" /\ pc'[c] = "idle" /\ cache'[c] = obj[c]
        /\ obj[c].phase \in {"live", "deleting", "gone"}
    BY Typed, Zenon DEF Crash, AbandonCalls, lbVars, ovnVars, Objects
  <1>2. Clean(c) => Clean(c)'
    BY <1>1, Zenon DEF Clean
  <1>3. KindInv(c)' /\ ServerInv(c)' /\ CallInv(c)' /\ CacheInv(c)' /\ WorkerInv(c)'
    BY <1>1, Zenon DEF CInv, KindInv, Balances, ServerInv, CallInv, CacheInv, WorkerInv, ObjectInv, Calls
  <1> QED  BY <1>1, <1>2, <1>3, Zenon DEF CInv, ObjectInv

\* The invariant holds initially.
LEMMA InitInv == Init => IInv
  <1> SUFFICES ASSUME Init, NEW c \in Names PROVE CInv(c)
    BY InitType, Zenon DEF IInv
  <1>1. PICK h \in [Names -> {"", "vip"}] : obj = [k \in Names |-> [Fresh EXCEPT !.host = h[k]]]
    BY Zenon DEF Init
  <1>2. obj[c].phase = "live" /\ ~obj[c].fin
    BY <1>1, Zenon DEF Fresh
  <1>3. /\ inst[c] = "absent" /\ op[c] = "none" /\ call[c] = "idle" /\ pc[c] = "idle"
        /\ cache[c] = obj[c] /\ ovn # c
    BY OwnersAssumption, Zenon DEF Init, InstInit
  <1> QED  BY <1>2, <1>3, Zenon DEF CInv, KindInv, Balances, ServerInv, ObjectInv, CacheInv, CallInv, WorkerInv, Calls

\* Next, cluster by cluster.
LEMMA NextSteps ==
    ASSUME [Next]_vars
    PROVE  \/ \E k \in Names : StepOf(k)
           \/ ForeignOvn \/ Crash \/ UNCHANGED vars
  BY Zenon DEF Next, StepOf

\* The invariant is inductive.
LEMMA NextInv == IInv /\ [Next]_vars => IInv'
  <1> SUFFICES ASSUME IInv, [Next]_vars, NEW c \in Names PROVE CInv(c)'
    BY NextType, Zenon DEF IInv
  <1>0. TypeOK /\ CInv(c) /\ c # "none" /\ c # Foreign
    BY OwnersAssumption, Zenon DEF IInv
  <1>1. ASSUME NEW k \in Names, StepOf(k) PROVE CInv(c)'
    <2>1. CASE k # c
      BY <1>0, <1>1, <2>1, Others, Frame, Zenon
    <2>2. CASE k = c
      BY <1>0, <1>1, <2>2, OutsideInv, ObserveInv, InstanceInv, ReconcileInv, WorkInv, Zenon DEF StepOf
    <2> QED  BY <2>1, <2>2, Zenon
  <1>2. CASE Crash
    BY <1>0, <1>2, CrashInv, Zenon
  <1>3. CASE ForeignOvn
    BY <1>0, <1>3, Frame, Zenon DEF ForeignOvn, Same, instVars, clusterVars, outsideVars
  <1>4. CASE UNCHANGED vars
    BY <1>0, <1>4, Frame, Zenon DEF vars, Same, instVars, clusterVars, outsideVars, lbVars, ovnVars
  <1> QED  BY <1>1, <1>2, <1>3, <1>4, NextSteps, Zenon

\* The invariant holds in every reachable state.
LEMMA Invariance == Spec => []IInv
  BY InitInv, NextInv, PTL DEF Spec

\* controller.go:89, "Add finalizer first if not set to avoid the race condition
\* between init and delete": whatever the informer cache shows, however often the
\* manager crashes and whichever writes fail, a load balancer is only created
\* while the finalizer keeps the LXCCluster.
THEOREM CreationHeldByFinalizer == Spec => []CreateUnderFinalizer
  <1>1. IInv => CreateUnderFinalizer
    <2> SUFFICES ASSUME IInv, NEW c \in Names, call[c] = "launch" \/ pc[c] = "ovnCreate" PROVE obj[c].fin
      BY Zenon DEF CreateUnderFinalizer
    <2> QED  BY Zenon DEF IInv, CInv, CallInv, WorkerInv
  <1> QED  BY <1>1, Invariance, PTL

\* manager.go:18, "Delete cleans up any load balancer resources": what is left of
\* a load balancer when its LXCCluster is gone is what the client's last delete
\* left behind, or a network load balancer of somebody else that a machine took
\* over, for clusters that share a listen address as well.
THEOREM LoadBalancersAreRemoved == Spec => []LoadBalancerRemoved
  <1>1. IInv => LoadBalancerRemoved
    BY Zenon DEF IInv, CInv, ObjectInv, Clean, LoadBalancerRemoved
  <1> QED  BY <1>1, Invariance, PTL

-----------------------------------------------------------------------------
\* Only the deferred patch sets the endpoint or the readiness of an LXCCluster,
\* or lets it go.
LEMMA ObjectSteps ==
    ASSUME TypeOK, NEW c \in Names, StepOf(c), \A ok : ~PatchSome(c, ok)
    PROVE  /\ obj'[c].host = obj[c].host /\ obj'[c].ready = obj[c].ready
           /\ obj[c].phase = "deleting" => obj'[c].phase = "deleting"
  <1> DEFINE Kept == /\ obj'[c].host = obj[c].host /\ obj'[c].ready = obj[c].ready
                     /\ obj[c].phase = "deleting" => obj'[c].phase = "deleting"
  <1>0. obj[c] \in Objects /\ obj = [n \in Names |-> obj[n]]
    BY Typed, Functions, Zenon
  <1>1. CASE UNCHANGED obj
    BY <1>1, Zenon
  <1>2. CASE DeleteLXCCluster(c)
    <2>1. /\ obj'[c] = [obj[c] EXCEPT !.phase = IF obj[c].fin THEN "deleting" ELSE "gone"]
          /\ obj[c].phase = "live"
      BY <1>0, <1>2, Zenon DEF DeleteLXCCluster
    <2> QED  BY <1>0, <2>1, Zenon DEF Objects
  <1>3. CASE EnsureFinalizer(c) \/ ReconcilePaused(c)
    <2>1. \/ obj'[c] = [obj[c] EXCEPT !.fin = TRUE]
          \/ obj'[c] = [obj[c] EXCEPT !.paused = PausedStatus(c)]
      BY <1>0, <1>3, Zenon DEF EnsureFinalizer, ReconcilePaused
    <2> QED  BY <1>0, <2>1, Zenon DEF Objects
  <1>4. CASE ReconcileDelete(c)
    <2>1. obj'[c] = Deleting(obj[c]) \/ obj'[c] = obj[c]
      BY <1>0, <1>4, Zenon DEF ReconcileDelete
    <2> QED  BY <1>0, <2>1, Zenon DEF Deleting, Objects
  <1>5. Outside(c) => UNCHANGED obj \/ DeleteLXCCluster(c)
    BY Zenon DEF Outside, LastMachineGone, DeleteCluster, TogglePause, SetInfrastructureReady, MachineReconfigures, clusterVars
  <1>6. Observe(c) \/ ObserveMachines(c) \/ GainAddress(c) \/ Serve(c) \/ CallGoesOn(c) => UNCHANGED obj
    BY Zenon DEF Observe, ObserveMachines, GainAddress, Serve, CallGoesOn, clusterVars
  <1>7. Reconcile(c) => UNCHANGED obj \/ EnsureFinalizer(c) \/ ReconcilePaused(c) \/ ReconcileDelete(c)
    BY Zenon DEF Reconcile, CreateInstance, CreateOCI, CreateExternal, CreateKubeVIP, TakeEndpoint, CreateOvn,
           CreateOvnTerminal, ReconcileDeleteUnpatched
  <1>8. Work(c) => UNCHANGED obj
    BY Zenon DEF Work, CreateNetworkLoadBalancer, Launched, NotLaunched, Deleted, NotDeleted, Finalize, AwaitMachines,
           Patch, PatchFails, Step
  <1> QED  BY <1>1, <1>2, <1>3, <1>4, <1>5, <1>6, <1>7, <1>8, Zenon DEF StepOf

\* What a step does to an LXCCluster.
LEMMA ObjectFate ==
    ASSUME IInv, [Next]_vars, NEW c \in Names
    PROVE  \/ /\ obj'[c].host = obj[c].host /\ obj'[c].ready = obj[c].ready
              /\ obj[c].phase = "deleting" => obj'[c].phase = "deleting"
           \/ \E ok : PatchSome(c, ok) /\ obj[c].phase # "gone"
  <1>0. TypeOK
    BY Zenon DEF IInv
  <1>1. ASSUME NEW k \in Names, StepOf(k), k # c PROVE obj'[c] = obj[c]
    BY <1>0, <1>1, Others, Zenon DEF Same
  <1>2. CASE StepOf(c)
    <2>1. ASSUME NEW ok, PatchSome(c, ok), obj[c].phase = "gone" PROVE UNCHANGED obj
      BY <2>1, Zenon DEF PatchSome
    <2> QED  BY <1>0, <1>2, <2>1, ObjectSteps, Zenon
  <1>3. CASE ForeignOvn \/ Crash \/ UNCHANGED vars
    BY <1>3, Zenon DEF ForeignOvn, Crash, vars, clusterVars
  <1> QED  BY <1>1, <1>2, <1>3, NextSteps, Zenon

\* What the deferred patch writes.
LEMMA PatchWrites ==
    ASSUME TypeOK, NEW c \in Names, NEW ok, PatchSome(c, ok), obj[c].phase # "gone"
    PROVE  /\ pc[c] = "patch"
           /\ obj'[c].host = obj[c].host \/ (obj'[c].host = loc[c].host /\ loc[c].host # base[c].host)
           /\ obj'[c].ready = obj[c].ready \/ (obj'[c].ready = loc[c].ready /\ loc[c].ready # base[c].ready)
           /\ obj[c].phase = "deleting" /\ obj[c].fin /\ obj'[c].phase = "gone" =>
                ~loc[c].fin /\ loc[c].fin # base[c].fin
  <1>1. pc[c] = "patch" /\ obj'[c] = Merge(obj[c], base[c], loc[c], ok)
    BY Functions, Zenon DEF PatchSome
  <1> QED  BY <1>1, MergeWrites

\* controller_delete.go:45: the LXCCluster goes only when no Machine of the
\* cluster is left, or when the list of them failed or was out of date.
THEOREM FinalizerWaitsForMachines == Spec => FinalizerAwaitsMachines
  <1>1. ASSUME IInv, [Next]_vars, NEW c \in Names, obj[c].phase = "deleting", obj'[c].phase = "gone"
        PROVE  ~machines[c] \/ blind[c]
    <2>1. PICK ok : PatchSome(c, ok)
      BY <1>1, ObjectFate, Zenon
    <2>2. TypeOK /\ CInv(c) /\ obj[c].fin
      BY <1>1, Zenon DEF IInv, CInv, ObjectInv
    <2>3. pc[c] = "patch" /\ ~loc[c].fin
      BY <1>1, <2>1, <2>2, PatchWrites, Zenon
    <2> QED  BY <2>2, <2>3, Zenon DEF CInv, WorkerInv
  <1>2. IInv /\ [Next]_vars =>
            [\A c \in Names : obj[c].phase = "deleting" /\ obj'[c].phase = "gone" =>
                ~machines[c] \/ blind[c]]_vars
    BY <1>1, Zenon
  <1> QED  BY <1>2, Invariance, PTL DEF Spec, FinalizerAwaitsMachines

\* controller_normal.go:31: the control plane endpoint is replaced only by a
\* reconciliation that read the LXCCluster before the endpoint was set.
THEOREM EndpointIsKept == Spec => EndpointKept
  <1>1. ASSUME IInv, [Next]_vars, NEW c \in Names, obj'[c].host # obj[c].host
        PROVE  base[c].host = ""
    <2>1. PICK ok : PatchSome(c, ok) /\ obj[c].phase # "gone"
      BY <1>1, ObjectFate, Zenon
    <2>2. TypeOK /\ CInv(c)
      BY <1>1, Zenon DEF IInv
    <2>3. pc[c] = "patch" /\ loc[c].host # base[c].host
      BY <1>1, <2>1, <2>2, PatchWrites, Zenon
    <2> QED  BY <2>2, <2>3, Zenon DEF CInv, WorkerInv
  <1>2. IInv /\ [Next]_vars =>
            [\A c \in Names : obj[c].host # "" /\ obj'[c].host # obj[c].host => base[c].host = ""]_vars
    BY <1>1, Zenon
  <1> QED  BY <1>2, Invariance, PTL DEF Spec, EndpointKept

-----------------------------------------------------------------------------
\* Caches that are up to date when a reconciliation starts

\* A cache that misses no Machine, and copies with the endpoint of the object:
\* a worker is blind only if the list failed.
FreshInv ==
    \A c \in Names :
        /\ machines[c] => machinesSeen[c]
        /\ pc[c] # "idle" => base[c].host = obj[c].host
        /\ blind[c] => "list" \in Faults

\* It holds initially.
LEMMA InitFresh == ASSUME "stale" \notin Faults PROVE Init => FreshInv
  BY Zenon DEF Init, FreshInv

\* The steps of one cluster keep it.
LEMMA StepFresh ==
    ASSUME "stale" \notin Faults, IInv, FreshInv, NEW c \in Names, StepOf(c)
    PROVE  /\ machines'[c] => machinesSeen'[c]
           /\ pc'[c] # "idle" => base'[c].host = obj'[c].host
           /\ blind'[c] => "list" \in Faults
  <1> USE DEF outsideVars, clusterVars
  <1>0. TypeOK /\ CInv(c)
    BY Zenon DEF IInv
  <1>1. machines = [n \in Names |-> machines[n]] /\ machinesSeen = [n \in Names |-> machinesSeen[n]]
    BY <1>0, Zenon DEF TypeOK
  <1>2. machines'[c] => machinesSeen'[c]
    <2>1. CASE UNCHANGED <<machines, machinesSeen>>
      BY <2>1, Zenon DEF FreshInv
    <2>2. CASE LastMachineGone(c) \/ ObserveMachines(c)
      BY <1>1, <2>2, Zenon DEF FreshInv, LastMachineGone, ObserveMachines
    <2>3. Outside(c) => UNCHANGED <<machines, machinesSeen>> \/ LastMachineGone(c)
      BY Zenon DEF Outside, DeleteCluster, DeleteLXCCluster, TogglePause, SetInfrastructureReady, MachineReconfigures
    <2>4. Observe(c) \/ GainAddress(c) \/ Serve(c) \/ CallGoesOn(c) => UNCHANGED <<machines, machinesSeen>>
      BY Zenon DEF Observe, GainAddress, Serve, CallGoesOn
    <2>5. Reconcile(c) => UNCHANGED <<machines, machinesSeen>>
      BY Zenon DEF Reconcile, EnsureFinalizer, ReconcilePaused, CreateInstance, CreateOCI, CreateExternal, CreateKubeVIP,
             TakeEndpoint, CreateOvn, CreateOvnTerminal, ReconcileDelete, DeleteLXC, DeleteOCI, DeleteInstance, DeleteOvn,
             DeleteExternal, DeleteKubeVIP, DeleteNothing, ReconcileDeleteUnpatched, Take
    <2>6. Work(c) => UNCHANGED <<machines, machinesSeen>>
      BY Zenon DEF Work, CreateNetworkLoadBalancer, Launched, NotLaunched, Deleted, NotDeleted, Finalize, AwaitMachines,
             Patch, PatchFails, PatchSome, Step
    <2> QED  BY <2>1, <2>2, <2>3, <2>4, <2>5, <2>6, Zenon DEF StepOf
  <1>3. blind'[c] => "list" \in Faults
    <2>1. CASE Finalize(c)
      <3>1. \/ ~machinesSeen[c] /\ blind' = [blind EXCEPT ![c] = machines[c]]
            \/ "list" \in Faults
        BY <2>1, Zenon DEF Finalize
      <3>2. blind = [n \in Names |-> blind[n]]
        BY <1>0, Functions, Zenon
      <3> QED  BY <3>1, <3>2, Zenon DEF FreshInv
    <2>2. CASE UNCHANGED blind
      BY <2>2, Zenon DEF FreshInv
    <2>3. Outside(c) \/ Observe(c) \/ ObserveMachines(c) \/ GainAddress(c) \/ Serve(c) \/ CallGoesOn(c) => UNCHANGED blind
      BY Zenon DEF Outside, LastMachineGone, DeleteCluster, DeleteLXCCluster, TogglePause, SetInfrastructureReady,
             MachineReconfigures, Observe, ObserveMachines, GainAddress, Serve, CallGoesOn
    <2>4. Reconcile(c) => UNCHANGED blind
      BY Zenon DEF Reconcile, EnsureFinalizer, ReconcilePaused, CreateInstance, CreateOCI, CreateExternal, CreateKubeVIP,
             TakeEndpoint, CreateOvn, CreateOvnTerminal, ReconcileDelete, ReconcileDeleteUnpatched
    <2>5. Work(c) => UNCHANGED blind \/ Finalize(c)
      BY Zenon DEF Work, CreateNetworkLoadBalancer, Launched, NotLaunched, Deleted, NotDeleted, AwaitMachines,
             Patch, PatchFails, PatchSome
    <2> QED  BY <2>1, <2>2, <2>3, <2>4, <2>5, Zenon DEF StepOf
  <1>4. pc'[c] # "idle" => base'[c].host = obj'[c].host
    <2>1. CASE \E ok : PatchSome(c, ok)
      BY <1>0, <2>1, Functions, Zenon DEF PatchSome
    <2>2. CASE \A ok : ~PatchSome(c, ok)
      <3>1. obj'[c].host = obj[c].host
        BY <1>0, <2>2, ObjectSteps, Zenon
      <3>2. CASE UNCHANGED <<pc, base>>
        BY <3>1, <3>2, Zenon DEF FreshInv
      <3>3. CASE \E next, changed : Dispatch(c) /\ Take(c, next, changed)
        <4>1. cache[c] = obj[c] /\ base'[c] = cache[c]
          BY <1>0, <3>3, Functions, Zenon DEF Dispatch, Take
        <4> QED  BY <3>1, <4>1, Zenon
      <3>4. CASE pc[c] # "idle" /\ UNCHANGED base
        BY <3>1, <3>4, Zenon DEF FreshInv
      <3>5. Outside(c) \/ Observe(c) \/ ObserveMachines(c) \/ GainAddress(c) \/ Serve(c) \/ CallGoesOn(c)
            => UNCHANGED <<pc, base>>
        BY Zenon DEF Outside, LastMachineGone, DeleteCluster, DeleteLXCCluster, TogglePause, SetInfrastructureReady,
               MachineReconfigures, Observe, ObserveMachines, GainAddress, Serve, CallGoesOn
      <3>6. Reconcile(c) => UNCHANGED <<pc, base>> \/ \E next, changed : Dispatch(c) /\ Take(c, next, changed)
        <4>1. \A kinds : Normal(c, kinds) => Dispatch(c)
          BY Zenon DEF Normal, Active, Finalized
        <4>2. DeleteGuard(c) => Dispatch(c)
          BY Zenon DEF DeleteGuard, Active, Finalized
        <4>3. EnsureFinalizer(c) \/ ReconcilePaused(c) => UNCHANGED <<pc, base>>
          BY Zenon DEF EnsureFinalizer, ReconcilePaused
        <4>4. CreateInstance(c, "lxc") \/ CreateOCI(c) \/ CreateExternal(c) \/ CreateKubeVIP(c)
              => \E next, changed : Dispatch(c) /\ Take(c, next, changed)
          BY <4>1, Zenon DEF CreateInstance, CreateOCI, CreateExternal, CreateKubeVIP, TakeEndpoint
        <4>5. CreateOvn(c) \/ CreateOvnTerminal(c) => \E next, changed : Dispatch(c) /\ Take(c, next, changed)
          BY <4>1, Zenon DEF CreateOvn, CreateOvnTerminal
        <4>6. ReconcileDelete(c) \/ ReconcileDeleteUnpatched(c)
              => \E next, changed : Dispatch(c) /\ Take(c, next, changed)
          BY <4>2, Zenon DEF ReconcileDelete, DeleteLXC, DeleteOCI, DeleteInstance, DeleteOvn, DeleteExternal, DeleteKubeVIP,
                 DeleteNothing, ReconcileDeleteUnpatched
        <4> QED  BY <4>3, <4>4, <4>5, <4>6, Zenon DEF Reconcile
      <3>7. Work(c) => pc[c] # "idle" /\ UNCHANGED base
        BY <2>2, Zenon DEF Work, CreateNetworkLoadBalancer, Launched, NotLaunched, Deleted, NotDeleted, Finalize,
               AwaitMachines, Patch, PatchFails, Step
      <3> QED  BY <3>2, <3>3, <3>4, <3>5, <3>6, <3>7, Zenon DEF StepOf
    <2> QED  BY <2>1, <2>2, Zenon
  <1> QED  BY <1>2, <1>3, <1>4, Zenon

\* The steps of other clusters do not matter to it.
LEMMA OthersSeen ==
    ASSUME TypeOK, NEW k \in Names, NEW c \in Names, c # k, StepOf(k)
    PROVE  machinesSeen'[c] = machinesSeen[c]
  <1> USE DEF outsideVars
  <1>1. Outside(k) => UNCHANGED machinesSeen
    BY Zenon DEF Outside, LastMachineGone, DeleteCluster, DeleteLXCCluster, TogglePause, SetInfrastructureReady, MachineReconfigures
  <1>2. Observe(k) \/ GainAddress(k) \/ Serve(k) \/ CallGoesOn(k) => UNCHANGED machinesSeen
    BY Zenon DEF Observe, GainAddress, Serve, CallGoesOn
  <1>3. CASE ObserveMachines(k)
    BY <1>3, Zenon DEF ObserveMachines, TypeOK
  <1>4. Reconcile(k) => UNCHANGED machinesSeen
    BY Zenon DEF Reconcile, EnsureFinalizer, ReconcilePaused, CreateInstance, CreateOCI, CreateExternal, CreateKubeVIP,
           TakeEndpoint, CreateOvn, CreateOvnTerminal, ReconcileDelete, DeleteLXC, DeleteOCI, DeleteInstance, DeleteOvn,
           DeleteExternal, DeleteKubeVIP, DeleteNothing, ReconcileDeleteUnpatched, Take
  <1>5. Work(k) => UNCHANGED machinesSeen
    BY Zenon DEF Work, CreateNetworkLoadBalancer, Launched, NotLaunched, Deleted, NotDeleted, Finalize, AwaitMachines,
           Patch, PatchFails, PatchSome, Step
  <1> QED  BY <1>1, <1>2, <1>3, <1>4, <1>5, Zenon DEF StepOf

\* It is inductive, together with IInv.
LEMMA NextFresh ==
    ASSUME "stale" \notin Faults
    PROVE  IInv /\ FreshInv /\ [Next]_vars => FreshInv'
  <1> SUFFICES ASSUME IInv, FreshInv, [Next]_vars, NEW c \in Names
               PROVE  /\ machines'[c] => machinesSeen'[c]
                      /\ pc'[c] # "idle" => base'[c].host = obj'[c].host
                      /\ blind'[c] => "list" \in Faults
    BY Zenon DEF FreshInv
  <1>0. TypeOK
    BY Zenon DEF IInv
  <1>1. ASSUME NEW k \in Names, StepOf(k), k # c
        PROVE  /\ machines'[c] => machinesSeen'[c]
               /\ pc'[c] # "idle" => base'[c].host = obj'[c].host
               /\ blind'[c] => "list" \in Faults
    <2>1. Same(c) /\ machinesSeen'[c] = machinesSeen[c]
      BY <1>0, <1>1, Others, OthersSeen, Zenon
    <2> QED  BY <2>1, Zenon DEF Same, FreshInv
  <1>2. CASE StepOf(c)
    BY <1>2, StepFresh, Zenon
  <1>3. CASE Crash
    BY <1>3, Zenon DEF Crash, FreshInv
  <1>4. CASE ForeignOvn \/ UNCHANGED vars
    BY <1>4, Zenon DEF ForeignOvn, vars, clusterVars, outsideVars, FreshInv
  <1> QED  BY <1>1, <1>2, <1>3, <1>4, NextSteps, Zenon

\* When reconciliations start from an up-to-date copy, the control plane endpoint
\* is set once and for all, whatever addresses the load balancer gains, however
\* often the manager crashes and whichever writes of the patch fail.
THEOREM EndpointIsFinal ==
    ASSUME "stale" \notin Faults
    PROVE  Spec => [][\A c \in Names : obj[c].host # "" => obj'[c].host = obj[c].host]_vars
  <1>1. ASSUME IInv, FreshInv, [Next]_vars, NEW c \in Names, obj[c].host # "" PROVE obj'[c].host = obj[c].host
    <2> SUFFICES ASSUME obj'[c].host # obj[c].host PROVE FALSE
      BY Zenon
    <2>1. PICK ok : PatchSome(c, ok) /\ obj[c].phase # "gone"
      BY <1>1, ObjectFate, Zenon
    <2>2. TypeOK /\ CInv(c)
      BY <1>1, Zenon DEF IInv
    <2>3. pc[c] = "patch" /\ loc[c].host # base[c].host
      BY <2>1, <2>2, PatchWrites, Zenon
    <2>4. base[c].host = "" /\ base[c].host = obj[c].host
      BY <1>1, <2>2, <2>3, Zenon DEF CInv, WorkerInv, FreshInv
    <2> QED  BY <1>1, <2>4, Zenon
  <1>2. IInv /\ FreshInv /\ [Next]_vars =>
            [\A c \in Names : obj[c].host # "" => obj'[c].host = obj[c].host]_vars
    BY <1>1, Zenon
  <1> QED  BY <1>2, InitFresh, NextFresh, Invariance, PTL DEF Spec

\* As long as Machines can be listed and the list is up to date, an LXCCluster
\* whose finalizer is taken off has no Machine left: their deletion finds it.
THEOREM MachinesGoFirst ==
    ASSUME "stale" \notin Faults, "list" \notin Faults
    PROVE  Spec => [][\A c \in Names : obj[c].phase = "deleting" /\ obj'[c].phase = "gone" => ~machines[c]]_vars
  <1>1. ASSUME IInv, FreshInv, [Next]_vars, NEW c \in Names, obj[c].phase = "deleting", obj'[c].phase = "gone"
        PROVE  ~machines[c]
    <2>1. PICK ok : PatchSome(c, ok)
      BY <1>1, ObjectFate, Zenon
    <2>2. TypeOK /\ CInv(c) /\ obj[c].fin
      BY <1>1, Zenon DEF IInv, CInv, ObjectInv
    <2>3. pc[c] = "patch" /\ ~loc[c].fin
      BY <1>1, <2>1, <2>2, PatchWrites, Zenon
    <2> QED  BY <1>1, <2>2, <2>3, Zenon DEF CInv, WorkerInv, FreshInv
  <1>2. IInv /\ FreshInv /\ [Next]_vars =>
            [\A c \in Names : obj[c].phase = "deleting" /\ obj'[c].phase = "gone" => ~machines[c]]_vars
    BY <1>1, Zenon
  <1> QED  BY <1>2, InitFresh, NextFresh, Invariance, PTL DEF Spec

-----------------------------------------------------------------------------
\* The load balancer instances, and the contract the machines rely on

\* The reconciler uses the client for load balancers as the contract allows.
LEMMA StepKeepsContract == [Next]_vars => [InstNext]_instVars
  <1> SUFFICES ASSUME [Next]_vars PROVE [InstNext]_instVars
    BY Zenon
  <1>1. ASSUME NEW k \in Names, StepOf(k) PROVE [InstNext]_instVars
    BY <1>1, UsesContract, Zenon DEF InstStep, InstNext
  <1>2. CASE Crash
    BY <1>2, Zenon DEF Crash, InstNext
  <1>3. CASE ForeignOvn \/ UNCHANGED vars
    BY <1>3, Zenon DEF ForeignOvn, vars
  <1> QED  BY <1>1, <1>2, <1>3, NextSteps, Zenon

\* What holds of InstanceContract holds of the load balancer instances.
LEMMA KeepsInstanceContract == Spec => InstSpec
  BY StepKeepsContract, PTL DEF Spec, InstSpec, Init

\* Without timeouts, restarts and lost operation records, nothing at all is left
\* of a load balancer instance when its LXCCluster is gone.
THEOREM RemovedWhenTracked ==
    ASSUME Tracked
    PROVE  Spec => [](\A c \in Names : obj[c].phase = "gone" => inst[c] = "absent" /\ op[c] # "create")
  <1>1. IInv /\ NoLeak => \A c \in Names : obj[c].phase = "gone" => inst[c] = "absent" /\ op[c] # "create"
    BY Zenon DEF IInv, CInv, ObjectInv, Clean, NoLeak
  <1>2. Spec => []NoLeak
    BY KeepsInstanceContract, TrackedLeavesNothing, PTL
  <1> QED  BY <1>1, <1>2, Invariance, PTL

\* The LXCCluster, and whoever reconciles it next, is past its life.
Deletes(c) ==
    /\ obj[c].phase # "live" /\ cache[c].phase # "live"
    /\ pc[c] # "idle" => base[c].phase # "live"

\* Somebody takes, or is about to take, the cluster for ready.
SaysReady(c) ==
    \/ obj[c].ready \/ cache[c].ready \/ infraReady[c]
    \/ pc[c] # "idle" /\ loc[c].ready

\* Instances are only stopped for a deletion, and the load balancer of a cluster
\* that may be taken for ready runs until then.
ReadyInv(c) ==
    /\ op[c] \in {"stop", "delete"} => Deletes(c)
    /\ pc[c] = "launch" /\ call[c] = "launched" => inst[c] = "up"
    /\ infraReady[c] \/ cache[c].ready \/ (pc[c] # "idle" /\ base[c].ready) => obj[c].ready
    /\ SaysReady(c) /\ conf[c].kind \in Instances =>
          /\ inst[c] \in {"up", "stopped", "absent"}
          /\ op[c] \in {"none", "stop", "delete"}
          /\ inst[c] # "up" => Deletes(c)

RInv == Fitting /\ \A c \in Names : ReadyInv(c)

\* A step of Reconcile or from outside leaves the instance alone.  It adds nobody
\* who takes the cluster for ready, unless the launch of the instance succeeded.
Quiet(c) ==
    /\ UNCHANGED <<inst, op, conf>>
    /\ Deletes(c) => Deletes(c)'
    /\ pc'[c] = "launch" /\ call'[c] = "launched" => pc[c] = "launch" /\ call[c] = "launched"
    /\ infraReady'[c] \/ cache'[c].ready \/ (pc'[c] # "idle" /\ base'[c].ready) => obj'[c].ready
    /\ SaysReady(c)' /\ conf[c].kind \in Instances =>
          SaysReady(c) \/ (pc[c] = "launch" /\ call[c] = "launched")

\* Such a step keeps the invariant.
LEMMA QuietReady ==
    ASSUME InstTypeOK, NEW c \in Names, Fitting, ReadyInv(c), Quiet(c)
    PROVE  ReadyInv(c)'
  <1>1. inst[c] = "up" => op[c] \in {"none", "stop"}
    BY Zenon DEF Fitting, InstTypeOK, OpKinds
  <1>2. pc[c] = "launch" /\ call[c] = "launched" => inst[c] = "up"
    BY Zenon DEF ReadyInv
  <1> QED  BY <1>1, <1>2, Zenon DEF Quiet, ReadyInv

\* Steps from outside, and of the informers, are quiet.
LEMMA OutsideQuiet ==
    ASSUME TypeOK, NEW c \in Names, CInv(c), ReadyInv(c), Outside(c) \/ Observe(c) \/ ObserveMachines(c)
    PROVE  Quiet(c)
  <1> USE DEF instVars, clusterVars, outsideVars
  <1>1. CASE LastMachineGone(c) \/ DeleteCluster(c) \/ TogglePause(c) \/ MachineReconfigures(c) \/ ObserveMachines(c)
    BY <1>1, Zenon DEF LastMachineGone, DeleteCluster, TogglePause, MachineReconfigures, ObserveMachines,
                Quiet, ReadyInv, Deletes, SaysReady
  <1>2. CASE SetInfrastructureReady(c)
    <2>1. obj[c].ready /\ UNCHANGED <<inst, op, call, conf, obj, cache, base, loc, pc>>
      BY <1>2, Zenon DEF SetInfrastructureReady
    <2> QED  BY <2>1, Zenon DEF Quiet, ReadyInv, Deletes, SaysReady
  <1>3. CASE DeleteLXCCluster(c)
    <2>1. /\ obj'[c] = [obj[c] EXCEPT !.phase = IF obj[c].fin THEN "deleting" ELSE "gone"]
          /\ UNCHANGED <<inst, op, call, conf, cache, base, loc, pc, infraReady>>
      BY <1>3, Functions, Zenon DEF DeleteLXCCluster
    <2>2. obj'[c].phase # "live" /\ obj'[c].ready = obj[c].ready
      BY <2>1, Typed, Zenon DEF Objects
    <2> QED  BY <2>1, <2>2, Zenon DEF Quiet, ReadyInv, Deletes, SaysReady
  <1>4. CASE Observe(c)
    <2>1. cache'[c] = obj[c] /\ UNCHANGED <<inst, op, call, conf, obj, base, loc, pc, infraReady>>
      BY <1>4, Functions, Zenon DEF Observe
    <2> QED  BY <2>1, Zenon DEF Quiet, ReadyInv, Deletes, SaysReady
  <1> QED  BY <1>1, <1>2, <1>3, <1>4, Zenon DEF Outside

\* The first part of Reconcile is quiet: what the worker takes its copies from is
\* no readier than the LXCCluster.
LEMMA ReconcileQuiet ==
    ASSUME TypeOK, NEW c \in Names, CInv(c), ReadyInv(c), Reconcile(c)
    PROVE  Quiet(c)
  <1> USE DEF instVars, outsideVars
  <1>0. obj[c] \in Objects /\ cache[c] \in Objects /\ cache[c].host \in Hosts /\ InstTypeOK
    BY Typed, Zenon DEF TypeOK
  <1>1. CASE EnsureFinalizer(c) \/ ReconcilePaused(c)
    <2>1. /\ \/ obj'[c] = [obj[c] EXCEPT !.fin = TRUE]
             \/ obj'[c] = [obj[c] EXCEPT !.paused = PausedStatus(c)]
          /\ UNCHANGED <<inst, op, call, conf, cache, base, loc, pc, infraReady>>
      BY <1>1, Functions, Zenon DEF EnsureFinalizer, ReconcilePaused
    <2>2. obj'[c].phase = obj[c].phase /\ obj'[c].ready = obj[c].ready
      BY <1>0, <2>1, Zenon DEF Objects
    <2> QED  BY <2>1, <2>2, Zenon DEF Quiet, ReadyInv, Deletes, SaysReady
  <1>2. ASSUME NEW next, NEW changed, Take(c, next, changed), pc[c] = "idle",
               UNCHANGED <<inst, op>>, next = "launch" => call'[c] = "launch",
               obj'[c].phase = obj[c].phase, obj'[c].ready = obj[c].ready,
               changed.ready => cache[c].ready \/ conf[c].kind \notin Instances
        PROVE  Quiet(c)
    <2>1. /\ pc'[c] = next /\ base'[c] = cache[c] /\ loc'[c] = changed
          /\ UNCHANGED <<conf, cache, infraReady>>
      BY <1>2, Functions, Zenon DEF Take
    <2> QED  BY <1>2, <2>1, Zenon DEF Quiet, ReadyInv, Deletes, SaysReady
  <1>3. /\ Aborted(cache[c]).ready = cache[c].ready /\ Failed(cache[c]).ready = cache[c].ready
        /\ Deleting(cache[c]).ready = cache[c].ready
        /\ Deleting(obj[c]).phase = obj[c].phase /\ Deleting(obj[c]).ready = obj[c].ready
    BY <1>0, Zenon DEF Aborted, Failed, Deleting, Objects
  <1>4. ASSUME NEW kinds, Normal(c, kinds) PROVE pc[c] = "idle" /\ conf[c].kind \in kinds
    BY <1>4, Zenon DEF Normal, Active, Finalized, Dispatch
  <1>5. ASSUME NEW kind, CreateInstance(c, kind) PROVE Quiet(c)
    <2>1. UNCHANGED <<inst, op, obj>> /\ call'[c] = "launch"
      BY <1>0, <1>5, BeginEffect, Zenon DEF CreateInstance
    <2> QED  BY <1>2, <1>4, <1>5, <2>1, Zenon DEF CreateInstance
  <1>6. CASE CreateOCI(c)
    BY <1>2, <1>3, <1>4, <1>5, <1>6, Zenon DEF CreateOCI
  <1>7. CASE CreateExternal(c) \/ CreateKubeVIP(c) \/ CreateOvn(c) \/ CreateOvnTerminal(c)
    <2>0. (\E k \in {"external", "kubeVIP", "ovn"} : Normal(c, {k})) /\ UNCHANGED <<inst, op, obj>>
      BY <1>7, Zenon DEF CreateExternal, CreateKubeVIP, TakeEndpoint, CreateOvn, CreateOvnTerminal
    <2>1. pc[c] = "idle" /\ conf[c].kind \notin Instances /\ UNCHANGED <<inst, op, obj>>
      BY <1>4, <2>0 DEF Instances
    <2>2. \E next \in {"patch", "ovnCreate"} : \E changed : Take(c, next, changed)
      BY <1>7, Zenon DEF CreateExternal, CreateKubeVIP, TakeEndpoint, CreateOvn, CreateOvnTerminal
    <2> QED  BY <1>2, <2>1, <2>2, Zenon
  <1>8. CASE ReconcileDelete(c) \/ ReconcileDeleteUnpatched(c)
    <2>1. pc[c] = "idle" /\ obj'[c].phase = obj[c].phase /\ obj'[c].ready = obj[c].ready
      BY <1>3, <1>8, Functions, Zenon DEF ReconcileDelete, ReconcileDeleteUnpatched, DeleteGuard, Active, Finalized, Dispatch
    <2>2. UNCHANGED <<inst, op>>
      BY <1>0, <1>8, BeginEffect, Zenon DEF ReconcileDelete, ReconcileDeleteUnpatched, DeleteLXC, DeleteOCI, DeleteInstance,
                                     DeleteOvn, DeleteExternal, DeleteKubeVIP, DeleteNothing
    <2>3. \E next \in {"delete", "machines", "patch"} : Take(c, next, Deleting(cache[c]))
      BY <1>8, Zenon DEF ReconcileDelete, ReconcileDeleteUnpatched, DeleteLXC, DeleteOCI, DeleteInstance,
                  DeleteOvn, DeleteExternal, DeleteKubeVIP, DeleteNothing
    <2> QED  BY <1>2, <1>3, <2>1, <2>2, <2>3, Zenon
  <1> QED  BY <1>1, <1>5, <1>6, <1>7, <1>8, Zenon DEF Reconcile

\* The rest of Reconcile is quiet: only the success of a launch makes the copy of
\* a cluster with a load balancer instance ready, and readiness is never taken back.
LEMMA WorkQuiet ==
    ASSUME TypeOK, NEW c \in Names, CInv(c), ReadyInv(c), Work(c)
    PROVE  Quiet(c)
  <1> USE DEF instVars, outsideVars
  <1>0. loc[c] \in Objects /\ base[c] \in Objects
    BY Typed, Zenon
  <1>1. /\ Aborted(loc[c]).ready = loc[c].ready /\ Failed(loc[c]).ready = loc[c].ready
        /\ [loc[c] EXCEPT !.fin = FALSE].ready = loc[c].ready
    BY <1>0, Zenon DEF Aborted, Failed, Objects
  <1>2. ASSUME NEW next \in {"machines", "patch"}, NEW changed, pc[c] # "idle", pc'[c] = next, loc'[c] = changed,
               UNCHANGED <<inst, op, call, conf, obj, cache, base, infraReady>>,
               changed.ready /\ conf[c].kind \in Instances =>
                  loc[c].ready \/ (pc[c] = "launch" /\ call[c] = "launched")
        PROVE  Quiet(c)
    BY <1>2, Zenon DEF Quiet, ReadyInv, Deletes, SaysReady
  <1>3. CASE CreateNetworkLoadBalancer(c)
    <2>1. /\ pc[c] = "ovnCreate" /\ pc'[c] = "patch"
          /\ UNCHANGED <<inst, op, call, conf, obj, cache, base, infraReady>>
      BY <1>3, Functions, Zenon DEF CreateNetworkLoadBalancer
    <2>2. conf[c].kind \notin Instances
      BY <2>1, Zenon DEF CInv, KindInv, Balances, Instances
    <2> QED  BY <1>2, <2>1, <2>2, Zenon
  <1>4. ASSUME NEW from, NEW next \in {"machines", "patch"}, NEW changed, Step(c, from, next, changed), from # "idle",
               changed.ready => loc[c].ready \/ (from = "launch" /\ call[c] = "launched")
        PROVE  Quiet(c)
    <2>1. /\ pc[c] = from /\ pc'[c] = next /\ loc'[c] = changed
          /\ UNCHANGED <<inst, op, call, conf, obj, cache, base, infraReady>>
      BY <1>4, Functions, Zenon DEF Step
    <2> QED  BY <1>2, <1>4, <2>1, Zenon
  <1>5. CASE Launched(c)
    BY <1>4, <1>5, Zenon DEF Launched
  <1>6. CASE NotLaunched(c)
    BY <1>1, <1>4, <1>6, Zenon DEF NotLaunched
  <1>7. CASE Deleted(c) \/ NotDeleted(c) \/ AwaitMachines(c)
    BY <1>4, <1>7, Zenon DEF Deleted, NotDeleted, AwaitMachines
  <1>8. CASE Finalize(c)
    BY <1>1, <1>4, <1>8, Zenon DEF Finalize
  <1>9. ASSUME NEW ok, PatchSome(c, ok) PROVE Quiet(c)
    <2>1. pc'[c] = "idle" /\ pc[c] = "patch" /\ UNCHANGED <<inst, op, call, conf, cache, infraReady>>
      BY <1>9, Functions, Zenon DEF PatchSome
    <2>2. obj'[c] = obj[c] \/ obj'[c] = Merge(obj[c], base[c], loc[c], ok)
      BY <1>9, Functions, Zenon DEF PatchSome
    <2>3. base[c].ready => loc[c].ready
      BY <2>1, Zenon DEF CInv, WorkerInv
    <2>4. base[c].ready \in BOOLEAN /\ loc[c].ready \in BOOLEAN /\ obj[c].phase \in {"live", "deleting", "gone"}
      BY Typed, Zenon DEF Objects
    <2>5. /\ obj[c].phase # "live" => obj'[c].phase # "live"
          /\ obj[c].ready => obj'[c].ready
          /\ obj'[c].ready => obj[c].ready \/ loc[c].ready
      BY <2>2, <2>3, <2>4, MergeWrites
    <2> QED  BY <2>1, <2>5, Zenon DEF Quiet, ReadyInv, Deletes, SaysReady
  <1> QED  BY <1>3, <1>5, <1>6, <1>7, <1>8, <1>9, Zenon DEF Work, Patch, PatchFails

\* Nobody else removes instances.
Untouched == "vanish" \notin Faults

\* The server and the calls keep the load balancer of a cluster that may be taken
\* for ready, until the cluster is deleted.
LEMMA InstanceReady ==
    ASSUME Untouched, TypeOK, NEW c \in Names, CInv(c), Fitting, ReadyInv(c),
           GainAddress(c) \/ Serve(c) \/ CallGoesOn(c)
    PROVE  ReadyInv(c)'
  <1>0. /\ UNCHANGED <<conf, obj, cache, base, loc, pc, infraReady>>
        /\ InstTypeOK /\ op[c] \in OpKinds
    BY Zenon DEF GainAddress, Serve, CallGoesOn, TypeOK, InstTypeOK, clusterVars, outsideVars
  <1>1. Deletes(c)' = Deletes(c) /\ SaysReady(c)' = SaysReady(c)
    BY <1>0, Zenon DEF Deletes, SaysReady
  <1>2. /\ pc[c] = "launch" => ~Deletes(c)
        /\ call[c] = "launch" => pc[c] = "launch"
        /\ call[c] = "delete" => Deletes(c) /\ pc[c] # "launch"
    BY Zenon DEF CInv, CallInv, WorkerInv, Deletes
  <1>3. CASE UNCHANGED instVars
    BY <1>0, <1>1, <1>3, Zenon DEF instVars, ReadyInv
  <1>4. CASE Server(c)
    <2>1. /\ UNCHANGED call /\ op'[c] = "none"
          /\ \/ op[c] # "none" /\ inst'[c] = After(op[c])
             \/ inst'[c] = inst[c]
             \/ op[c] = "none" /\ inst[c] = "running" /\ inst'[c] = "up"
      BY <1>0, <1>4, ServerEffect, Zenon DEF Untouched
    <2>2. inst[c] = "up" => op[c] \in {"none", "stop"}
      BY <1>0, Zenon DEF Fitting, OpKinds
    <2>3. pc[c] = "launch" /\ call[c] = "launched" => inst'[c] = "up"
      BY <1>0, <1>2, <2>1, <2>2, Zenon DEF ReadyInv
    <2>4. SaysReady(c) /\ conf[c].kind \in Instances =>
              /\ inst'[c] \in {"up", "stopped", "absent"}
              /\ inst'[c] # "up" => Deletes(c)
      BY <1>0, <2>1, <2>2, AfterOp, Zenon DEF ReadyInv
    <2> QED  BY <1>0, <1>1, <2>1, <2>3, <2>4, Zenon DEF ReadyInv
  <1>5. CASE Progress(c)
    <2>1. UNCHANGED inst
      BY <1>0, <1>5, ProgressEffect, Zenon
    <2>2. CASE UNCHANGED call /\ call[c] = "launch" /\ inst[c] \in {"absent", "stopped"} /\ op'[c] \in {"create", "start"}
      <3>1. ~(SaysReady(c) /\ conf[c].kind \in Instances)
        BY <1>2, <2>2, Zenon DEF ReadyInv
      <3> QED  BY <1>0, <1>1, <2>1, <2>2, <3>1, Zenon DEF ReadyInv
    <2>3. CASE UNCHANGED call /\ call[c] = "delete" /\ op'[c] \in {"stop", "delete"}
      BY <1>0, <1>1, <1>2, <2>1, <2>3, Zenon DEF ReadyInv
    <2>4. CASE UNCHANGED op /\ (call'[c] = "launched" => call[c] = "launched" \/ inst[c] = "up")
      BY <1>0, <1>1, <2>1, <2>4, Zenon DEF ReadyInv
    <2> QED  BY <1>0, <1>5, <2>2, <2>3, <2>4, ProgressEffect, Zenon
  <1> QED  BY <1>3, <1>4, <1>5, Zenon DEF GainAddress, Serve, CallGoesOn, Server

\* What ReadyInv adds to Same.
LEMMA ReadyFrame ==
    ASSUME NEW c \in Names, ReadyInv(c), Same(c), infraReady'[c] = infraReady[c]
    PROVE  ReadyInv(c)'
  BY Zenon DEF Same, ReadyInv, Deletes, SaysReady

\* Steps about k, and of nobody's cluster, leave infraReady of the others alone.
LEMMA ReadyOthers ==
    ASSUME TypeOK, NEW k \in Names, NEW c \in Names, c # k, StepOf(k)
    PROVE  infraReady'[c] = infraReady[c]
  <1> USE DEF TypeOK, outsideVars
  <1>1. CASE SetInfrastructureReady(k)
    BY <1>1, Zenon DEF SetInfrastructureReady
  <1>2. Outside(k) => SetInfrastructureReady(k) \/ UNCHANGED infraReady
    BY Zenon DEF Outside, LastMachineGone, DeleteCluster, DeleteLXCCluster, TogglePause, MachineReconfigures
  <1>3. Observe(k) \/ ObserveMachines(k) \/ GainAddress(k) \/ Serve(k) \/ CallGoesOn(k) => UNCHANGED infraReady
    BY Zenon DEF Observe, ObserveMachines, GainAddress, Serve, CallGoesOn
  <1>4. Reconcile(k) => UNCHANGED infraReady
    BY Zenon DEF Reconcile, EnsureFinalizer, ReconcilePaused, CreateInstance, CreateOCI, CreateExternal, CreateKubeVIP,
           TakeEndpoint, CreateOvn, CreateOvnTerminal, ReconcileDelete, DeleteLXC, DeleteOCI, DeleteInstance,
           DeleteOvn, DeleteExternal, DeleteKubeVIP, DeleteNothing, ReconcileDeleteUnpatched, Take
  <1>5. Work(k) => UNCHANGED infraReady
    BY Zenon DEF Work, CreateNetworkLoadBalancer, Launched, NotLaunched, Deleted, NotDeleted, Finalize,
           AwaitMachines, Patch, PatchFails, PatchSome, Step
  <1> QED  BY <1>1, <1>2, <1>3, <1>4, <1>5, Zenon DEF StepOf

\* RInv holds initially.
LEMMA InitReady == Init => RInv
  <1> SUFFICES ASSUME Init, NEW c \in Names PROVE ReadyInv(c)
    <2>1. InstInit => Fitting
      BY Zenon DEF InstInit, Fitting
    <2>2. Init => InstInit
      BY Zenon DEF Init
    <2> QED  BY <2>1, <2>2, Zenon DEF RInv
  <1>1. PICK h \in [Names -> {"", "vip"}] : obj = [k \in Names |-> [Fresh EXCEPT !.host = h[k]]]
    BY Zenon DEF Init
  <1>2. ~obj[c].ready
    BY <1>1, Zenon DEF Fresh
  <1>3. op[c] = "none" /\ pc[c] = "idle" /\ cache[c] = obj[c] /\ infraReady[c] = FALSE
    BY Zenon DEF Init, InstInit
  <1> QED  BY <1>2, <1>3, Zenon DEF ReadyInv, SaysReady

\* RInv is inductive relative to IInv.
LEMMA NextReady == ASSUME Untouched PROVE IInv /\ RInv /\ [Next]_vars => RInv'
  <1> SUFFICES ASSUME IInv, RInv, [Next]_vars, NEW c \in Names PROVE ReadyInv(c)'
    BY StepKeepsContract, FittingNext, Zenon DEF RInv, IInv, TypeOK
  <1>0. TypeOK /\ CInv(c) /\ ReadyInv(c) /\ Fitting /\ InstTypeOK /\ c # "none" /\ c # Foreign
    BY OwnersAssumption, Zenon DEF IInv, RInv, TypeOK
  <1>1. ASSUME NEW k \in Names, StepOf(k), k # c PROVE ReadyInv(c)'
    BY <1>0, <1>1, Others, ReadyOthers, ReadyFrame, Zenon
  <1>2. CASE StepOf(c)
    BY <1>0, <1>2, OutsideQuiet, ReconcileQuiet, WorkQuiet, QuietReady, InstanceReady, Zenon DEF StepOf
  <1>3. CASE Crash
    <2>1. UNCHANGED <<inst, op, conf, obj, infraReady>> /\ pc'[c] = "idle" /\ cache'[c] = obj[c]
      BY <1>3, Zenon DEF Crash, AbandonCalls
    <2>2. Quiet(c)
      BY <1>0, <2>1, Zenon DEF Quiet, ReadyInv, Deletes, SaysReady
    <2> QED  BY <1>0, <2>2, QuietReady, Zenon
  <1>4. CASE ForeignOvn
    BY <1>0, <1>4, ReadyFrame, Zenon DEF ForeignOvn, Same, instVars, clusterVars, outsideVars
  <1>5. CASE UNCHANGED vars
    BY <1>0, <1>5, ReadyFrame, Zenon DEF vars, Same, instVars, clusterVars, outsideVars, lbVars, ovnVars
  <1> QED  BY <1>1, <1>2, <1>3, <1>4, <1>5, NextSteps, Zenon

\* The load balancer as machines find it.
Balanced(c) == infraReady[c] /\ (conf[c].kind \in Instances => inst[c] = "up")

\* What the step about c does to what machines see of it: nothing, or one step of
\* the contract.
LEMMA InfraStep ==
    ASSUME Untouched, TypeOK, NEW c \in Names, CInv(c), Fitting, ReadyInv(c), StepOf(c)
    PROVE  \/ /\ clusterDel'[c] = clusterDel[c] /\ SeenInfra(c)' = SeenInfra(c) /\ Balanced(c)' = Balanced(c)
           \/ /\ clusterDel'[c] = clusterDel[c] /\ SeenInfra(c) # "gone" /\ SeenInfra(c)' = "gone"
              /\ Balanced(c)' = Balanced(c)
           \/ /\ ~clusterDel[c] /\ clusterDel'[c] = TRUE
              /\ SeenInfra(c)' = SeenInfra(c) /\ Balanced(c)' = Balanced(c)
           \/ /\ clusterDel'[c] = clusterDel[c] /\ SeenInfra(c) = "pending" /\ SeenInfra(c)' = "ready"
              /\ Balanced(c)' \/ (~Balanced(c)' /\ clusterDel[c])
           \/ /\ clusterDel'[c] = clusterDel[c] /\ clusterDel[c]
              /\ SeenInfra(c)' = SeenInfra(c) /\ Balanced(c) /\ ~Balanced(c)'
  <1>0. obj[c].phase \in {"live", "deleting", "gone"} /\ InstTypeOK /\ infraReady[c] \in BOOLEAN
        /\ clusterDel[c] \in BOOLEAN /\ obj[c] \in Objects
    BY Typed, Zenon DEF TypeOK, Objects
  <1>1. CASE DeleteCluster(c)
    <2>1. ~clusterDel[c] /\ clusterDel'[c] = TRUE /\ UNCHANGED <<inst, conf, obj, infraReady>>
      BY <1>1, Functions, Zenon DEF DeleteCluster, instVars, clusterVars
    <2> QED  BY <2>1, Zenon DEF SeenInfra, Balanced
  <1>2. CASE SetInfrastructureReady(c)
    <2>1. /\ UNCHANGED <<inst, conf, obj, clusterDel>> /\ obj[c].phase # "gone" /\ obj[c].ready
          /\ ~infraReady[c] /\ infraReady'[c]
      BY <1>2, Zenon DEF SetInfrastructureReady, instVars, clusterVars, TypeOK
    <2>2. conf[c].kind \in Instances /\ inst[c] # "up" => clusterDel[c]
      BY <2>1, Zenon DEF ReadyInv, SaysReady, Deletes, CInv, ObjectInv
    <2> QED  BY <2>1, <2>2, Zenon DEF SeenInfra, Balanced
  <1>3. CASE UNCHANGED <<inst, conf, infraReady, clusterDel>> /\ (obj[c].phase = "gone" => obj'[c].phase = "gone")
    <2>1. Balanced(c)' = Balanced(c)
      BY <1>3, Zenon DEF Balanced
    <2> QED  BY <1>3, <2>1, Zenon DEF SeenInfra
  <1>4. CASE UNCHANGED <<conf, infraReady, clusterDel, obj>> /\ Server(c)
    <2>1. SeenInfra(c)' = SeenInfra(c)
      BY <1>4, Zenon DEF SeenInfra
    <2>2. CASE ~infraReady[c] \/ conf[c].kind \notin Instances
      <3>1. Balanced(c)' = Balanced(c)
        BY <1>4, <2>2, Zenon DEF Balanced
      <3> QED  BY <1>4, <2>1, <3>1, Zenon
    <2>3. CASE infraReady[c] /\ conf[c].kind \in Instances
      <3>1. inst[c] \in {"up", "stopped", "absent"} /\ op[c] \in {"none", "stop", "delete"}
        BY <2>3, Zenon DEF ReadyInv, SaysReady
      <3>2. op[c] = "stop" => clusterDel[c]
        BY Zenon DEF ReadyInv, Deletes, CInv, ObjectInv
      <3>3. \/ inst'[c] = inst[c]
            \/ op[c] = "stop" /\ inst'[c] = "stopped"
            \/ op[c] = "delete" /\ inst[c] = "stopped" /\ inst'[c] = "absent"
        BY <1>0, <1>4, <3>1, ServerEffect, AfterOp, Zenon DEF Fitting, Untouched
      <3>4. Balanced(c) = (inst[c] = "up") /\ Balanced(c)' = (inst'[c] = "up")
        BY <1>4, <2>3, Zenon DEF Balanced
      <3> QED  BY <1>4, <2>1, <3>1, <3>2, <3>3, <3>4, Zenon
    <2> QED  BY <2>2, <2>3, Zenon
  <1>5. CASE Outside(c) \/ Observe(c) \/ ObserveMachines(c)
    <2>1. CASE DeleteLXCCluster(c)
      BY <1>3, <2>1, Zenon DEF DeleteLXCCluster, instVars, outsideVars
    <2>2. CASE LastMachineGone(c) \/ TogglePause(c) \/ MachineReconfigures(c) \/ Observe(c) \/ ObserveMachines(c)
      BY <1>3, <2>2, Zenon DEF LastMachineGone, TogglePause, MachineReconfigures, Observe, ObserveMachines,
                        instVars, clusterVars, outsideVars
    <2> QED  BY <1>1, <1>2, <1>5, <2>1, <2>2, Zenon DEF Outside
  <1>6. CASE GainAddress(c) \/ Serve(c) \/ CallGoesOn(c)
    <2>1. UNCHANGED <<conf, infraReady, clusterDel, obj>>
      BY <1>6, Zenon DEF GainAddress, Serve, CallGoesOn, clusterVars, outsideVars
    <2>2. Server(c) \/ UNCHANGED inst
      BY <1>0, <1>6, ProgressEffect, Zenon DEF GainAddress, Serve, CallGoesOn, Server, instVars
    <2> QED  BY <1>3, <1>4, <2>1, <2>2, Zenon
  <1>7. CASE Reconcile(c)
    <2>1. UNCHANGED <<conf, infraReady, clusterDel>>
      BY <1>7, Zenon DEF Reconcile, EnsureFinalizer, ReconcilePaused, CreateInstance, CreateOCI, CreateExternal,
           CreateKubeVIP, TakeEndpoint, CreateOvn, CreateOvnTerminal, ReconcileDelete, DeleteLXC, DeleteOCI,
           DeleteInstance, DeleteOvn, DeleteExternal, DeleteKubeVIP, DeleteNothing, ReconcileDeleteUnpatched,
           Take, outsideVars
    <2>2. UNCHANGED inst
      BY <1>7, ReconcileQuiet, Zenon DEF Quiet
    <2>3. UNCHANGED obj \/ EnsureFinalizer(c) \/ ReconcilePaused(c) \/ ReconcileDelete(c)
      BY <1>7, Zenon DEF Reconcile, CreateInstance, CreateOCI, CreateExternal, CreateKubeVIP, TakeEndpoint, CreateOvn,
           CreateOvnTerminal, ReconcileDeleteUnpatched
    <2>4. obj[c].phase = "gone" => UNCHANGED obj
      BY <2>3, Zenon DEF EnsureFinalizer, ReconcilePaused, ReconcileDelete
    <2> QED  BY <1>3, <2>1, <2>2, <2>4, Zenon
  <1>8. CASE Work(c)
    <2>1. UNCHANGED <<inst, conf, infraReady, clusterDel>> /\ (obj[c].phase = "gone" => UNCHANGED obj)
      BY <1>8, Zenon DEF Work, CreateNetworkLoadBalancer, Launched, NotLaunched, Deleted, NotDeleted, Finalize,
           AwaitMachines, Patch, PatchFails, PatchSome, Step, instVars, outsideVars
    <2> QED  BY <1>3, <2>1, Zenon
  <1> QED  BY <1>5, <1>6, <1>7, <1>8, Zenon DEF StepOf

\* A step about another cluster shows machines nothing.
LEMMA InfraOthers ==
    ASSUME TypeOK, NEW k \in Names, NEW c \in Names, c # k, StepOf(k)
    PROVE  clusterDel'[c] = clusterDel[c] /\ SeenInfra(c)' = SeenInfra(c) /\ Balanced(c)' = Balanced(c)
  <1>1. clusterDel'[c] = clusterDel[c]
    <2>1. CASE DeleteCluster(k)
      BY <2>1, Zenon DEF DeleteCluster, TypeOK
    <2>2. CASE UNCHANGED clusterDel
      BY <2>2, Zenon
    <2>3. Outside(k) => DeleteCluster(k) \/ UNCHANGED clusterDel
      BY Zenon DEF Outside, LastMachineGone, DeleteLXCCluster, TogglePause, SetInfrastructureReady, MachineReconfigures,
             outsideVars
    <2>4. Observe(k) \/ ObserveMachines(k) \/ GainAddress(k) \/ Serve(k) \/ CallGoesOn(k) => UNCHANGED clusterDel
      BY Zenon DEF Observe, ObserveMachines, GainAddress, Serve, CallGoesOn, outsideVars
    <2>5. Reconcile(k) => UNCHANGED clusterDel
      BY Zenon DEF Reconcile, EnsureFinalizer, ReconcilePaused, CreateInstance, CreateOCI, CreateExternal, CreateKubeVIP,
             TakeEndpoint, CreateOvn, CreateOvnTerminal, ReconcileDelete, DeleteLXC, DeleteOCI, DeleteInstance,
             DeleteOvn, DeleteExternal, DeleteKubeVIP, DeleteNothing, ReconcileDeleteUnpatched, Take, outsideVars
    <2>6. Work(k) => UNCHANGED clusterDel
      BY Zenon DEF Work, CreateNetworkLoadBalancer, Launched, NotLaunched, Deleted, NotDeleted, Finalize,
             AwaitMachines, Patch, PatchFails, PatchSome, Step, outsideVars
    <2> QED  BY <2>1, <2>2, <2>3, <2>4, <2>5, <2>6, Zenon DEF StepOf
  <1>2. Same(c) /\ infraReady'[c] = infraReady[c]
    BY Others, ReadyOthers, Zenon
  <1> QED  BY <1>1, <1>2, Zenon DEF Same, SeenInfra, Balanced

\* Every step is a step of the contract, or shows machines nothing.
LEMMA NextInfra ==
    ASSUME Untouched, IInv, RInv, [Next]_vars
    PROVE  [Infra!InfraNext]_(Infra!infraVars)
  <1> DEFINE seen == [c \in Names |-> SeenInfra(c)]
             up == [c \in Names |-> Balanced(c)]
  <1>0. TypeOK /\ clusterDel = [n \in Names |-> clusterDel[n]] /\ clusterDel' = [n \in Names |-> clusterDel'[n]]
    BY NextType, Functions, Zenon DEF IInv, TypeOK
  <1>1. ASSUME NEW k \in Names, StepOf(k) PROVE [Infra!InfraNext]_(Infra!infraVars)
    <2>1. \A c \in Names \ {k} :
             clusterDel'[c] = clusterDel[c] /\ SeenInfra(c)' = SeenInfra(c) /\ Balanced(c)' = Balanced(c)
      BY <1>0, <1>1, InfraOthers, Zenon
    <2>2. /\ clusterDel' = [clusterDel EXCEPT ![k] = clusterDel'[k]]
          /\ seen' = [seen EXCEPT ![k] = SeenInfra(k)']
          /\ up' = [up EXCEPT ![k] = Balanced(k)']
      <3>1. clusterDel' = [clusterDel EXCEPT ![k] = clusterDel'[k]]
        BY <1>0, <2>1, Zenon
      <3>2. seen' = [seen EXCEPT ![k] = SeenInfra(k)']
        BY <2>1, Zenon
      <3>3. up' = [up EXCEPT ![k] = Balanced(k)']
        BY <2>1, Zenon
      <3> QED  BY <3>1, <3>2, <3>3, Zenon
    <2>3. seen[k] = SeenInfra(k) /\ up[k] = Balanced(k)
      BY Zenon
    <2>4. /\ clusterDel'[k] = clusterDel[k] => clusterDel' = clusterDel
          /\ SeenInfra(k)' = SeenInfra(k) => seen' = seen
          /\ Balanced(k)' = Balanced(k) => up' = up
      BY <1>0, <2>1, Zenon
    <2> HIDE DEF seen, up
    <2>5. \/ clusterDel' = clusterDel /\ seen' = seen /\ up' = up
          \/ /\ clusterDel' = clusterDel /\ seen[k] # "gone" /\ seen' = [seen EXCEPT ![k] = "gone"]
             /\ up' = up
          \/ /\ ~clusterDel[k] /\ clusterDel' = [clusterDel EXCEPT ![k] = TRUE]
             /\ seen' = seen /\ up' = up
          \/ /\ clusterDel' = clusterDel /\ seen[k] = "pending" /\ seen' = [seen EXCEPT ![k] = "ready"]
             /\ \E b \in {TRUE, ~clusterDel[k]} : up' = [up EXCEPT ![k] = b]
          \/ /\ clusterDel' = clusterDel /\ clusterDel[k]
             /\ seen' = seen /\ up[k] /\ up' = [up EXCEPT ![k] = FALSE]
      <3>1. Balanced(k)' \in BOOLEAN
        BY <1>0, NextType, Zenon DEF Balanced, TypeOK
      <3>2. CInv(k) /\ Fitting /\ ReadyInv(k)
        BY Zenon DEF IInv, RInv
      <3> QED  BY <1>0, <1>1, <2>2, <2>3, <2>4, <3>1, <3>2, InfraStep, Zenon
    <2>6. Infra!InfraNext \/ UNCHANGED Infra!infraVars
      BY <2>5, Zenon DEF seen, up, Balanced, Infra!InfraNext, Infra!BecomeReady, Infra!StartDeletion, Infra!LoseLoadBalancer,
                  Infra!GoAway, Infra!infraVars
    <2> QED  BY <2>6, Zenon
  <1>2. CASE Crash \/ ForeignOvn \/ UNCHANGED vars
    BY <1>2, Zenon DEF Crash, AbandonCalls, ForeignOvn, vars, instVars, clusterVars, outsideVars, SeenInfra, Infra!infraVars
  <1> QED  BY <1>1, <1>2, NextSteps, Zenon

\* Machines may rely on the infrastructure as MachineController does: unless
\* somebody else removes instances, the load balancer of a cluster of any type
\* runs from the moment InfrastructureReady is set until the cluster is deleted,
\* across restarts, stale caches, timeouts and failing writes.
THEOREM InfraImplemented == ASSUME Untouched PROVE Spec => ImplementsInfra
  <1>1. Init => Infra!InfraInit
    <2> SUFFICES ASSUME Init PROVE Infra!InfraInit
      BY Zenon
    <2>1. PICK h \in [Names -> {"", "vip"}] : obj = [k \in Names |-> [Fresh EXCEPT !.host = h[k]]]
      BY Zenon DEF Init
    <2>2. \A c \in Names : obj[c].phase = "live" /\ infraReady[c] = FALSE
      BY <2>1, Zenon DEF Init, Fresh
    <2>3. [c \in Names |-> SeenInfra(c)] = [c \in Names |-> "pending"]
      BY <2>2, Zenon DEF SeenInfra
    <2>4. [c \in Names |-> infraReady[c] /\ (conf[c].kind \in Instances => inst[c] = "up")] = [c \in Names |-> FALSE]
      BY <2>2, Zenon
    <2> QED  BY <2>3, <2>4, Zenon DEF Init, Infra!InfraInit
  <1>2. IInv /\ RInv /\ [Next]_vars => [Infra!InfraNext]_(Infra!infraVars)
    BY NextInfra, Zenon
  <1>3. Spec => []RInv
    BY InitReady, NextReady, Invariance, PTL DEF Spec
  <1> QED  BY <1>1, <1>2, <1>3, Invariance, PTL DEF Spec, ImplementsInfra, Infra!InfraSpec
=============================================================================
