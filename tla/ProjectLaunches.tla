--------------------------- MODULE ProjectLaunches ---------------------------
(***************************************************************************)
(* One Incus project with the instances of Cluster API clusters and of     *)
(* kini in it.  The two know nothing of each other, and tell their         *)
(* instances apart by configuration keys only.                             *)
(***************************************************************************)
EXTENDS MachineLaunch, Kini

\* Neither knows of the other's instances: their names are apart (those of load
\* balancers end in a hash and "-lb"), and no LXCMachine has kind's labels in its
\* spec.config.
ASSUME ApartAssumption ==
    /\ MachineNames \cap DOMAIN Nodes = {}
    /\ MachineNames \cap DOMAIN Clusters = {}
    /\ DOMAIN Clusters \cap DOMAIN Nodes = {}
    /\ \A m \in MachineNames : Machines[m].name \notin DOMAIN Nodes
    /\ \A c \in DOMAIN Clusters : Clusters[c].lbName \notin DOMAIN Nodes
    /\ \A m \in MachineNames, c \in DOMAIN Clusters : Machines[m].name # Clusters[c].lbName
    /\ \A m \in MachineNames : \A s \in Specs[m] :
          {"user.io.x-k8s.kind.cluster", "user.io.x-k8s.kind.role"} \cap DOMAIN s.config = {}

vars == <<projectVars, machineVars, kiniVars>>

Init == ServerInit /\ MachineInit /\ KiniInit

Machinery == MachineNext /\ UNCHANGED kiniVars
Kinis == KiniNext /\ UNCHANGED machineVars
Late == LateCreate /\ UNCHANGED <<server, machineVars, kiniVars>>

Next == Machinery \/ Kinis \/ Late

Spec == Init /\ [][Next]_vars /\ KiniFairness

\* An instance is removed only for its own sake: a node by docker rm while kind
\* deletes its cluster, the instance of an LXCMachine while a machine of that name
\* is deleted; never a load balancer, or an instance of the other launcher.
RemovesItsOwn ==
    [][\A n \in DOMAIN insts \ DOMAIN insts' :
        \/ /\ insts[n].by \in DOMAIN Nodes
           /\ kind[Nodes[n].cluster].pc = "rm"
        \/ /\ insts[n].by \in MachineNames
           /\ \E m \in MachineNames : Machines[m].name = n /\ res[m] # "none" /\ res'[m] = "none"]_vars
=============================================================================
