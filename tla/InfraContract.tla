----------------------------- MODULE InfraContract -----------------------------
(***************************************************************************)
(* What LXCMachine reconciliations may take for granted of the             *)
(* infrastructure of their cluster: the order in which it becomes ready,   *)
(* loses its load balancer and goes away.  ClusterController implements    *)
(* it; the steps of MachineController that stand for the LXCCluster        *)
(* reconciler are these.                                                   *)
(***************************************************************************)
CONSTANT Clusters

VARIABLES
    deleting,   \* the Cluster is being deleted
    infra,      \* the LXCCluster as machines see it
    lb          \* the infrastructure is ready and its load balancer runs

infraVars == <<deleting, infra, lb>>

InfraInit ==
    /\ deleting = [c \in Clusters |-> FALSE]
    /\ infra = [c \in Clusters |-> "pending"]
    /\ lb = [c \in Clusters |-> FALSE]

\* The load balancer runs when the infrastructure becomes ready, unless its
\* cluster is on the way out already.
BecomeReady(c) ==
    /\ infra[c] = "pending"
    /\ infra' = [infra EXCEPT ![c] = "ready"]
    /\ \E up \in {TRUE, ~deleting[c]} : lb' = [lb EXCEPT ![c] = up]
    /\ UNCHANGED deleting

StartDeletion(c) ==
    /\ ~deleting[c]
    /\ deleting' = [deleting EXCEPT ![c] = TRUE]
    /\ UNCHANGED <<infra, lb>>

LoseLoadBalancer(c) ==
    /\ deleting[c]
    /\ lb[c]
    /\ lb' = [lb EXCEPT ![c] = FALSE]
    /\ UNCHANGED <<deleting, infra>>

GoAway(c) ==
    /\ infra[c] # "gone"
    /\ infra' = [infra EXCEPT ![c] = "gone"]
    /\ UNCHANGED <<deleting, lb>>

InfraNext ==
    \E c \in Clusters : BecomeReady(c) \/ StartDeletion(c) \/ LoseLoadBalancer(c) \/ GoAway(c)

InfraSpec == InfraInit /\ [][InfraNext]_infraVars
=============================================================================
