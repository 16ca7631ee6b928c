------------------------- MODULE MCMachineController -------------------------
(* MachineController on small instances.  The machines of a symmetric         *)
(* instance are model values that are all control plane machines.             *)
EXTENDS MachineController, TLC

Symmetry == Permutations(Names)

\* All LXCMachines but one were deleted before they got a finalizer: a reachable
\* state, from which that one machine goes on alone.
OneInit ==
    /\ InstInit
    /\ \E one \in Names :
          obj = [m \in Names |-> IF m = one THEN Fresh ELSE [Fresh EXCEPT !.phase = "gone"]]
    /\ cache = obj
    /\ base = [m \in Names |-> Fresh]
    /\ loc = base
    /\ pc = [m \in Names |-> "idle"]
    /\ seenDel = [m \in Names |-> FALSE]
    /\ want = [m \in Names |-> {}]
    /\ boot = [m \in Names |-> obj[m].phase = "gone"]
    /\ cluster = [deleting |-> FALSE, paused |-> FALSE, infra |-> "pending"]
    /\ clusterSeen = cluster
    /\ lbUp = FALSE
    /\ lbFile = {}
    /\ lbLive = {}
OneSpec == OneInit /\ [][Next]_vars
=============================================================================
