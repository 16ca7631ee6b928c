------------------------- MODULE MCClusterController -------------------------
(* ClusterController on small instances.  The lxc manager does what the oci   *)
(* manager does on a server that supports it, and kube-vip what external      *)
(* does; one of each pair meets every fault, the other one is paused instead. *)
(* So are the clusters that can have no load balancer at all.                 *)
EXTENDS ClusterController

Simple(k) == k.kind \in {"lxc", "kubeVIP"} \/ k.support # "full" \/ k.network # "ok"

MCNext ==
    /\ Next
    /\ \A c \in Names : IF Simple(conf[c]) THEN Smooth(c) ELSE ~clusterPaused'[c]
MCFairSpec == Init /\ [][MCNext]_vars /\ Fairness
=============================================================================
