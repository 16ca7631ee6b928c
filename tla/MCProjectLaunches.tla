-------------------------- MODULE MCProjectLaunches --------------------------
(***************************************************************************)
(* Two LXCMachines of the same name in clusters of the same name and of    *)
(* different namespaces, the load balancers of two clusters, and two kind  *)
(* clusters.  The spec of the first machine varies: in the type, the image *)
(* and the version together, and in everything else one at a time.  kini   *)
(* is used when that spec is a plain one, for clusters or for images.      *)
(***************************************************************************)
EXTENDS ProjectLaunches

MCClusters ==
    [c1 |-> [name |-> "k", namespace |-> "ns1", lb |-> "kubeVIP", lbName |-> "-"],
     c2 |-> [name |-> "k", namespace |-> "ns2", lb |-> "lxc", lbName |-> "k-2-lb"],
     c3 |-> [name |-> "l", namespace |-> "ns2", lb |-> "oci", lbName |-> "l-3-lb"]]

MCMachines ==
    [m1 |-> [cluster |-> "c1", name |-> "a", cp |-> TRUE],
     m2 |-> [cluster |-> "c2", name |-> "a", cp |-> FALSE]]

Named(prefix, rest) ==
    [NoImageSpec EXCEPT !.name = <<[prefix |-> prefix, rest |-> rest, hash |-> ""]>>]
Hashed(prefix, rest) ==
    [NoImageSpec EXCEPT !.name = <<[prefix |-> prefix, rest |-> rest, hash |-> "h"]>>,
                        !.server = "https://s", !.protocol = "oci"]

Plain ==
    [type |-> "", image |-> NoImageSpec, version |-> "v1.33", config |-> EmptyMap, devices |-> "ok",
     cloudInit |-> "ok", privileged |-> TRUE, skipProfile |-> FALSE]

ImageSpecs ==
    {NoImageSpec, Named("ubuntu", "24.04"), Named("ubuntu", "VERSION"), Named("capi", "VERSION"),
     Named("debian", "12"), Named("images", "VERSION"), Named("capi-stg", "VERSION"),
     Named("kind", "VERSION"), Named("", "custom"), Named("", "VERSION"), Named("other", "custom"),
     [NoImageSpec EXCEPT !.fingerprint = "f"], [NoImageSpec EXCEPT !.server = "https://s"],
     [Named("", "VERSION") EXCEPT !.server = "https://s"], [NoImageSpec EXCEPT !.protocol = "oci"],
     Hashed("img", "VERSION"), Hashed("", "img"),
     [Hashed("img", "1") EXCEPT !.protocol = "simplestreams"]}

Types == {"", "container", "virtual-machine", "kind"}

Role == "user.cluster-role" :> "control-plane"
Apt == "user.capn.x-kind-apt-install-cloud-init"

Varied ==
    {[Plain EXCEPT !.type = t, !.image = i, !.version = v] :
        t \in Types, i \in ImageSpecs, v \in {"", "v1.33"}}
    \cup UNION {{[Plain EXCEPT !.type = t, !.devices = "malformed"],
                 [Plain EXCEPT !.type = t, !.cloudInit = ""],
                 [Plain EXCEPT !.type = t, !.cloudInit = "unsupported"],
                 [Plain EXCEPT !.type = t, !.privileged = FALSE],
                 [Plain EXCEPT !.type = t, !.skipProfile = TRUE],
                 [Plain EXCEPT !.type = t, !.config = "user.cluster-namespace" :> "ns2" @@ Role],
                 [Plain EXCEPT !.type = t, !.config = Apt :> "maybe"],
                 [Plain EXCEPT !.type = t, !.config = Apt :> "true", !.cloudInit = "unsupported"]}
                : t \in Types}

MCSpecs == [m1 |-> Varied, m2 |-> {[Plain EXCEPT !.config = Role]}]

\* The documented override of the user data.
MCSpecsUserData ==
    [m1 |-> {[Plain EXCEPT !.type = t, !.config = "cloud-init.user-data" :> "mine"] : t \in Types},
     m2 |-> {Plain}]

Node(repo, tag, digest) ==
    [registry |-> "docker.io", port |-> "", repo |-> repo, tag |-> tag, digest |-> digest]

Port(protocol, address, host, n) == [protocol |-> protocol, address |-> address, host |-> host, node |-> n]
Api(host) == Port("tcp", "127.0.0.1", host, "6443")

KindNode(cluster, image, publish, volumes) ==
    [cluster |-> cluster, role |-> "control-plane", image |-> image, publish |-> publish,
     volumes |-> volumes, tmpfs |-> <<"/tmp", "/run">>, devices |-> <<>>, sysctl |-> {}]

\* The image of the second node is in a registry with a port, the fourth node has
\* that of "kind build node-image".
MCNodes ==
    LET noded == Node("kindest/node", "v1.33", "h") IN
    [k1 |-> [KindNode("kind", noded, <<Port("udp", "", "53", "6443"), Api("16443")>>,
                      <<"/var", "/lib/modules">>) EXCEPT !.devices = <<"/dev/fuse">>],
     k2 |-> KindNode("kind", [Node("kindest/node", "v1.33", "") EXCEPT !.registry = "localhost:5000", !.port = "5000"],
                     <<Api("26443"), Port("tcp", "", "80", "80")>>, <<"/var", "/lib/modules", "/data">>),
     kb |-> [KindNode("kind", Node("kindest/haproxy", "v2", ""), <<Api("36443")>>, <<>>)
                EXCEPT !.role = Balancer, !.tmpfs = <<>>, !.sysctl = {"net.ipv6.conf.all.forwarding=1"}],
     d1 |-> KindNode("dev", Node("kindest/base", "v1", ""), <<Api("46443")>>, <<"/var">>)]

MCKindNames == {"kind", "dev"}

MCArchives ==
    {[tag |-> "t1", content |-> "one", cut |-> "whole"], [tag |-> "t1", content |-> "two", cut |-> "whole"],
     [tag |-> "t2", content |-> "three", cut |-> "late"], [tag |-> "t2", content |-> "four", cut |-> "early"],
     [tag |-> "t2", content |-> "five", cut |-> "none"], [tag |-> "t2", content |-> "six", cut |-> "whole"]}

Unused == [use |-> "nothing", mode |-> "", privileged |-> TRUE, socket |-> FALSE]

MCNoKini == {Unused}

MCKiniEnvs ==
    {Unused, [Unused EXCEPT !.use = "images"], [Unused EXCEPT !.use = "clusters"],
     [use |-> "clusters", mode |-> "oci", privileged |-> TRUE, socket |-> TRUE],
     [use |-> "clusters", mode |-> "lxc", privileged |-> FALSE, socket |-> FALSE]}

MCInit ==
    /\ Init
    /\ kiniEnv.use # "nothing" => spec.m1 = Plain /\ server.name = "incus"
    /\ kiniEnv.use = "clusters" =>
          /\ server.oci = (kiniEnv.mode # "lxc")
          /\ server.tmpfs = (kiniEnv.mode = "")

\* Beside the kind cluster "kind", the machines have one instance (in OCI mode), and
\* the cluster "dev" one node, that come without failures; the node does not go.
Beside ==
    /\ res'.m2 = "none"
    /\ res'.m1 \in (IF kiniEnv.mode = "oci" THEN {"none", "ok"} ELSE {"none"})
    /\ DOMAIN insts' \cap {"k-2-lb", "l-3-lb"} = {}
    /\ node'.d1 # "failed" /\ "d1" \notin DOMAIN pending' /\ kind'["dev"].pc # "list"
    /\ \A n \in DOMAIN insts' : insts'[n].net \subseteq Started

MCNext == Next /\ (kiniEnv.use # "nothing" => Beside)
MCSpec == MCInit /\ [][MCNext]_vars /\ KiniFairness
=============================================================================
