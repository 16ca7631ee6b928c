-------------------------------- MODULE Kini --------------------------------
(***************************************************************************)
(* cmd/exp/kini/docker: the docker command that kini puts in front of      *)
(* kind.  kind itself is external: it starts one "docker run" per node,    *)
(* all at the same time, gives up at the first that fails without waiting  *)
(* for the others, writes the configuration of the load balancer, and      *)
(* deletes a cluster by listing its nodes and removing them.               *)
(***************************************************************************)
EXTENDS IncusProject

CONSTANTS Nodes,      \* n -> [cluster, role, image, publish, volumes, tmpfs, devices, sysctl]
          KindNames,  \* the kind clusters
          Archives,   \* what "docker load" may be given: [tag, content, cut]
          Remote,     \* the tags whose images a registry has
          KiniEnvs    \* environments: [use, mode, privileged, socket]

VARIABLES kiniEnv,    \* what the user uses kini for, and the KINI_* variables
          node,       \* the docker run of each node: how it ended, while kind waits
          kind,       \* what kind is doing with each cluster
          haproxy,    \* the configuration of its load balancer: <<>> or <<backends>>
          load,       \* the docker load in progress
          cached,     \* the file of a tag in KINI_CACHE: <<>> or <<[content, cut]>>
          loaded,     \* what was loaded for a tag, unless a later load did not end
          shipped     \* the last docker save: <<>> or <<[tag, content, cut]>>

kindVars == <<kiniEnv, node, kind, haproxy>>
cacheVars == <<load, cached, loaded, shipped>>
kiniVars == <<kindVars, cacheVars>>

NodesOf(c) == {n \in DOMAIN Nodes : Nodes[n].cluster = c}
Balancer == "external-load-balancer"
HasBalancer(c) == \E n \in NodesOf(c) : Nodes[n].role = Balancer
NoKind == [pc |-> "none", todo |-> {}, had |-> {}]
NoLoad == [pc |-> "idle", ar |-> <<>>]

\* kind gives each of its clusters a name, and each node an image and lists of
\* ports, volumes, tmpfs mounts and devices.
IsList(s) == s \in Seq({s[k] : k \in DOMAIN s})
ASSUME NodesAssumption ==
    /\ Unset \notin KindNames
    /\ \A n \in DOMAIN Nodes : Nodes[n].cluster \in KindNames
    /\ \A n \in DOMAIN Nodes : /\ IsList(Nodes[n].publish) /\ IsList(Nodes[n].volumes)
                               /\ IsList(Nodes[n].tmpfs) /\ IsList(Nodes[n].devices)

Tags == {ar.tag : ar \in Archives} \cup Remote

KiniInit ==
    /\ kiniEnv \in KiniEnvs
    /\ node = [n \in DOMAIN Nodes |-> "none"]
    /\ kind = [c \in KindNames |-> NoKind]
    /\ haproxy = [c \in KindNames |-> <<>>]
    /\ load = NoLoad
    /\ cached = [t \in Tags |-> <<>>]
    /\ loaded = [t \in Tags |-> <<>>]
    /\ shipped = <<>>

-----------------------------------------------------------------------------
\* docker run

\* Without KINI_MODE a second client is created; if that fails the answer is no.
KindInstances(secondClient) ==
    \/ kiniEnv.mode = "oci"
    \/ kiniEnv.mode = Unset /\ secondClient /\ server.oci

\* An image is [registry, port, repo, tag, digest], the text
\* `REGISTRY/REPO:TAG@sha256:DIGEST`; port is that of the registry, if it names one.
\* Alias() is that of the parsed reference, which knows the digest or the tag.
Alias(i) ==
    <<i.repo, IF i.digest # Unset THEN Unset ELSE IF i.tag = Unset THEN "latest" ELSE i.tag, i.digest>>

\* As if the tag were that of the parsed reference.
TagOfReference(i) == <<Alias(i)[2]>>

\* Tag(), in parts: the text after its first ":", up to an "@" behind that.
Tag(i) ==
    IF i.port # Unset THEN <<i.port, i.repo, i.tag>>
    ELSE IF i.tag # Unset THEN <<i.tag>>
    ELSE IF i.digest # Unset THEN <<i.digest>>
    ELSE <<>>

\* LXC mode knows only nodes, which are what is neither haproxy nor kindest/base.
IsNode(n) == Nodes[n].image.repo \notin {"kindest/haproxy", "kindest/base"}
LaunchError(n, kindMode) == ~IsNode(n) /\ ~kindMode

\* As if the manifests were told apart by their directories.
LxcTemplatesSorted ==
    {<<"/etc/sysconfig", "kubelet">>, <<"/kind/manifests/storage", "default.yaml">>,
     <<"/kind/manifests/cni", "default.yaml">>}

LxcTemplates ==
    {<<"/etc/sysconfig", "kubelet">>, <<"/kind", "product_name">>, <<"/kind", "product_uuid">>,
     <<"/kind", "version">>, <<"/kind/manifests", "default-storage.yaml">>,
     <<"/kind/manifests", "default-cni.yaml">>}

LaunchOptionsForImage(n, kindMode) ==
    LET i == Nodes[n].image
        image == OCIOf(i.registry, Alias(i))
        asKind == WithImage(KindLaunchOptions(
                      [version |-> Unset, privileged |-> kiniEnv.privileged, skipProfile |-> FALSE,
                       podCIDR |-> FALSE, cloudInit |-> Unset, apt |-> FALSE]), image)
        asLxc == WithInstanceTemplates(KubeadmLaunchOptions(
                      [version |-> Tag(i), type |-> "container", privileged |-> kiniEnv.privileged,
                       skipProfile |-> FALSE, skipScript |-> TRUE, server |-> server.name,
                       cloudInit |-> Unset]), LxcTemplates)
    IN  IF i.repo = "kindest/haproxy"
        THEN WithImage(HaproxyOCILaunchOptions, image)
        ELSE IF i.repo = "kindest/base"
        THEN WithImage(WithConfig(NoOptions, "oci.entrypoint" :> "sleep infinity"), image)
        ELSE WithUnixSocket(IF kindMode THEN asKind ELSE asLxc, kiniEnv.socket)

\* --publish, a sequence of [protocol, address, host, node]: an address in brackets
\* has too many colons for strings.Split, and is refused.
PublishError(n) ==
    \E k \in DOMAIN Nodes[n].publish : LET p == Nodes[n].publish[k] IN
        p.protocol = Unset \/ p.address = "[::1]"

\* As if all ports had the same device.
ProxyDevicesUnnumbered(n) ==
    [d \in {<<"docker-proxy", 1>>} |->
        LET p == Nodes[n].publish[Len(Nodes[n].publish)] IN
        Device("proxy", <<p.protocol, p.address, p.host>>, <<p.protocol, Unset, p.node>>)]

ProxyDevices(n) ==
    [d \in {<<"docker-proxy", k>> : k \in DOMAIN Nodes[n].publish} |->
        LET p == Nodes[n].publish[d[2]] IN
        Device("proxy", <<p.protocol, p.address, p.host>>, <<p.protocol, Unset, p.node>>)]

TmpfsDevices(n) ==
    [d \in {<<"docker-tmpfs", k>> : k \in IF server.tmpfs THEN DOMAIN Nodes[n].tmpfs ELSE {}} |->
        Device("disk", "tmpfs:", Nodes[n].tmpfs[d[2]])]

UnixDevices(n) ==
    [d \in {<<"docker-device", k>> : k \in DOMAIN Nodes[n].devices} |->
        Device("unix-char", Nodes[n].devices[d[2]], Nodes[n].devices[d[2]])]

\* /var and /lib/modules are left to the profile.
VolumeDevices(n) ==
    [d \in {<<"docker-volume", k>> : k \in
                {j \in DOMAIN Nodes[n].volumes : Nodes[n].volumes[j] \notin {"/var", "/lib/modules"}}} |->
        Device("disk", Nodes[n].volumes[d[2]], Nodes[n].volumes[d[2]])]

\* Labels become user.* keys, the linux.sysctl.* keys are one here, and
\* /etc/environment is appended to.
RunConfig(n) ==
    "linux.sysctl" :> Nodes[n].sysctl
    @@ ("user.io.x-k8s.kind.cluster" :> Nodes[n].cluster @@ "user.io.x-k8s.kind.role" :> Nodes[n].role)

RunOptions(n, kindMode) ==
    WithFiles(WithDevices(WithConfig(LaunchOptionsForImage(n, kindMode), RunConfig(n)),
        UnixDevices(n) @@ (TmpfsDevices(n) @@ (VolumeDevices(n) @@ ProxyDevices(n)))), {"/etc/environment"})

\* How a docker run ended is of interest while kind waits for it.
Ended(n, result) == IF kind[Nodes[n].cluster].pc = "run" THEN result ELSE "none"
Unwaited(c) ==
    [n \in DOMAIN Nodes |-> IF n \in NodesOf(c) /\ node[n] # "asked" THEN "none" ELSE node[n]]

\* The client cannot be created, the options are refused, or the launch ends.
DockerRun(n) ==
    /\ node[n] = "asked"
    /\ \E secondClient \in BOOLEAN :
          LET kindMode == KindInstances(secondClient) IN
          \/ /\ node' = [node EXCEPT ![n] = Ended(n, "failed")]
             /\ UNCHANGED <<insts, pending>>
          \/ /\ ~LaunchError(n, kindMode) /\ ~PublishError(n)
             /\ \E result \in {"ok", "error", "terminal"} :
                   /\ Launch(n, RunOptions(n, kindMode), n, result)
                   /\ node' = [node EXCEPT ![n] = Ended(n, IF result = "ok" THEN "ok" ELSE "failed")]
    /\ UNCHANGED <<server, kiniEnv, kind, haproxy, cacheVars>>

-----------------------------------------------------------------------------
\* docker pull, docker inspect, docker ps, docker rm, docker exec

\* What is pulled before a node is run: the image is worked out again here.
PulledImage(n, kindMode) ==
    LET i == Nodes[n].image IN
    IF kindMode THEN OCIOf(i.registry, Alias(i))[server.name]
                ELSE CapnImage(<<"kubeadm", Tag(i)>>)[server.name]

\* The host address of port 6443/tcp: the first proxy device that matches, in no
\* particular order.
InspectPort(n) ==
    {<<d.from[2], d.from[3]>> : d \in
        {e \in {insts[n].devices[k] : k \in DOMAIN insts[n].devices} :
            /\ e.type = "proxy"
            /\ e.to = <<"tcp", Unset, "6443">>
            /\ e.from[1] = "tcp"}}

\* With the name of a cluster in the filter; without, the clusters are listed.
DockerPsAll(c) == ListWithConfigKeys({"user.io.x-k8s.kind.cluster"})

DockerPs(c) == ListWithConfig("user.io.x-k8s.kind.cluster" :> c)

\* As if the command went on after an error.
DockerRmGoesOn(c, name) ==
    \E result \in {"ok", "error"} :
        /\ Delete(name, result)
        /\ kind' = [kind EXCEPT ![c].todo = @ \ {name}]

\* In the order in which docker ps listed them, which is none that is known.  An
\* error ends the command; the instances after it are not touched.
DockerRm(c, name) ==
    \E result \in {"ok", "error"} :
        /\ Delete(name, result)
        /\ kind' = [kind EXCEPT ![c] = IF result = "ok" THEN [kind[c] EXCEPT !.todo = kind[c].todo \ {name}]
                                       ELSE [NoKind EXCEPT !.pc = "failed"]]

\* As if the nodes were found by their role only.
HaproxyOfRole(c) == BackendServers(ListWithConfig("user.io.x-k8s.kind.role" :> "control-plane"))

\* docker exec -i INSTANCE cp /dev/stdin haproxy.cfg: what kind wrote is replaced.
HaproxyBackends(c) ==
    BackendServers(ListWithConfig("user.io.x-k8s.kind.cluster" :> c
                                  @@ "user.io.x-k8s.kind.role" :> "control-plane"))

-----------------------------------------------------------------------------
\* kind

\* kind refuses to create a cluster that has nodes.
KindCreate(c) ==
    /\ kiniEnv.use = "clusters"
    /\ kind[c].pc \in {"none", "gone", "failed"}
    /\ \A n \in NodesOf(c) : node[n] # "asked"
    /\ DockerPs(c) = {}
    /\ kind' = [kind EXCEPT ![c] = [NoKind EXCEPT !.pc = "run"]]
    /\ node' = [n \in DOMAIN Nodes |-> IF n \in NodesOf(c) THEN "asked" ELSE node[n]]
    /\ UNCHANGED <<projectVars, kiniEnv, haproxy, cacheVars>>

KindCreated(c) ==
    /\ kind[c].pc = "run"
    /\ \A n \in NodesOf(c) : node[n] = "ok"
    /\ kind' = [kind EXCEPT ![c].pc = IF HasBalancer(c) THEN "balance" ELSE "up"]
    /\ node' = Unwaited(c)
    /\ UNCHANGED <<projectVars, kiniEnv, haproxy, cacheVars>>

KindBalances(c) ==
    /\ kind[c].pc = "balance"
    /\ \/ /\ haproxy' = [haproxy EXCEPT ![c] = <<HaproxyBackends(c)>>]
          /\ kind' = [kind EXCEPT ![c].pc = "up"]
       \/ /\ kind' = [kind EXCEPT ![c].pc = "list"]
          /\ UNCHANGED haproxy
    /\ UNCHANGED <<projectVars, kiniEnv, node, cacheVars>>

\* The first docker run that fails makes kind clean up; a user deletes.
KindDeletes(c) ==
    /\ \/ kind[c].pc = "run" /\ \E n \in NodesOf(c) : node[n] = "failed"
       \/ kind[c].pc \in {"up", "failed"}
       \/ kind[c].pc = "gone" /\ DockerPs(c) # {}
    /\ kind' = [kind EXCEPT ![c].pc = "list"]
    /\ node' = Unwaited(c)
    /\ haproxy' = [haproxy EXCEPT ![c] = <<>>]
    /\ UNCHANGED <<projectVars, kiniEnv, cacheVars>>

KindLists(c) ==
    /\ kind[c].pc = "list"
    /\ \/ kind' = [kind EXCEPT ![c] =
                       [pc |-> "rm", todo |-> DockerPs(c),
                        had |-> {n \in NodesOf(c) : Exists(n) /\ node[n] # "asked"}]]
       \/ kind' = [kind EXCEPT ![c] = [NoKind EXCEPT !.pc = "failed"]]
    /\ UNCHANGED <<projectVars, kiniEnv, node, haproxy, cacheVars>>

KindRemoves(c) ==
    /\ kind[c].pc = "rm"
    /\ \/ \E name \in kind[c].todo : DockerRm(c, name)
       \/ /\ kind[c].todo = {}
          /\ kind' = [kind EXCEPT ![c].pc = "gone"]
          /\ UNCHANGED <<insts, pending>>
    /\ UNCHANGED <<server, kiniEnv, node, haproxy, cacheVars>>
-----------------------------------------------------------------------------
\* docker load and docker save.  A file that is cut before its manifest.json
\* ("early") does not open as an image; one cut later opens, but its layers
\* cannot be read.
DockerLoad(ar) ==
    /\ kiniEnv.use = "images"
    /\ load.pc = "idle"
    /\ load' = [pc |-> "scan", ar |-> <<ar>>]
    /\ UNCHANGED <<projectVars, kindVars, cached, loaded, shipped>>

\* As if the end of the archive were an error like the others.
LoadScanNoEOF ==
    /\ load.pc = "scan"
    /\ load.ar[1].cut \in {"whole", "late"}
    /\ load' = [load EXCEPT !.pc = "create"]
    /\ UNCHANGED <<projectVars, kindVars, cached, loaded, shipped>>

\* parseImageTag.  On an error that is not io.EOF the loop of tarReader.Next goes
\* on, and Next only repeats the error: there is no step out of it.
LoadScan ==
    /\ load.pc = "scan"
    /\ \/ load.ar[1].cut = "none"
          /\ load' = NoLoad
       \/ /\ load.ar[1].cut \in {"whole", "late"}
          /\ load' = [load EXCEPT !.pc = "create"]
    /\ UNCHANGED <<projectVars, kindVars, cached, loaded, shipped>>

\* As if the file were only created when it is not there.
LoadCreateOnce ==
    LET ar == load.ar[1] IN
    /\ load.pc = "create"
    /\ load' = [load EXCEPT !.pc = "copy"]
    /\ cached' = [cached EXCEPT ![ar.tag] =
                      IF @ = <<>> THEN <<[content |-> ar.content, cut |-> "early"]>> ELSE @]
    /\ loaded' = [loaded EXCEPT ![ar.tag] = <<>>]
    /\ UNCHANGED <<projectVars, kindVars, shipped>>

\* os.Create truncates the file of an earlier load.
LoadCreate ==
    LET ar == load.ar[1] IN
    /\ load.pc = "create"
    /\ load' = [load EXCEPT !.pc = "copy"]
    /\ cached' = [cached EXCEPT ![ar.tag] = <<[content |-> ar.content, cut |-> "early"]>>]
    /\ loaded' = [loaded EXCEPT ![ar.tag] = <<>>]
    /\ UNCHANGED <<projectVars, kindVars, shipped>>

\* io.Copy, which may fail, or the process may die, with any part written.
LoadCopy ==
    LET ar == load.ar[1] IN
    /\ load.pc = "copy"
    /\ load' = NoLoad
    /\ \/ /\ cached' = [cached EXCEPT ![ar.tag] = <<[content |-> ar.content, cut |-> ar.cut]>>]
          /\ loaded' = [loaded EXCEPT ![ar.tag] = <<ar>>]
       \/ \E cut \in {"early", "late"} :
             /\ cached' = [cached EXCEPT ![ar.tag] = <<[content |-> ar.content, cut |-> cut]>>]
             /\ UNCHANGED loaded
    /\ UNCHANGED <<projectVars, kindVars, shipped>>

\* crane.Load: the local tarball, if it opens.
Opens(t) == cached[t] # <<>> /\ cached[t][1].cut # "early"

\* Otherwise the image is pulled; MultiSave reads the layers.
DockerSave(t) ==
    /\ kiniEnv.use = "images"
    /\ \/ /\ Opens(t)
          /\ cached[t][1].cut = "whole"
          /\ shipped' = <<[tag |-> t, content |-> cached[t][1].content]>>
       \/ /\ ~Opens(t)
          /\ t \in Remote
          /\ shipped' = <<[tag |-> t, content |-> "remote"]>>
    /\ UNCHANGED <<projectVars, kindVars, load, cached, loaded>>

KiniNext ==
    \/ \E n \in DOMAIN Nodes : DockerRun(n)
    \/ \E c \in KindNames :
          KindCreate(c) \/ KindCreated(c) \/ KindBalances(c) \/ KindDeletes(c)
          \/ KindLists(c) \/ KindRemoves(c)
    \/ \E ar \in Archives : DockerLoad(ar)
    \/ LoadScan \/ LoadCreate \/ LoadCopy
    \/ \E t \in Tags : DockerSave(t)
\* A command that nothing interrupts runs to its end.
KiniFairness == WF_kiniVars(LoadScan) /\ WF_kiniVars(LoadCreate) /\ WF_kiniVars(LoadCopy)

-----------------------------------------------------------------------------
\* When kind reports a cluster with a load balancer as created, haproxy has all
\* of its control plane nodes as backends, at their own addresses, and nothing
\* else: no node of another cluster, no worker (docker_exec.go:56).  The nodes
\* are found by the labels docker run left on them.
BalancerServesAll ==
    \A c \in KindNames :
        kind[c].pc = "up" /\ HasBalancer(c) =>
            haproxy[c] = <<{[name |-> n, address |-> "own"] : n \in
                {k \in NodesOf(c) : Nodes[k].role = "control-plane"}}>>

\* When kind reports a cluster as deleted, every node that was there when it
\* listed them is gone, though docker rm gives up at the first failure
\* (docker_rm.go:30).  Nodes whose docker run, or whose creation in Incus, goes on
\* while kind cleans up can appear later.
ClusterIsRemoved ==
    \A c \in KindNames : kind[c].pc = "gone" => kind[c].had \cap DOMAIN insts = {}

\* docker inspect gives kind the address at which the API server of a node was
\* published, whatever other ports, volumes, mounts and devices the node has: each
\* of them, the device of the profile and that of the server's socket is there, and
\* none displaces another one (docker_run.go:174, launch_options_complete.go:59).
EndpointIsPublished ==
    \A n \in DOMAIN insts :
        insts[n].by \in DOMAIN Nodes =>
            /\ InspectPort(n) =
                  {<<p.address, p.host>> : p \in
                      {q \in {Nodes[n].publish[k] : k \in DOMAIN Nodes[n].publish} :
                          q.protocol = "tcp" /\ q.node = "6443"}}
            /\ Cardinality(DOMAIN insts[n].devices) =
                  Len(Nodes[n].publish) + Len(Nodes[n].devices)
                  + Cardinality({k \in DOMAIN Nodes[n].volumes :
                                    Nodes[n].volumes[k] \notin {"/var", "/lib/modules"}})
                  + (IF server.tmpfs THEN Len(Nodes[n].tmpfs) ELSE 0)
                  + (IF ~IsNode(n) THEN 0 ELSE IF kiniEnv.socket THEN 2 ELSE 1)

\* What is run is what was asked for.  As an OCI container it is the image itself,
\* at its digest if one is given.  As an LXC instance it is the kubeadm image of the
\* version in the tag, also if there is a digest, which has no meaning there
\* (docker_run.go:76-81): so it is if the image has a tag and a registry without a
\* port, and only then, as Tag() looks for the first ":" (oci_image.go:45).  docker
\* pull fetches the same image: with KINI_MODE whatever comes in between, without
\* it the two commands may choose differently.
NodesRunVersion ==
    \A n \in DOMAIN insts :
        insts[n].by \in DOMAIN Nodes =>
            LET asked == Nodes[n].image
                image == insts[n].image
            IN  /\ IF image.protocol = "oci"
                   THEN /\ image.server = asked.registry
                        /\ image.alias = <<asked.repo,
                              IF asked.digest # Unset THEN Unset ELSE IF asked.tag # Unset THEN asked.tag ELSE "latest",
                              asked.digest>>
                   ELSE asked.port = Unset /\ asked.tag # Unset => image.alias = <<"kubeadm", <<asked.tag>>>>
                /\ kiniEnv.mode # Unset /\ IsNode(n) =>
                      \A secondClient \in BOOLEAN : image = PulledImage(n, KindInstances(secondClient))

\* docker_image_save.go:43: "if image has been `docker load`ed, use the local
\* tarball".  What docker save writes for a tag is what was loaded for it last;
\* after a load that did not end it is the image of the registry, never part of an
\* image and never one that was loaded before.
SavedIsLoaded ==
    [][shipped' # shipped =>
        LET t == shipped'[1].tag IN
        shipped'[1].content = IF loaded[t] = <<>> THEN "remote" ELSE loaded[t][1].content]_kiniVars

\* docker load returns, unless its archive ends in the middle of an entry before
\* manifest.json: then the loop at docker_image_load.go:28 does not.
LoadEnds == (load.pc # "idle" /\ load.ar[1].cut # "early") ~> (load.pc = "idle")
=============================================================================
