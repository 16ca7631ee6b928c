---------------------------- MODULE MachineLaunch ----------------------------
(***************************************************************************)
(* controller_util_launch.go, controller_util_launch_kind.go and Create of *)
(* the load balancer managers: which instance an LXCMachine gets.  The     *)
(* reconcilers that run this are MachineController and ClusterController.  *)
(*                                                                         *)
(* Machines and clusters are keys of the model.  An instance is named      *)
(* after its LXCMachine only, so that two machines of different namespaces *)
(* may mean the same instance.                                             *)
(***************************************************************************)
EXTENDS IncusProject

CONSTANTS Machines,   \* m -> [cluster, name, cp]
          Clusters,   \* c -> [name, namespace, lb, lbName]
          Specs       \* m -> the specs LXCMachine m may have

VARIABLES spec,       \* the spec of each LXCMachine, never changed
          res         \* how its last launch ended

machineVars == <<spec, res>>

MachineNames == DOMAIN Machines
ClusterOf(m) == Clusters[Machines[m].cluster]

\* An LXCCluster is known by its name and namespace.
ASSUME ClustersAssumption ==
    /\ \A m \in MachineNames : Machines[m].cluster \in DOMAIN Clusters /\ Machines[m].cp \in BOOLEAN
    /\ \A c, d \in DOMAIN Clusters :
          Clusters[c].name = Clusters[d].name /\ Clusters[c].namespace = Clusters[d].namespace => c = d

\* The image of a spec; its name is cut at its colons.
ASSUME SpecsAssumption ==
    \A m \in MachineNames : \A s \in Specs[m] : LET i == s.image IN
        /\ i = [name |-> i.name, fingerprint |-> i.fingerprint, server |-> i.server, protocol |-> i.protocol]
        /\ i.name = <<>> \/ LET n == i.name[1] IN i.name = <<[prefix |-> n.prefix, rest |-> n.rest, hash |-> n.hash]>>

MachineInit ==
    /\ spec \in {s \in [MachineNames -> UNION {Specs[m] : m \in MachineNames}] :
                    \A m \in MachineNames : s[m] \in Specs[m]}
    /\ res = [m \in MachineNames |-> "none"]

-----------------------------------------------------------------------------
\* The image.  A name is <<>> or <<[prefix, rest, hash]>>.
NoImageSpec == [name |-> <<>>, fingerprint |-> Unset, server |-> Unset, protocol |-> Unset]
IsZero(i) == i = NoImageSpec

ContainsVersion(i) == i.name # <<>> /\ i.name[1].rest = "VERSION"

\* As if the placeholder stayed.
SubstitutedNever(i, version) == i

Substituted(i, version) == IF ContainsVersion(i) THEN [i EXCEPT !.name[1].rest = version] ELSE i

\* The check that the default image is there: what the registry answers, as an
\* error.  A registry that cannot be reached is a terminal error as well (for OCI
\* images), and may be one for simplestreams.
CheckErrors(type, answer) ==
    CASE answer = "found" -> {"none"}
      [] answer = "missing" -> IF type = "kind" THEN {"error"} ELSE {"terminal"}
      [] answer = "down" -> IF type = "kind" THEN {"terminal"} ELSE {"terminal", "error"}

ImageErrors(s, answer) ==
    IF ContainsVersion(s.image) /\ s.version = Unset THEN {"terminal"}
    ELSE IF s.image.name # <<>>
         THEN IF OneColon(s.image.name[1]) /\ s.image.name[1].prefix \notin WellKnown THEN {"error"} ELSE {"none"}
         ELSE IF ~IsZero(s.image) THEN {"none"}
              ELSE IF s.version = Unset THEN {"terminal"} ELSE CheckErrors(s.type, answer)

\* The name as an alias.
Verbatim(i) ==
    IF i.name = <<>> THEN <<>>
    ELSE IF i.name[1].hash = Unset THEN <<i.name[1].rest>>
    ELSE <<i.name[1].prefix, i.name[1].rest, i.name[1].hash>>

LaunchImage(s) ==
    LET i == Substituted(s.image, s.version) IN
    IF i.name # <<>> /\ OneColon(i.name[1])
    THEN ParseImage(i.name[1])
    ELSE IF IsZero(i)
         THEN IF s.type = "kind" THEN KindestNodeImage(s.version) ELSE CapnImage(<<"kubeadm", s.version>>)
         ELSE Everywhere([protocol |-> i.protocol, server |-> i.server, alias |-> Verbatim(i),
                          fingerprint |-> i.fingerprint])

-----------------------------------------------------------------------------
\* launchInstance and launchKindInstance.  The errors, in the order in which the
\* code comes to them.
AptError(s) ==
    IF Value(s.config, "user.capn.x-kind-apt-install-cloud-init") \in {Unset, "true", "false"}
    THEN "none" ELSE "terminal"

InstanceType(s) == IF s.type = Unset THEN "container" ELSE s.type

KindInput(s) ==
    [version |-> s.version, privileged |-> s.privileged, skipProfile |-> s.skipProfile,
     podCIDR |-> TRUE, cloudInit |-> s.cloudInit,
     apt |-> Value(s.config, "user.capn.x-kind-apt-install-cloud-init") = "true"]

KubeadmInput(s) ==
    [version |-> s.version, type |-> InstanceType(s), privileged |-> s.privileged,
     skipProfile |-> s.skipProfile, skipScript |-> FALSE, server |-> server.name,
     cloudInit |-> s.cloudInit]

LaunchErrors(s, answer) ==
    IF s.type = "kind" /\ ~server.oci THEN {"terminal"}
    ELSE IF s.devices = "malformed" THEN {"terminal"}
    ELSE IF ImageErrors(s, answer) # {"none"} THEN ImageErrors(s, answer)
    ELSE IF s.type # "kind" THEN {"none"}
    ELSE IF AptError(s) # "none" THEN {AptError(s)} ELSE {KindOptionsError(KindInput(s))}

Identity(m) ==
    "user.cluster-name" :> ClusterOf(m).name
    @@ "user.cluster-namespace" :> ClusterOf(m).namespace
    @@ "user.machine-name" :> Machines[m].name
    @@ "user.cluster-role" :> (IF Machines[m].cp THEN "control-plane" ELSE "worker")

\* ControlPlaneInstanceTemplates: only kube-vip has one.
LoadBalancerTemplates(m) ==
    IF Machines[m].cp /\ ClusterOf(m).lb = "kubeVIP"
    THEN {<<"/etc/kubernetes/manifests", "kube-vip.yaml">>} ELSE {}

\* As if the user's configuration came last.
MachineOptionsUserLast(m) ==
    LET s == spec[m]
        base == IF s.type = "kind" THEN KindLaunchOptions(KindInput(s))
                ELSE KubeadmLaunchOptions(KubeadmInput(s))
    IN  WithInstanceTemplates(WithImage(
            WithConfig(WithConfig(WithDevices(base, EmptyMap), Identity(m)), s.config),
            LaunchImage(s)), LoadBalancerTemplates(m))

MachineOptions(m) ==
    LET s == spec[m]
        base == IF s.type = "kind" THEN KindLaunchOptions(KindInput(s))
                ELSE KubeadmLaunchOptions(KubeadmInput(s))
    IN  WithInstanceTemplates(WithImage(
            WithConfig(WithConfig(WithDevices(base, EmptyMap), s.config), Identity(m)),
            LaunchImage(s)), LoadBalancerTemplates(m))

Answers == {"found", "missing", "down"}

LaunchMachine(m) ==
    /\ res[m] # "ok"
    /\ \E answer \in Answers : \E error \in LaunchErrors(spec[m], answer) :
          IF error # "none"
          THEN /\ res' = [res EXCEPT ![m] = error]
               /\ UNCHANGED <<insts, pending>>
          ELSE \E result \in {"ok", "error", "terminal"} :
                  /\ Launch(Machines[m].name, MachineOptions(m), m, result)
                  /\ res' = [res EXCEPT ![m] = result]
    /\ UNCHANGED <<server, spec>>

\* reconcileDelete; the LXCMachine is created again later.
DeleteMachine(m) ==
    /\ res[m] # "none"
    /\ Delete(Machines[m].name, "ok")
    /\ res' = [res EXCEPT ![m] = "none"]
    /\ UNCHANGED <<server, spec>>

\* managerLXC.Create and managerOCI.Create, for an LXCCluster that names no image.
LoadBalancerOptions(c) ==
    WithConfig(IF Clusters[c].lb = "oci" THEN HaproxyOCILaunchOptions ELSE HaproxyLXCLaunchOptions,
        "user.cluster-name" :> Clusters[c].name
        @@ "user.cluster-namespace" :> Clusters[c].namespace
        @@ "user.cluster-role" :> "loadbalancer")

LaunchLoadBalancer(c) ==
    /\ Clusters[c].lb \in {"lxc", "oci"}
    /\ Clusters[c].lb = "oci" => server.oci
    /\ ~Exists(Clusters[c].lbName)
    /\ Launch(Clusters[c].lbName, LoadBalancerOptions(c), c, "ok")
    /\ UNCHANGED <<server, machineVars>>

\* Kubernetes in the guest: the bridge of the CNI, and the address that
\* kube-vip moves between the control plane nodes.
GuestAddress(n) ==
    /\ Exists(n)
    /\ insts[n].by \in MachineNames
    /\ insts[n].net # {}
    /\ \/ /\ "cni" \notin insts[n].net
          /\ insts' = [insts EXCEPT ![n].net = @ \cup {"cni"}]
       \/ /\ ClusterOf(insts[n].by).lb = "kubeVIP"
          /\ "vip" \notin insts[n].net
          /\ insts' = [k \in DOMAIN insts |->
                          [insts[k] EXCEPT !.net = IF k = n THEN @ \cup {"vip"} ELSE @ \ {"vip"}]]
    /\ UNCHANGED <<server, pending, machineVars>>

MachineNext ==
    \/ \E m \in MachineNames : LaunchMachine(m) \/ DeleteMachine(m)
    \/ \E c \in DOMAIN Clusters : LaunchLoadBalancer(c)
    \/ \E n \in DOMAIN insts : GuestAddress(n)

-----------------------------------------------------------------------------
\* filterClusterControlPlaneInstances
ControlPlaneFilter(c) ==
    "user.cluster-name" :> Clusters[c].name
    @@ "user.cluster-namespace" :> Clusters[c].namespace
    @@ "user.cluster-role" :> "control-plane"

\* The backends a load balancer manager would configure for a cluster are the
\* instances launched for its control plane machines, at their own addresses:
\* not those of a cluster of the same name in another namespace, not workers,
\* load balancers or kini nodes, whatever keys the users put in spec.config
\* (util.go:10), and never an address that moves between nodes or that only
\* exists inside one (client_parse_addresses.go).
OwnControlPlane ==
    \A c \in DOMAIN Clusters :
        BackendServers(ListWithConfig(ControlPlaneFilter(c))) =
            {[name |-> n, address |-> "own"] : n \in
                {k \in DOMAIN insts : /\ insts[k].by \in MachineNames
                                      /\ Machines[insts[k].by].cp
                                      /\ Machines[insts[k].by].cluster = c
                                      /\ "own" \in insts[k].net}}

\* What the API reference says of image names (lxcmachine_types.go:163-187): the
\* protocol, the server and the alias, on an Incus or an LXD server.  Of an OCI
\* image with a digest the tag is left out (launch_options_complete.go:41).
Documented(s, name) ==
    LET prefix == s.image.name[1].prefix
        hash == s.image.name[1].hash
        rest == IF ContainsVersion(s.image) THEN s.version ELSE s.image.name[1].rest
        images == IF name = "incus" THEN "images.linuxcontainers.org" ELSE "images.lxd.canonical.com"
    IN IF s.image.name = <<>>
       THEN IF s.type = "kind" THEN <<"oci", "docker.io", <<"kindest/node", s.version, Unset>>>>
            ELSE <<"simplestreams", "capi", <<"kubeadm", s.version>>>>
       ELSE IF hash # Unset
       THEN <<s.image.protocol, s.image.server,
              <<prefix, IF s.image.protocol = "oci" THEN Unset ELSE rest, hash>>>>
       ELSE CASE prefix = "ubuntu" ->
                    <<"simplestreams", IF name = "incus" THEN images ELSE "cloud-images.ubuntu.com",
                      IF name = "incus" THEN <<"ubuntu", rest, "cloud">> ELSE <<rest>>>>
              [] prefix = "debian" -> <<"simplestreams", images, <<"debian", rest, "cloud">>>>
              [] prefix = "images" -> <<"simplestreams", images, <<rest>>>>
              [] prefix \in {"capi", "capi-stg"} -> <<"simplestreams", prefix, <<rest>>>>
              [] prefix = "kind" -> <<"oci", "docker.io", <<"kindest/node", rest, Unset>>>>
              [] OTHER -> <<s.image.protocol, s.image.server, <<rest>>>>

\* An instance runs the image its LXCMachine asks for, on this server, and the
\* default image of the Machine's version if it asks for none, also when the
\* launch was retried: no path through launchInstance, WithImage and complete
\* leaves another one in place.
ImageIsDocumented ==
    \A n \in DOMAIN insts :
        LET s == spec[insts[n].by] IN
        insts[n].by \in MachineNames /\ s.image.fingerprint = Unset =>
            <<insts[n].image.protocol, insts[n].image.server, insts[n].image.alias>> = Documented(s, server.name)

\* The options put together for a virtual machine hold nothing that complete()
\* refuses for it: if its launch is aborted, its devices, its image or the
\* server are the cause.
VMsAreLaunchable ==
    \A m \in MachineNames :
        LET s == spec[m] IN
        res[m] = "terminal" /\ s.type = "virtual-machine" =>
            \/ s.devices = "malformed"
            \/ s.version = Unset /\ (IsZero(s.image) \/ ContainsVersion(s.image))
            \/ IsZero(s.image)
            \/ server.name \notin DOMAIN LaunchImage(s)

\* Templates are stored under the base name of their path (client_instances.go:74):
\* no two of an instance may share it, or one file gets the contents of the other.
TemplatesAreApart ==
    \A n \in DOMAIN insts : \A t, u \in insts[n].templates : t[2] = u[2] => t = u

\* lxcmachine_types.go:85: "Note that the provider will always set the following
\* configuration keys", cloud-init.user-data and the four user.* keys.
ProviderKeysSet ==
    \A m \in MachineNames :
        res[m] = "ok" /\ Exists(Machines[m].name) /\ insts[Machines[m].name].by = m =>
            LET config == insts[Machines[m].name].config IN
            /\ \A k \in DOMAIN Identity(m) : Value(config, k) = Identity(m)[k]
            /\ Value(config, "cloud-init.user-data") = spec[m].cloudInit
=============================================================================
