--------------------------- MODULE LaunchOptions ---------------------------
(***************************************************************************)
(* internal/lxc/launch_options*.go, internal/lxc/images*.go and            *)
(* internal/instances: how the options of an instance are put together,    *)
(* as operators.  Maps are functions with a finite domain; of files and    *)
(* replacements only the presence matters, of templates the path.  A       *)
(* string that the code composes (an alias, a path) is the tuple of its    *)
(* parts.                                                                  *)
(***************************************************************************)
EXTENDS Integers, Sequences

ServerNames == {"incus", "lxd", "unknown"}   \* GetServerName

\* Maps: one key, and one map laid over another, written as in the module TLC
\* (whose operators the prover does not know).  A string left out is the empty one.
EmptyMap == [k \in {} |-> k]
key :> value == [k \in {key} |-> value]
new @@ old == [k \in DOMAIN new \cup DOMAIN old |-> IF k \in DOMAIN new THEN new[k] ELSE old[k]]
Unset == ""

-----------------------------------------------------------------------------
\* Images.  A family has an image for each server that it supports.
Image(protocol, server, alias) ==
    [protocol |-> protocol, server |-> server, alias |-> alias, fingerprint |-> Unset]
Everywhere(image) == [s \in ServerNames |-> image]

SimplestreamsOf(server, alias) == Image("simplestreams", server, alias)

UbuntuImage(version) ==
    [incus |-> SimplestreamsOf("images.linuxcontainers.org", <<"ubuntu", version, "cloud">>),
     lxd |-> SimplestreamsOf("cloud-images.ubuntu.com", <<version>>)]

DebianImage(version) ==
    [incus |-> SimplestreamsOf("images.linuxcontainers.org", <<"debian", version, "cloud">>),
     lxd |-> SimplestreamsOf("images.lxd.canonical.com", <<"debian", version, "cloud">>)]

DefaultImage(image) ==
    [incus |-> SimplestreamsOf("images.linuxcontainers.org", image),
     lxd |-> SimplestreamsOf("images.lxd.canonical.com", image)]

CapnImage(image) == Everywhere(SimplestreamsOf("capi", image))
CapnStagingImage(image) == Everywhere(SimplestreamsOf("capi-stg", image))

\* The alias of an OCI image is <<repository, tag, digest>>.
OCIOf(server, alias) == Everywhere(Image("oci", server, alias))
KindestNodeImage(version) == OCIOf("docker.io", <<"kindest/node", version, Unset>>)

\* An image name is [prefix, rest, hash], `PREFIX:REST@sha256:HASH` with prefix or
\* hash perhaps left out.  With exactly one ":" it has to have a prefix that is
\* well known; any other is taken as it is.
OneColon(name) == name.prefix # Unset <=> name.hash = Unset
WellKnown == {"ubuntu", "debian", "images", "capi", "capi-stg", "kind"}

ParseImage(name) ==
    CASE name.prefix = "ubuntu" -> UbuntuImage(name.rest)
      [] name.prefix = "debian" -> DebianImage(name.rest)
      [] name.prefix = "images" -> DefaultImage(<<name.rest>>)
      [] name.prefix = "capi" -> CapnImage(<<name.rest>>)
      [] name.prefix = "capi-stg" -> CapnStagingImage(<<name.rest>>)
      [] name.prefix = "kind" -> KindestNodeImage(name.rest)

-----------------------------------------------------------------------------
\* LaunchOptions and its With methods.
NoOptions ==
    [type |-> Unset, image |-> EmptyMap, config |-> EmptyMap, devices |-> EmptyMap,
     templates |-> {}, files |-> {}, replacements |-> {}, unixSocket |-> FALSE]

WithInstanceType(o, type) == [o EXCEPT !.type = type]
WithConfig(o, new) == [o EXCEPT !.config = new @@ @]
WithDevices(o, new) == [o EXCEPT !.devices = new @@ @]
WithInstanceTemplates(o, new) == [o EXCEPT !.templates = @ \cup new]
WithFiles(o, new) == [o EXCEPT !.files = @ \cup new]
WithReplacements(o, new) == [o EXCEPT !.replacements = @ \cup new]
WithUnixSocket(o, v) == [o EXCEPT !.unixSocket = v]

\* A no-op for an image without alias and fingerprint.
WithImage(o, family) ==
    IF \E s \in DOMAIN family : family[s].alias = <<>> /\ family[s].fingerprint = Unset
    THEN o ELSE [o EXCEPT !.image = family]

\* complete: what is wrong with the options, the image for this server and the
\* devices with that of the server's socket.  `IMG[:TAG]@sha256:HASH` becomes
\* `IMG@sha256:HASH`.
CompleteError(o, server) ==
    IF \/ /\ o.type = "virtual-machine"
          /\ o.unixSocket \/ o.files # {} \/ o.replacements # {}
       \/ server \notin DOMAIN o.image
       \/ o.unixSocket /\ server = "unknown"
    THEN "terminal" ELSE "none"

CompleteImage(o, server) ==
    LET i == o.image[server] IN
    IF i.protocol = "oci" /\ Len(i.alias) = 3 /\ i.alias[3] # Unset
    THEN [i EXCEPT !.alias[2] = Unset] ELSE i

Device(type, from, to) == [type |-> type, from |-> from, to |-> to]

UnixSocketPath(server) ==
    IF server = "lxd" THEN "/var/snap/lxd/common/lxd/unix.socket" ELSE "/var/lib/incus/unix.socket"

CompleteDevices(o, server) ==
    IF o.unixSocket
    THEN <<"00-unix-socket", 1>> :> Device("disk", UnixSocketPath(server), "/run-unix.socket") @@ o.devices
    ELSE o.devices

-----------------------------------------------------------------------------
\* internal/instances.  A profile is one configuration key and one device here.
Profile(name) == [config |-> "profile" :> name, devices |-> <<"profile", 1>> :> Device("profile", name, Unset)]

DefaultKubeadmProfile(privileged, server) ==
    Profile(IF privileged THEN "kubeadm"
            ELSE IF server = "lxd" THEN "unprivileged-lxd" ELSE "unprivileged")
DefaultKindProfile(privileged) ==
    Profile(IF privileged THEN "kind" ELSE "unprivileged-kind")

WithProfile(o, profile) == WithDevices(WithConfig(o, profile.config), profile.devices)

WithCloudInit(o, cloudInit) ==
    IF cloudInit = Unset THEN o ELSE WithConfig(o, "cloud-init.user-data" :> cloudInit)

\* As if the script were a file of the instance.
KubeadmLaunchOptionsFile(in) ==
    LET base == WithFiles(WithImage(WithInstanceType(NoOptions, in.type),
                                    CapnImage(<<"kubeadm", in.version>>)), {"install-kubeadm.sh"})
        opts == WithCloudInit(base, in.cloudInit)
    IN  IF in.type = "container" /\ ~in.skipProfile
        THEN WithProfile(opts, DefaultKubeadmProfile(in.privileged, in.server)) ELSE opts

KubeadmLaunchOptions(in) ==
    LET base == WithImage(WithInstanceType(NoOptions, in.type), CapnImage(<<"kubeadm", in.version>>))
        script == IF in.skipScript THEN base
                  ELSE WithInstanceTemplates(base, {<<"/opt/cluster-api", "install-kubeadm.sh">>})
        opts == WithCloudInit(script, in.cloudInit)
    IN  IF in.type = "container" /\ ~in.skipProfile
        THEN WithProfile(opts, DefaultKubeadmProfile(in.privileged, in.server)) ELSE opts

\* Without apt, the cloud-config is parsed: only a subset of it is supported.
KindOptionsError(in) ==
    IF in.cloudInit = "unsupported" /\ ~in.apt THEN "terminal" ELSE "none"

KindLaunchOptions(in) ==
    LET base == WithFiles(WithReplacements(
                    WithImage(WithInstanceType(NoOptions, "container"), KindestNodeImage(in.version)),
                    {"/usr/local/bin/entrypoint"}), {"/init"})
        seeded == WithFiles(WithInstanceTemplates(WithCloudInit(base, in.cloudInit),
                      {<<"/var/lib/cloud/seed/nocloud-net", "meta-data">>,
                       <<"/var/lib/cloud/seed/nocloud-net", "user-data">>,
                       <<"/etc/systemd/system", "cloud-init-launch.service">>,
                       <<"/hack", "cloud-init.py">>}
                      \cup (IF in.apt THEN {} ELSE {<<"/hack", "cloud-init.json">>})),
                      {"cloud-init-launch.service"})
        opts == WithReplacements(IF in.cloudInit = Unset THEN base ELSE seeded,
                    IF in.podCIDR THEN {"/kind/manifests/default-cni.yaml"} ELSE {})
    IN  IF in.skipProfile THEN opts ELSE WithProfile(opts, DefaultKindProfile(in.privileged))

HaproxyLXCLaunchOptions ==
    WithImage(WithInstanceType(NoOptions, "container"), CapnImage(<<"haproxy">>))

HaproxyOCILaunchOptions ==
    WithFiles(WithConfig(
        WithImage(WithInstanceType(NoOptions, "container"),
                  OCIOf("ghcr.io", <<"lxc/cluster-api-provider-incus/haproxy", "v20230606", Unset>>)),
        "oci.entrypoint" :> "/init"), {"/init", "/etc/environment"})
=============================================================================
