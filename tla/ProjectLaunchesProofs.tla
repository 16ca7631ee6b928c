------------------------ MODULE ProjectLaunchesProofs ------------------------
(***************************************************************************)
(* Proofs about the instances in one Incus project, for any machines,      *)
(* clusters, kind nodes and archives: whose instance an instance is can be *)
(* read off its configuration, and no step of either launcher, in any      *)
(* order, touches an instance that is not its own.                         *)
(***************************************************************************)
EXTENDS ProjectLaunches, TLAPS

-----------------------------------------------------------------------------
\* docker load and docker save

\* The file of a tag is what was loaded for it last, or does not open as a whole.
FileInv(t) ==
    /\ loaded[t] # <<>> =>
          /\ cached[t] # <<>>
          /\ cached[t][1].content = loaded[t][1].content
          /\ cached[t][1].cut \in {"whole", "late"}
    /\ loaded[t] = <<>> => cached[t] = <<>> \/ cached[t][1].cut \in {"early", "late"}

CacheInv ==
    /\ DOMAIN cached = Tags /\ DOMAIN loaded = Tags
    /\ cached = [t \in Tags |-> cached[t]]
    /\ loaded = [t \in Tags |-> loaded[t]]
    /\ load = [pc |-> load.pc, ar |-> load.ar]
    /\ load.pc \in {"idle", "scan", "create", "copy"}
    /\ load.pc # "idle" => \E ar \in Archives : load.ar = <<ar>>
    /\ load.pc \in {"create", "copy"} => load.ar[1].cut \in {"whole", "late"}
    /\ load.pc = "copy" => loaded[load.ar[1].tag] = <<>>
    /\ \A t \in Tags : FileInv(t)

\* The initial states satisfy the invariant of the cache.
LEMMA InitCache == KiniInit => CacheInv
BY DEF KiniInit, CacheInv, FileInv, NoLoad

\* Every step that touches the cache keeps its invariant: a load truncates the
\* file before it writes it, and counts only when it ended.
LEMMA CacheKept ==
  ASSUME CacheInv, KiniNext
  PROVE  CacheInv'
PROOF
  <1>1. ASSUME NEW ar \in Archives, DockerLoad(ar) PROVE CacheInv'
    BY <1>1, Zenon DEF CacheInv, FileInv, DockerLoad
  <1>2. CASE LoadScan
    BY <1>2 DEF CacheInv, FileInv, LoadScan, NoLoad
  <1>3. CASE LoadCreate
    <2>1. PICK ar \in Archives : load.ar = <<ar>>
      BY <1>3, Zenon DEF CacheInv, LoadCreate
    <2>2. ar.tag \in Tags /\ load.ar[1] = ar
      BY <2>1 DEF Tags
    <2>3. /\ load' = [pc |-> "copy", ar |-> <<ar>>]
          /\ cached' = [cached EXCEPT ![ar.tag] = <<[content |-> ar.content, cut |-> "early"]>>]
          /\ loaded' = [loaded EXCEPT ![ar.tag] = <<>>]
      BY <1>3, <2>1, <2>2, Zenon DEF CacheInv, LoadCreate
    <2>4. \A t \in Tags : FileInv(t)'
      BY <2>2, <2>3, Zenon DEF CacheInv, FileInv
    <2> QED  BY <1>3, <2>1, <2>2, <2>3, <2>4, Zenon DEF CacheInv, LoadCreate
  <1>4. CASE LoadCopy
    <2>1. PICK ar \in Archives : load.ar = <<ar>>
      BY <1>4, Zenon DEF CacheInv, LoadCopy
    <2>2. ar.tag \in Tags /\ load.ar[1] = ar
      BY <2>1 DEF Tags
    <2>3. ar.cut \in {"whole", "late"} /\ loaded[ar.tag] = <<>>
      BY <1>4, <2>2, Zenon DEF CacheInv, LoadCopy
    <2>4. load' = [pc |-> "idle", ar |-> <<>>]
      BY <1>4, Zenon DEF LoadCopy, NoLoad
    <2>5. CASE /\ cached' = [cached EXCEPT ![ar.tag] = <<[content |-> ar.content, cut |-> ar.cut]>>]
               /\ loaded' = [loaded EXCEPT ![ar.tag] = <<ar>>]
      <3>1. \A t \in Tags : FileInv(t)'
        BY <2>2, <2>3, <2>5, Zenon DEF CacheInv, FileInv
      <3> QED  BY <2>2, <2>4, <2>5, <3>1, Zenon DEF CacheInv
    <2>6. ASSUME NEW cut \in {"early", "late"}, loaded' = loaded,
                 cached' = [cached EXCEPT ![ar.tag] = <<[content |-> ar.content, cut |-> cut]>>]
          PROVE  CacheInv'
      <3>1. \A t \in Tags : FileInv(t)'
        BY <2>2, <2>3, <2>6, Zenon DEF CacheInv, FileInv
      <3> QED  BY <2>2, <2>4, <2>6, <3>1, Zenon DEF CacheInv
    <2> QED  BY <1>4, <2>2, <2>5, <2>6, Zenon DEF LoadCopy
  <1>5. ASSUME UNCHANGED <<load, cached, loaded>> PROVE CacheInv'
    BY <1>5, Zenon DEF CacheInv, FileInv
  <1> QED
    BY <1>1, <1>2, <1>3, <1>4, <1>5, Zenon
    DEF KiniNext, DockerRun, KindCreate, KindCreated, KindBalances, KindDeletes, KindLists, KindRemoves,
        DockerSave, cacheVars

\* The content of a saved image is that of the last load that ended.
LEMMA SaveStep ==
  ASSUME CacheInv, KiniNext, shipped' # shipped
  PROVE  shipped'[1].content =
             IF loaded[shipped'[1].tag] = <<>> THEN "remote" ELSE loaded[shipped'[1].tag][1].content
PROOF
  <1>1. PICK t \in Tags : DockerSave(t)
    BY Zenon DEF KiniNext, DockerRun, KindCreate, KindCreated, KindBalances, KindDeletes, KindLists, KindRemoves,
           DockerLoad, LoadScan, LoadCreate, LoadCopy, cacheVars
  <1>2. FileInv(t)
    BY Zenon DEF CacheInv
  <1>3. PICK content : shipped' = <<[tag |-> t, content |-> content]>>
    BY <1>1, Zenon DEF DockerSave
  <1> QED  BY <1>1, <1>2, <1>3, Zenon DEF DockerSave, FileInv, Opens

-----------------------------------------------------------------------------
\* The options of an instance

\* The keys that internal/instances sets, and kind's labels.
BaseKeys == {"profile", "cloud-init.user-data", "oci.entrypoint"}
LabelKeys == {"user.io.x-k8s.kind.cluster", "user.io.x-k8s.kind.role"}

AllTemplates ==
    {<<"/opt/cluster-api", "install-kubeadm.sh">>,
     <<"/etc/kubernetes/manifests", "kube-vip.yaml">>,
     <<"/var/lib/cloud/seed/nocloud-net", "meta-data">>,
     <<"/var/lib/cloud/seed/nocloud-net", "user-data">>,
     <<"/etc/systemd/system", "cloud-init-launch.service">>,
     <<"/hack", "cloud-init.py">>, <<"/hack", "cloud-init.json">>} \cup LxcTemplates

Options(type, image, config, devices, templates, files, replacements, unixSocket) ==
    [type |-> type, image |-> image, config |-> config, devices |-> devices,
     templates |-> templates, files |-> files, replacements |-> replacements,
     unixSocket |-> unixSocket]

\* A map laid over another one hides it where it has a key.
LEMMA MapOver ==
  ASSUME NEW f, NEW g
  PROVE  /\ DOMAIN (f @@ g) = DOMAIN f \cup DOMAIN g
         /\ \A k : Value(f @@ g, k) = IF k \in DOMAIN f THEN f[k] ELSE Value(g, k)
BY Zenon DEF @@, Value

\* A map of one key.
LEMMA MapOne ==
  ASSUME NEW k, NEW v
  PROVE  DOMAIN (k :> v) = {k} /\ (k :> v)[k] = v
BY Zenon DEF :>

Nameless(family) == \E s \in DOMAIN family : family[s].alias = <<>> /\ family[s].fingerprint = Unset

\* WithInstanceType changes the type only.
LEMMA InstanceTypeField ==
  ASSUME NEW t, NEW i, NEW c, NEW d, NEW tm, NEW f, NEW r, NEW u, NEW v
  PROVE  WithInstanceType(Options(t, i, c, d, tm, f, r, u), v) = Options(v, i, c, d, tm, f, r, u)
BY SMTT(30) DEF Options, WithInstanceType

\* WithConfig changes the configuration only.
LEMMA ConfigField ==
  ASSUME NEW t, NEW i, NEW c, NEW d, NEW tm, NEW f, NEW r, NEW u, NEW v
  PROVE  WithConfig(Options(t, i, c, d, tm, f, r, u), v) = Options(t, i, v @@ c, d, tm, f, r, u)
BY SMTT(30) DEF Options, WithConfig

\* WithDevices changes the devices only.
LEMMA DevicesField ==
  ASSUME NEW t, NEW i, NEW c, NEW d, NEW tm, NEW f, NEW r, NEW u, NEW v
  PROVE  WithDevices(Options(t, i, c, d, tm, f, r, u), v) = Options(t, i, c, v @@ d, tm, f, r, u)
BY SMTT(30) DEF Options, WithDevices

\* WithInstanceTemplates changes the templates only.
LEMMA InstanceTemplatesField ==
  ASSUME NEW t, NEW i, NEW c, NEW d, NEW tm, NEW f, NEW r, NEW u, NEW v
  PROVE  WithInstanceTemplates(Options(t, i, c, d, tm, f, r, u), v) = Options(t, i, c, d, tm \cup v, f, r, u)
BY SMTT(30) DEF Options, WithInstanceTemplates

\* WithFiles changes the files only.
LEMMA FilesField ==
  ASSUME NEW t, NEW i, NEW c, NEW d, NEW tm, NEW f, NEW r, NEW u, NEW v
  PROVE  WithFiles(Options(t, i, c, d, tm, f, r, u), v) = Options(t, i, c, d, tm, f \cup v, r, u)
BY SMTT(30) DEF Options, WithFiles

\* WithReplacements changes the replacements only.
LEMMA ReplacementsField ==
  ASSUME NEW t, NEW i, NEW c, NEW d, NEW tm, NEW f, NEW r, NEW u, NEW v
  PROVE  WithReplacements(Options(t, i, c, d, tm, f, r, u), v) = Options(t, i, c, d, tm, f, r \cup v, u)
BY SMTT(30) DEF Options, WithReplacements

\* WithUnixSocket changes the socket only.
LEMMA UnixSocketField ==
  ASSUME NEW t, NEW i, NEW c, NEW d, NEW tm, NEW f, NEW r, NEW u, NEW v
  PROVE  WithUnixSocket(Options(t, i, c, d, tm, f, r, u), v) = Options(t, i, c, d, tm, f, r, v)
BY SMTT(30) DEF Options, WithUnixSocket

\* WithImage changes the image only.
LEMMA ImageField ==
  ASSUME NEW t, NEW i, NEW c, NEW d, NEW tm, NEW f, NEW r, NEW u, NEW v
  PROVE  WithImage(Options(t, i, c, d, tm, f, r, u), v) = Options(t, IF Nameless(v) THEN i ELSE v, c, d, tm, f, r, u)
BY SMTT(30) DEF Options, WithImage, Nameless

NoSocket(socket) == socket = FALSE

\* What holds of all options before identity and labels are added.
IsBase(o, type, image, files, replacements) ==
    \E config, devices, templates, socket :
        /\ o = Options(type, image, config, devices, templates, files, replacements, socket)
        /\ NoSocket(socket)
        /\ DOMAIN config \subseteq BaseKeys
        /\ templates \subseteq AllTemplates

\* The options an instance starts from.
LEMMA BaseNone == IsBase(NoOptions, Unset, EmptyMap, {}, {})
PROOF
  <1>1. PICK socket : socket = FALSE
    BY Zenon
  <1>2. NoOptions = Options(Unset, EmptyMap, EmptyMap, EmptyMap, {}, {}, {}, socket)
    BY <1>1, Zenon DEF NoOptions, Options
  <1>3. DOMAIN EmptyMap \subseteq BaseKeys /\ {} \subseteq AllTemplates
    BY Zenon DEF EmptyMap
  <1>4. NoSocket(socket)
    BY <1>1, Zenon DEF NoSocket
  <1> QED  BY <1>2, <1>3, <1>4 DEF IsBase

\* What internal/instances does with them.
LEMMA BaseSteps ==
  ASSUME NEW o, NEW t, NEW i, NEW f, NEW r, IsBase(o, t, i, f, r), NEW v
  PROVE  /\ IsBase(WithInstanceType(o, v), v, i, f, r)
         /\ IsBase(WithImage(o, v), t, IF Nameless(v) THEN i ELSE v, f, r)
         /\ IsBase(WithFiles(o, v), t, i, f \cup v, r)
         /\ IsBase(WithReplacements(o, v), t, i, f, r \cup v)
         /\ v \subseteq AllTemplates => IsBase(WithInstanceTemplates(o, v), t, i, f, r)
         /\ DOMAIN v \subseteq BaseKeys => IsBase(WithConfig(o, v), t, i, f, r)
         /\ IsBase(WithDevices(o, v), t, i, f, r)
         /\ IsBase(WithCloudInit(o, v), t, i, f, r)
         /\ IsBase(WithProfile(o, Profile(v)), t, i, f, r)
PROOF
  <1>1. PICK c, d, tm, u :
                        /\ o = Options(t, i, c, d, tm, f, r, u)
                        /\ NoSocket(u)
                        /\ DOMAIN c \subseteq BaseKeys
                        /\ tm \subseteq AllTemplates
    BY Zenon DEF IsBase
  <1>2. IsBase(WithInstanceType(o, v), v, i, f, r)
    BY <1>1, InstanceTypeField DEF IsBase
  <1>3. IsBase(WithImage(o, v), t, IF Nameless(v) THEN i ELSE v, f, r)
    BY <1>1, ImageField DEF IsBase
  <1>4. IsBase(WithFiles(o, v), t, i, f \cup v, r)
    BY <1>1, FilesField DEF IsBase
  <1>5. IsBase(WithReplacements(o, v), t, i, f, r \cup v)
    BY <1>1, ReplacementsField DEF IsBase
  <1>6. ASSUME v \subseteq AllTemplates PROVE IsBase(WithInstanceTemplates(o, v), t, i, f, r)
    <2>1. tm \cup v \subseteq AllTemplates
      BY <1>1, <1>6, Zenon
    <2>2. WithInstanceTemplates(o, v) = Options(t, i, c, d, tm \cup v, f, r, u)
      BY <1>1, InstanceTemplatesField
    <2> QED  BY <1>1, <2>1, <2>2, Zenon DEF IsBase
  <1>7. ASSUME NEW w, DOMAIN w \subseteq BaseKeys
        PROVE  /\ WithConfig(o, w) = Options(t, i, w @@ c, d, tm, f, r, u)
               /\ DOMAIN (w @@ c) \subseteq BaseKeys
               /\ IsBase(WithConfig(o, w), t, i, f, r)
    <2>1. DOMAIN (w @@ c) \subseteq BaseKeys
      BY <1>1, <1>7, MapOver, Zenon
    <2>2. WithConfig(o, w) = Options(t, i, w @@ c, d, tm, f, r, u)
      BY <1>1, ConfigField, SMTT(30)
    <2> QED  BY <1>1, <2>1, <2>2, Zenon DEF IsBase
  <1>8. IsBase(WithDevices(o, v), t, i, f, r)
    BY <1>1, DevicesField DEF IsBase
  <1>9. IsBase(WithCloudInit(o, v), t, i, f, r)
    <2>1. DOMAIN ("cloud-init.user-data" :> v) \subseteq BaseKeys
      BY Zenon DEF BaseKeys, :>
    <2> QED  BY <1>1, <1>7, <2>1, Zenon DEF WithCloudInit, IsBase
  <1>10. IsBase(WithProfile(o, Profile(v)), t, i, f, r)
    <2>1. DOMAIN Profile(v).config \subseteq BaseKeys
      BY Zenon DEF BaseKeys, Profile, :>
    <2>2. PICK c2 : /\ WithConfig(o, Profile(v).config) = Options(t, i, c2, d, tm, f, r, u)
                    /\ DOMAIN c2 \subseteq BaseKeys
      BY <1>7, <2>1, Zenon
    <2> QED  BY <1>1, <2>2, DevicesField DEF WithProfile, IsBase
  <1> QED  BY <1>2, <1>3, <1>4, <1>5, <1>6, <1>7, <1>8, <1>9, <1>10, Zenon

\* The images of this provider are named.
LEMMA Named ==
  ASSUME NEW a, NEW b, NEW c
  PROVE  /\ ~Nameless(CapnImage(<<a>>)) /\ ~Nameless(CapnImage(<<a, b>>))
         /\ \A server_ : ~Nameless(OCIOf(server_, <<a, b, c>>))
PROOF
  <1>1. <<a>> # <<>> /\ <<a, b>> # <<>> /\ <<a, b, c>> # <<>>
    BY Zenon
  <1> QED  BY <1>1, Zenon DEF Nameless, CapnImage, OCIOf, Everywhere, SimplestreamsOf, Image

\* The options for a kubeadm instance.
LEMMA KubeadmBase ==
  ASSUME NEW in
  PROVE  IsBase(KubeadmLaunchOptions(in), in.type, CapnImage(<<"kubeadm", in.version>>), {}, {})
PROOF
  <1> DEFINE family == CapnImage(<<"kubeadm", in.version>>)
             base == WithImage(WithInstanceType(NoOptions, in.type), family)
             script == IF in.skipScript THEN base
                       ELSE WithInstanceTemplates(base, {<<"/opt/cluster-api", "install-kubeadm.sh">>})
             opts == WithCloudInit(script, in.cloudInit)
  <1>1. IsBase(base, in.type, family, {}, {})
    BY BaseNone, BaseSteps, Named, Zenon
  <1>2. {<<"/opt/cluster-api", "install-kubeadm.sh">>} \subseteq AllTemplates
    BY Zenon DEF AllTemplates
  <1>3. IsBase(script, in.type, family, {}, {})
    BY <1>1, <1>2, BaseSteps, Zenon
  <1> HIDE DEF script
  <1>4. IsBase(opts, in.type, family, {}, {})
    BY <1>3, BaseSteps, Zenon
  <1> HIDE DEF opts
  <1>5. IsBase(WithProfile(opts, DefaultKubeadmProfile(in.privileged, in.server)), in.type, family, {}, {})
    BY <1>4, BaseSteps, Zenon DEF DefaultKubeadmProfile
  <1> QED  BY <1>4, <1>5, Zenon DEF KubeadmLaunchOptions, opts, script

\* The options for a kind instance.
LEMMA KindBase ==
  ASSUME NEW in
  PROVE  \E f, r : IsBase(KindLaunchOptions(in), "container", KindestNodeImage(in.version), f, r)
PROOF
  <1> DEFINE family == KindestNodeImage(in.version)
             base == WithFiles(WithReplacements(
                         WithImage(WithInstanceType(NoOptions, "container"), family),
                         {"/usr/local/bin/entrypoint"}), {"/init"})
             seed == {<<"/var/lib/cloud/seed/nocloud-net", "meta-data">>,
                      <<"/var/lib/cloud/seed/nocloud-net", "user-data">>,
                      <<"/etc/systemd/system", "cloud-init-launch.service">>,
                      <<"/hack", "cloud-init.py">>}
                     \cup (IF in.apt THEN {} ELSE {<<"/hack", "cloud-init.json">>})
             seeded == WithFiles(WithInstanceTemplates(WithCloudInit(base, in.cloudInit), seed),
                                 {"cloud-init-launch.service"})
             chosen == IF in.cloudInit = Unset THEN base ELSE seeded
             opts == WithReplacements(chosen,
                         IF in.podCIDR THEN {"/kind/manifests/default-cni.yaml"} ELSE {})
  <1>1. ~Nameless(family)
    BY Named, Zenon DEF KindestNodeImage
  <1>2. PICK f, r : IsBase(base, "container", family, f, r)
    <2>1. IsBase(WithImage(WithInstanceType(NoOptions, "container"), family), "container", family, {}, {})
      BY <1>1, BaseNone, BaseSteps, Zenon
    <2>2. IsBase(WithReplacements(WithImage(WithInstanceType(NoOptions, "container"), family),
                                  {"/usr/local/bin/entrypoint"}),
                 "container", family, {}, {} \cup {"/usr/local/bin/entrypoint"})
      BY <2>1, BaseSteps, Zenon
    <2>3. IsBase(base, "container", family, {} \cup {"/init"}, {} \cup {"/usr/local/bin/entrypoint"})
      BY <2>2, BaseSteps, Zenon
    <2> QED  BY <2>3, Zenon
  <1>3. seed \subseteq AllTemplates
    BY Zenon DEF AllTemplates
  <1> HIDE DEF family, base, seed
  <1>4. \E g : IsBase(chosen, "container", family, g, r)
    <2>1. IsBase(WithCloudInit(base, in.cloudInit), "container", family, f, r)
      BY <1>2, BaseSteps, Zenon
    <2>2. IsBase(WithInstanceTemplates(WithCloudInit(base, in.cloudInit), seed), "container", family, f, r)
      BY <1>3, <2>1, BaseSteps, Zenon
    <2>3. \E g : IsBase(seeded, "container", family, g, r)
      BY <2>2, BaseSteps, Zenon
    <2> QED  BY <1>2, <2>3, Zenon
  <1> HIDE DEF chosen
  <1>5. PICK g, q : IsBase(opts, "container", family, g, q)
    BY <1>4, BaseSteps, Zenon
  <1> HIDE DEF opts
  <1>6. IsBase(WithProfile(opts, DefaultKindProfile(in.privileged)), "container", family, g, q)
    BY <1>5, BaseSteps, Zenon DEF DefaultKindProfile
  <1> QED  BY <1>5, <1>6, Zenon DEF KindLaunchOptions, opts, chosen, seed, base, family

\* The options for a load balancer.
LEMMA HaproxyBase ==
  \E i, j, f : /\ IsBase(HaproxyLXCLaunchOptions, "container", i, {}, {})
               /\ IsBase(HaproxyOCILaunchOptions, "container", j, f, {})
PROOF
  <1>1. IsBase(WithInstanceType(NoOptions, "container"), "container", EmptyMap, {}, {})
    BY BaseNone, BaseSteps, Zenon
  <1>2. \E i : IsBase(HaproxyLXCLaunchOptions, "container", i, {}, {})
    BY <1>1, BaseSteps, Zenon DEF HaproxyLXCLaunchOptions
  <1> DEFINE family == OCIOf("ghcr.io", <<"lxc/cluster-api-provider-incus/haproxy", "v20230606", Unset>>)
             base == WithImage(WithInstanceType(NoOptions, "container"), family)
  <1>3. PICK j : IsBase(base, "container", j, {}, {})
    BY <1>1, BaseSteps, Zenon
  <1>4. DOMAIN ("oci.entrypoint" :> "/init") \subseteq BaseKeys
    BY Zenon DEF BaseKeys, :>
  <1> HIDE DEF base
  <1>5. IsBase(WithConfig(base, "oci.entrypoint" :> "/init"), "container", j, {}, {})
    BY <1>3, <1>4, BaseSteps, Zenon
  <1>6. IsBase(WithFiles(WithConfig(base, "oci.entrypoint" :> "/init"), {"/init", "/etc/environment"}),
               "container", j, {} \cup {"/init", "/etc/environment"}, {})
    BY <1>5, BaseSteps, Zenon
  <1> QED  BY <1>2, <1>6, Zenon DEF HaproxyOCILaunchOptions, base

-----------------------------------------------------------------------------
\* The image of an LXCMachine

\* The alias of an image after complete().
Trimmed(protocol, alias) ==
    IF protocol = "oci" /\ Len(alias) = 3 /\ alias[3] # Unset THEN [alias EXCEPT ![2] = Unset] ELSE alias

\* complete() changes nothing else.
LEMMA Completed ==
  ASSUME NEW o, NEW name, NEW protocol, NEW at, NEW alias, o.image[name] = Image(protocol, at, alias)
  PROVE  LET i == CompleteImage(o, name) IN
         i.protocol = protocol /\ i.server = at /\ i.alias = Trimmed(protocol, alias)
PROOF
  <1> DEFINE i == Image(protocol, at, alias)
             cut == [alias EXCEPT ![2] = Unset]
  <1>1. ASSUME NEW a
        PROVE  /\ Image(protocol, at, a).protocol = protocol /\ Image(protocol, at, a).server = at
               /\ Image(protocol, at, a).alias = a
    BY Zenon DEF Image
  <1>2. [i EXCEPT !.alias[2] = Unset] = Image(protocol, at, cut)
    <2>1. ASSUME NEW a PROVE [i EXCEPT !.alias = a] = Image(protocol, at, a)
      BY DEF Image
    <2>2. i.alias = alias
      BY <1>1, Zenon
    <2> HIDE DEF i
    <2>3. [i EXCEPT !.alias[2] = Unset] = [i EXCEPT !.alias = [i.alias EXCEPT ![2] = Unset]]
      BY Zenon
    <2> QED  BY <2>1, <2>2, <2>3, Zenon
  <1>3. i.protocol = protocol /\ i.alias = alias
    BY <1>1, Zenon
  <1> HIDE DEF i
  <1>4. CompleteImage(o, name) = Image(protocol, at, Trimmed(protocol, alias))
    BY <1>2, <1>3, Zenon DEF CompleteImage, Trimmed, i
  <1> QED  BY <1>1, <1>4, Zenon

\* Of the aliases in use, only one with a digest is changed.
LEMMA TrimmedForms ==
  ASSUME NEW protocol, NEW a
  PROVE  Trimmed(protocol, <<a>>) = <<a>> /\ Trimmed("simplestreams", a) = a
PROOF
  <1>1. Len(<<a>>) = 1
    OBVIOUS
  <1>2. Trimmed(protocol, <<a>>) = <<a>>
    BY <1>1 DEF Trimmed
  <1>3. Trimmed("simplestreams", a) = a
    BY Zenon DEF Trimmed
  <1> QED  BY <1>2, <1>3, Zenon

LEMMA TrimmedTag ==
  ASSUME NEW a, NEW b
  PROVE  Trimmed("oci", <<a, b, Unset>>) = <<a, b, Unset>>
PROOF
  <1>1. <<a, b, Unset>>[3] = Unset
    BY Zenon
  <1> QED  BY <1>1, Zenon DEF Trimmed

LEMMA TrimmedDigest ==
  ASSUME NEW a, NEW b, NEW c, c # Unset
  PROVE  Trimmed("oci", <<a, b, c>>) = <<a, Unset, c>>
PROOF
  <1>1. Len(<<a, b, c>>) = 3
    OBVIOUS
  <1>2. <<a, b, c>>[3] = c
    BY Zenon
  <1>3. [<<a, b, c>> EXCEPT ![2] = Unset] = <<a, Unset, c>>
    OBVIOUS
  <1> QED  BY <1>1, <1>2, <1>3, Zenon DEF Trimmed

RestOf(s) == IF ContainsVersion(s.image) THEN s.version ELSE s.image.name[1].rest

ImageSpec(name, fingerprint, at, protocol) ==
    [name |-> name, fingerprint |-> fingerprint, server |-> at, protocol |-> protocol]
NameOf(prefix, rest, hash) == <<[prefix |-> prefix, rest |-> rest, hash |-> hash]>>

\* Their parts.
LEMMA ImageSpecFields ==
  ASSUME NEW name, NEW f, NEW at, NEW q, NEW p, NEW r, NEW h
  PROVE  /\ ImageSpec(name, f, at, q).name = name
         /\ ImageSpec(name, f, at, q).server = at
         /\ ImageSpec(name, f, at, q).fingerprint = f
         /\ ImageSpec(name, f, at, q).protocol = q
         /\ NameOf(p, r, h)[1].prefix = p
         /\ NameOf(p, r, h)[1].rest = r
         /\ NameOf(p, r, h)[1].hash = h
PROOF
  <1> DEFINE x == [prefix |-> p, rest |-> r, hash |-> h]
  <1>1. NameOf(p, r, h)[1] = x
    BY Zenon DEF NameOf
  <1>2. x.prefix = p /\ x.rest = r /\ x.hash = h
    BY Zenon
  <1> HIDE DEF x
  <1>3. NameOf(p, r, h)[1].prefix = p /\ NameOf(p, r, h)[1].rest = r /\ NameOf(p, r, h)[1].hash = h
    BY <1>1, <1>2, Zenon
  <1> QED  BY <1>3, Zenon DEF ImageSpec

\* The version goes into the name and nowhere else.
LEMMA VersionPut ==
  ASSUME NEW p, NEW r, NEW h, NEW f, NEW at, NEW q, NEW v
  PROVE  [ImageSpec(NameOf(p, r, h), f, at, q) EXCEPT !.name[1].rest = v] = ImageSpec(NameOf(p, v, h), f, at, q)
PROOF
  <1> DEFINE i == ImageSpec(NameOf(p, r, h), f, at, q)
  <1>1. i.name = NameOf(p, r, h)
    BY Zenon DEF ImageSpec
  <1>2. NameOf(p, r, h)[1] = [prefix |-> p, rest |-> r, hash |-> h]
    BY Zenon DEF NameOf
  <1>3. [NameOf(p, r, h)[1] EXCEPT !.rest = v] = [prefix |-> p, rest |-> v, hash |-> h]
    BY <1>2
  <1>4. [NameOf(p, r, h) EXCEPT ![1] = [prefix |-> p, rest |-> v, hash |-> h]] = NameOf(p, v, h)
    <2>1. ASSUME NEW x, NEW y PROVE [<<x>> EXCEPT ![1] = y] = <<y>>
      OBVIOUS
    <2> QED  BY <2>1, Zenon DEF NameOf
  <1>5. [i EXCEPT !.name = NameOf(p, v, h)] = ImageSpec(NameOf(p, v, h), f, at, q)
    <2>1. ASSUME NEW x, NEW y
          PROVE  [ImageSpec(x, f, at, q) EXCEPT !.name = y] = ImageSpec(y, f, at, q)
      BY DEF ImageSpec
    <2> QED  BY <2>1, Zenon
  <1> HIDE DEF i
  <1>6. [i EXCEPT !.name[1].rest = v] = [i EXCEPT !.name = [i.name EXCEPT ![1] = [i.name[1] EXCEPT !.rest = v]]]
    BY Zenon
  <1> QED  BY <1>1, <1>3, <1>4, <1>5, <1>6, Zenon DEF i

\* The image that is looked up, of a name that is given.
LEMMA SubstitutedName ==
  ASSUME NEW m \in MachineNames, NEW s \in Specs[m], s.image.name # <<>>
  PROVE  LET i == Substituted(s.image, s.version) IN
         /\ i.name = NameOf(s.image.name[1].prefix, RestOf(s), s.image.name[1].hash)
         /\ i.server = s.image.server /\ i.fingerprint = s.image.fingerprint
         /\ i.protocol = s.image.protocol
PROOF
  <1>1. PICK p, r, h, f, at, q : s.image = ImageSpec(NameOf(p, r, h), f, at, q)
    BY SpecsAssumption, Zenon DEF ImageSpec, NameOf
  <1> DEFINE i == s.image
             v == s.version
  <1>2. i.name = NameOf(p, r, h) /\ i.server = at /\ i.fingerprint = f /\ i.protocol = q
    BY <1>1, ImageSpecFields
  <1>3. i.name[1].prefix = p /\ i.name[1].rest = r /\ i.name[1].hash = h
    BY <1>2, ImageSpecFields
  <1>4. Substituted(s.image, s.version) = ImageSpec(NameOf(p, RestOf(s), h), f, at, q)
    <2>1. CASE ContainsVersion(s.image)
      <3>1. RestOf(s) = s.version
        BY <2>1, Zenon DEF RestOf
      <3>2. Substituted(s.image, s.version) = [s.image EXCEPT !.name[1].rest = s.version]
        BY <2>1, Zenon DEF Substituted
      <3>3. [s.image EXCEPT !.name[1].rest = s.version]
                = [ImageSpec(NameOf(p, r, h), f, at, q) EXCEPT !.name[1].rest = s.version]
        BY <1>1, Zenon
      <3> QED  BY <3>1, <3>2, <3>3, VersionPut
    <2>2. CASE ~ContainsVersion(s.image)
      BY <1>1, <1>3, <2>2, Zenon DEF Substituted, RestOf
    <2> QED  BY <2>1, <2>2, Zenon
  <1> QED  BY <1>2, <1>3, <1>4, ImageSpecFields

\* The image that the options start from.
DefaultFamily(s) ==
    IF s.type = "kind" THEN KindestNodeImage(s.version) ELSE CapnImage(<<"kubeadm", s.version>>)

\* An image is looked up as the documentation says, once it is completed.
AsDocumented(family, s, name) ==
    \E protocol, at, alias : /\ family[name] = Image(protocol, at, alias)
                             /\ Documented(s, name) = <<protocol, at, Trimmed(protocol, alias)>>

\* A spec without a name gets the default image, also if it names a server.
LEMMA DefaultDocumented ==
  ASSUME NEW m \in MachineNames, NEW s \in Specs[m], s.image.fingerprint = Unset, s.image.name = <<>>,
         NEW name \in ServerNames
  PROVE  /\ Nameless(LaunchImage(s)) \/ LaunchImage(s) = DefaultFamily(s)
         /\ AsDocumented(DefaultFamily(s), s, name)
PROOF
  <1>1. Substituted(s.image, s.version) = s.image
    BY Zenon DEF Substituted, ContainsVersion
  <1>2. ASSUME IsZero(s.image) PROVE LaunchImage(s) = DefaultFamily(s)
    <2>1. IsZero(Substituted(s.image, s.version)) /\ Substituted(s.image, s.version).name = <<>>
      BY <1>1, <1>2, Zenon
    <2> QED  BY <2>1, Zenon DEF LaunchImage, DefaultFamily
  <1>3. ASSUME ~IsZero(s.image) PROVE Nameless(LaunchImage(s))
    <2> DEFINE i == [protocol |-> s.image.protocol, server |-> s.image.server, alias |-> <<>>,
                     fingerprint |-> s.image.fingerprint]
    <2>1. LaunchImage(s) = Everywhere(i)
      BY <1>1, <1>3, Zenon DEF LaunchImage, Verbatim
    <2>2. i.alias = <<>> /\ i.fingerprint = Unset
      BY Zenon
    <2> HIDE DEF i
    <2>3. "incus" \in DOMAIN Everywhere(i) /\ Everywhere(i)["incus"] = i
      BY Zenon DEF Everywhere, ServerNames
    <2>4. Nameless(Everywhere(i))
      BY <2>2, <2>3, Zenon DEF Nameless
    <2> QED  BY <2>1, <2>4, Zenon
  <1>4. AsDocumented(DefaultFamily(s), s, name)
    <2>1. CASE s.type = "kind"
      <3> DEFINE alias == <<"kindest/node", s.version, Unset>>
      <3>1. DefaultFamily(s)[name] = Image("oci", "docker.io", alias)
        BY <2>1, Zenon DEF DefaultFamily, KindestNodeImage, OCIOf, Everywhere
      <3>2. Documented(s, name) = <<"oci", "docker.io", alias>>
        BY <2>1, Zenon DEF Documented
      <3>3. Trimmed("oci", alias) = alias
        BY TrimmedTag, Zenon
      <3> HIDE DEF alias
      <3> QED  BY <3>1, <3>2, <3>3, Zenon DEF AsDocumented
    <2>2. CASE s.type # "kind"
      <3> DEFINE alias == <<"kubeadm", s.version>>
      <3>1. DefaultFamily(s)[name] = Image("simplestreams", "capi", alias)
        BY <2>2, Zenon DEF DefaultFamily, CapnImage, Everywhere, SimplestreamsOf
      <3>2. Documented(s, name) = <<"simplestreams", "capi", alias>>
        BY <2>2, Zenon DEF Documented
      <3>3. Trimmed("simplestreams", alias) = alias
        BY TrimmedForms, Zenon
      <3> HIDE DEF alias
      <3> QED  BY <3>1, <3>2, <3>3, Zenon DEF AsDocumented
    <2> QED  BY <2>1, <2>2, Zenon
  <1> QED  BY <1>2, <1>3, <1>4, Zenon

\* An image that has an alias is not taken for one that was left out.
LEMMA NamedFamilies ==
  ASSUME NEW at, NEW to, NEW alias, NEW other, alias # <<>>, other # <<>>
  PROVE  /\ ~Nameless([incus |-> SimplestreamsOf(at, alias), lxd |-> SimplestreamsOf(to, other)])
         /\ \A protocol : ~Nameless(Everywhere(Image(protocol, at, alias)))
PROOF
  <1>1. SimplestreamsOf(at, alias).alias = alias /\ SimplestreamsOf(to, other).alias = other
        /\ \A protocol : Image(protocol, at, alias).alias = alias
    BY Zenon DEF SimplestreamsOf, Image
  <1> DEFINE family == [incus |-> SimplestreamsOf(at, alias), lxd |-> SimplestreamsOf(to, other)]
  <1>2. /\ DOMAIN family = {"incus", "lxd"}
        /\ family["incus"] = SimplestreamsOf(at, alias) /\ family["lxd"] = SimplestreamsOf(to, other)
    BY Zenon
  <1> HIDE DEF family
  <1>3. ~Nameless(family)
    BY <1>1, <1>2, Zenon DEF Nameless
  <1>4. \A protocol : ~Nameless(Everywhere(Image(protocol, at, alias)))
    BY <1>1, Zenon DEF Nameless, Everywhere
  <1> QED  BY <1>3, <1>4, Zenon DEF family

\* A spec with a name gets an image of that name.
LEMMA NameDocumented ==
  ASSUME NEW m \in MachineNames, NEW s \in Specs[m], s.image.fingerprint = Unset, s.image.name # <<>>,
         OneColon(s.image.name[1]) => s.image.name[1].prefix \in WellKnown,
         NEW name \in ServerNames
  PROVE  /\ ~Nameless(LaunchImage(s))
         /\ name \in DOMAIN LaunchImage(s) => AsDocumented(LaunchImage(s), s, name)
PROOF
  <1> DEFINE p == s.image.name[1].prefix
             r == RestOf(s)
             h == s.image.name[1].hash
             q == s.image.protocol
             i == Substituted(s.image, s.version)
             images == IF name = "incus" THEN "images.linuxcontainers.org" ELSE "images.lxd.canonical.com"
             family == LaunchImage(s)
  <1>0. ASSUME NEW at, NEW alias, Documented(s, name) = <<"simplestreams", at, alias>>,
               family[name] = SimplestreamsOf(at, alias)
        PROVE  AsDocumented(family, s, name)
    <2> HIDE DEF family
    <2>1. Trimmed("simplestreams", alias) = alias
      BY TrimmedForms, Zenon
    <2> QED  BY <1>0, <2>1, Zenon DEF AsDocumented, SimplestreamsOf
  <1>1. /\ i.name # <<>> /\ i.name[1].prefix = p /\ i.name[1].rest = r /\ i.name[1].hash = h
        /\ i.server = s.image.server /\ i.fingerprint = Unset /\ i.protocol = q
    <2>1. i.name = NameOf(p, r, h) /\ i.server = s.image.server /\ i.fingerprint = Unset /\ i.protocol = q
      BY SubstitutedName, Zenon
    <2>2. NameOf(p, r, h) # <<>>
      BY Zenon DEF NameOf
    <2> HIDE DEF i, p, r, h, q
    <2> QED  BY <2>1, <2>2, ImageSpecFields
  <1>12. Unset \notin WellKnown
    BY Zenon DEF Unset, WellKnown
  <1> HIDE DEF i
  <1>2. ASSUME p # Unset, h = Unset PROVE family = ParseImage(i.name[1])
    BY <1>1, <1>2, Zenon DEF LaunchImage, OneColon, i
  <1>3. ASSUME NEW x, NEW y, NEW z
        PROVE <<x>> # <<>> /\ <<x, y>> # <<>> /\ <<x, y, z>> # <<>>
    BY Zenon
  <1>4. CASE p = "ubuntu" /\ h = Unset
    <2>1. family = UbuntuImage(r)
      BY <1>1, <1>2, <1>4, Zenon DEF ParseImage, Unset
    <2>2. Documented(s, name) = IF name = "incus" THEN <<"simplestreams", images, <<"ubuntu", r, "cloud">>>>
                                ELSE <<"simplestreams", "cloud-images.ubuntu.com", <<r>>>>
      BY <1>4, Zenon DEF Documented, RestOf
    <2>3. /\ UbuntuImage(r)["incus"] = SimplestreamsOf("images.linuxcontainers.org", <<"ubuntu", r, "cloud">>)
          /\ UbuntuImage(r)["lxd"] = SimplestreamsOf("cloud-images.ubuntu.com", <<r>>)
          /\ DOMAIN UbuntuImage(r) = {"incus", "lxd"}
      BY Zenon DEF UbuntuImage
    <2>4. ~Nameless(family)
      BY <1>3, <2>1, NamedFamilies, Zenon DEF UbuntuImage
    <2> HIDE DEF r, family
    <2>5. CASE name = "incus"
      <3>1. Documented(s, name) = <<"simplestreams", images, <<"ubuntu", r, "cloud">>>>
        BY <2>2, <2>5, Zenon
      <3>2. family[name] = SimplestreamsOf(images, <<"ubuntu", r, "cloud">>)
        BY <2>1, <2>3, <2>5, Zenon
      <3> HIDE DEF images
      <3> QED  BY <1>0, <2>4, <3>1, <3>2, Zenon DEF family
    <2>6. CASE name = "lxd"
      <3>1. Documented(s, name) = <<"simplestreams", "cloud-images.ubuntu.com", <<r>>>>
        BY <2>2, <2>6, Zenon
      <3>2. family[name] = SimplestreamsOf("cloud-images.ubuntu.com", <<r>>)
        BY <2>1, <2>3, <2>6, Zenon
      <3> QED  BY <1>0, <2>4, <3>1, <3>2, Zenon DEF family
    <2>7. CASE name \notin {"incus", "lxd"}
      BY <2>1, <2>3, <2>4, <2>7, Zenon DEF family
    <2> QED  BY <2>5, <2>6, <2>7, Zenon DEF family
  <1>5. ASSUME NEW alias, alias # <<>>, family = DefaultImage(alias), Documented(s, name) = <<"simplestreams", images, alias>>
        PROVE  ~Nameless(family) /\ (name \in DOMAIN family => AsDocumented(family, s, name))
    <2> HIDE DEF family
    <2>1. /\ DefaultImage(alias)["incus"] = SimplestreamsOf("images.linuxcontainers.org", alias)
          /\ DefaultImage(alias)["lxd"] = SimplestreamsOf("images.lxd.canonical.com", alias)
          /\ DOMAIN DefaultImage(alias) = {"incus", "lxd"}
      BY Zenon DEF DefaultImage
    <2>2. name \in DOMAIN family => family[name] = SimplestreamsOf(images, alias)
      BY <1>5, <2>1, Zenon
    <2>3. ~Nameless(family)
      BY <1>5, NamedFamilies, Zenon DEF DefaultImage
    <2> QED  BY <1>0, <1>5, <2>2, <2>3, Zenon
  <1>6. ASSUME NEW at, NEW alias, alias # <<>>, family = Everywhere(SimplestreamsOf(at, alias)),
               Documented(s, name) = <<"simplestreams", at, alias>>
        PROVE  ~Nameless(family) /\ AsDocumented(family, s, name)
    <2> HIDE DEF family
    <2>1. family[name] = SimplestreamsOf(at, alias)
      BY <1>6, Zenon DEF Everywhere
    <2>2. ~Nameless(family)
      BY <1>6, NamedFamilies, Zenon DEF SimplestreamsOf
    <2> QED  BY <1>0, <1>6, <2>1, <2>2, Zenon
  <1>7. CASE p = "debian" /\ h = Unset
    <2>1. family = DefaultImage(<<"debian", r, "cloud">>)
      BY <1>1, <1>2, <1>7, Zenon DEF ParseImage, DebianImage, DefaultImage, Unset
    <2>2. Documented(s, name) = <<"simplestreams", images, <<"debian", r, "cloud">>>>
      BY <1>7, Zenon DEF Documented, RestOf
    <2> QED  BY <1>3, <1>5, <2>1, <2>2, Zenon
  <1>8. CASE p = "images" /\ h = Unset
    <2>1. family = DefaultImage(<<r>>)
      BY <1>1, <1>2, <1>8, Zenon DEF ParseImage, Unset
    <2>2. Documented(s, name) = <<"simplestreams", images, <<r>>>>
      BY <1>8, Zenon DEF Documented, RestOf
    <2> QED  BY <1>3, <1>5, <2>1, <2>2, Zenon
  <1>9. CASE p \in {"capi", "capi-stg"} /\ h = Unset
    <2>1. family = Everywhere(SimplestreamsOf(p, <<r>>))
      BY <1>1, <1>2, <1>9, Zenon DEF ParseImage, CapnImage, CapnStagingImage, Unset
    <2>2. Documented(s, name) = <<"simplestreams", p, <<r>>>>
      BY <1>9, Zenon DEF Documented, RestOf
    <2> QED  BY <1>3, <1>6, <2>1, <2>2, Zenon
  <1>10. CASE p = "kind" /\ h = Unset
    <2>1. family = OCIOf("docker.io", <<"kindest/node", r, Unset>>)
      BY <1>1, <1>2, <1>10, Zenon DEF ParseImage, KindestNodeImage, Unset
    <2>2. Documented(s, name) = <<"oci", "docker.io", <<"kindest/node", r, Unset>>>>
      BY <1>10, Zenon DEF Documented, RestOf
    <2>3. family[name] = Image("oci", "docker.io", <<"kindest/node", r, Unset>>)
      BY <2>1, Zenon DEF OCIOf, Everywhere
    <2>4. ~Nameless(family)
      BY <1>3, <2>1, NamedFamilies, Zenon DEF OCIOf
    <2>5. Trimmed("oci", <<"kindest/node", r, Unset>>) = <<"kindest/node", r, Unset>>
      BY TrimmedTag, Zenon
    <2> HIDE DEF family, r
    <2> DEFINE alias == <<"kindest/node", r, Unset>>
    <2> HIDE DEF alias
    <2> QED  BY <2>2, <2>3, <2>4, <2>5, Zenon DEF AsDocumented, family, alias
  <1>13. ASSUME NEW alias, alias # <<>>, Verbatim(i) = alias, ~OneColon(i.name[1]),
                Documented(s, name) = <<q, s.image.server, Trimmed(q, alias)>>
         PROVE  ~Nameless(family) /\ AsDocumented(family, s, name)
    <2>1. family = Everywhere(Image(q, s.image.server, alias))
      <3>1. ~IsZero(i)
        <4>1. NoImageSpec.name = <<>>
          BY Zenon DEF NoImageSpec
        <4> QED  BY <1>1, <4>1, Zenon DEF IsZero
      <3> QED  BY <1>1, <1>13, <3>1, Zenon DEF LaunchImage, Image, i
    <2> HIDE DEF family
    <2>2. family[name] = Image(q, s.image.server, alias)
      BY <2>1, Zenon DEF Everywhere
    <2>3. ~Nameless(family)
      BY <1>13, <2>1, NamedFamilies, Zenon
    <2> QED  BY <1>13, <2>2, <2>3, Zenon DEF AsDocumented
  <1>11. CASE p = Unset /\ h = Unset
    <2>1. Verbatim(i) = <<r>> /\ ~OneColon(i.name[1])
      BY <1>1, <1>11, Zenon DEF Verbatim, OneColon
    <2>2. Documented(s, name) = <<q, s.image.server, <<r>>>>
      BY <1>11, Zenon DEF Documented, RestOf, Unset
    <2>3. Trimmed(q, <<r>>) = <<r>>
      BY TrimmedForms, Zenon
    <2> HIDE DEF family, r, q
    <2> QED  BY <1>3, <1>13, <2>1, <2>2, <2>3, Zenon DEF family
  <1>14. CASE p # Unset /\ h # Unset
    <2>1. Verbatim(i) = <<p, r, h>> /\ ~OneColon(i.name[1])
      BY <1>1, <1>14, Zenon DEF Verbatim, OneColon
    <2>2. Documented(s, name) = <<q, s.image.server, <<p, IF q = "oci" THEN Unset ELSE r, h>>>>
      BY <1>14, Zenon DEF Documented, RestOf
    <2> HIDE DEF family, r, q, p, h
    <2>3. Trimmed(q, <<p, r, h>>) = <<p, IF q = "oci" THEN Unset ELSE r, h>>
      <3>1. h # Unset
        BY <1>14, Zenon
      <3>2. CASE q = "oci"
        <4>1. Trimmed(q, <<p, r, h>>) = <<p, Unset, h>>
          BY <3>1, <3>2, TrimmedDigest, Zenon
        <4> QED  BY <3>2, <4>1, Zenon
      <3>3. CASE q # "oci"
        <4>1. Trimmed(q, <<p, r, h>>) = <<p, r, h>>
          BY <3>3, Zenon DEF Trimmed
        <4> QED  BY <3>3, <4>1, Zenon
      <3> QED  BY <3>2, <3>3, Zenon
    <2> QED  BY <1>3, <1>13, <2>1, <2>2, <2>3, Zenon DEF family
  <1>15. (p = Unset /\ h = Unset) \/ (p # Unset /\ h # Unset) \/ (p \in WellKnown /\ h = Unset)
    BY <1>12, Zenon DEF OneColon
  <1> QED  BY <1>4, <1>7, <1>8, <1>9, <1>10, <1>11, <1>14, <1>15, Zenon DEF WellKnown

-----------------------------------------------------------------------------
\* The devices of a kini node

Carries(o, d) == \E t, i, c, tm, f, r, u : o = Options(t, i, c, d, tm, f, r, u)

\* Any options do so.
LEMMA CarriesOptions ==
  ASSUME NEW t, NEW i, NEW c, NEW d, NEW tm, NEW f, NEW r, NEW u
  PROVE  Carries(Options(t, i, c, d, tm, f, r, u), d)
BY Zenon DEF Carries

\* Only WithDevices, and with it a profile, changes the devices.
LEMMA CarriesSteps ==
  ASSUME NEW o, NEW d, Carries(o, d), NEW v
  PROVE  /\ Carries(WithInstanceType(o, v), d)
         /\ Carries(WithImage(o, v), d)
         /\ Carries(WithFiles(o, v), d)
         /\ Carries(WithReplacements(o, v), d)
         /\ Carries(WithInstanceTemplates(o, v), d)
         /\ Carries(WithConfig(o, v), d)
         /\ Carries(WithUnixSocket(o, v), d)
         /\ Carries(WithCloudInit(o, v), d)
         /\ Carries(WithProfile(o, Profile(v)), Profile(v).devices @@ d)
PROOF
  <1>1. PICK t, i, c, tm, f, r, u : o = Options(t, i, c, d, tm, f, r, u)
    BY Zenon DEF Carries
  <1>2. Carries(WithInstanceType(o, v), d)
    BY <1>1, InstanceTypeField, CarriesOptions
  <1>3. Carries(WithImage(o, v), d)
    BY <1>1, ImageField, CarriesOptions
  <1>4. Carries(WithFiles(o, v), d)
    <2> DEFINE w == f \cup v
    <2>1. WithFiles(o, v) = Options(t, i, c, d, tm, w, r, u)
      BY <1>1, FilesField
    <2> HIDE DEF w
    <2> QED  BY <2>1, CarriesOptions, Zenon
  <1>5. Carries(WithReplacements(o, v), d)
    <2> DEFINE w == r \cup v
    <2>1. WithReplacements(o, v) = Options(t, i, c, d, tm, f, w, u)
      BY <1>1, ReplacementsField
    <2> HIDE DEF w
    <2> QED  BY <2>1, CarriesOptions, Zenon
  <1>6. Carries(WithInstanceTemplates(o, v), d)
    <2> DEFINE w == tm \cup v
    <2>1. WithInstanceTemplates(o, v) = Options(t, i, c, d, w, f, r, u)
      BY <1>1, InstanceTemplatesField
    <2> HIDE DEF w
    <2> QED  BY <2>1, CarriesOptions, Zenon
  <1>7. ASSUME NEW w PROVE Carries(WithConfig(o, w), d)
    BY <1>1, ConfigField, CarriesOptions
  <1>8. Carries(WithUnixSocket(o, v), d)
    BY <1>1, UnixSocketField, CarriesOptions
  <1>9. Carries(WithCloudInit(o, v), d)
    BY <1>7, Zenon DEF WithCloudInit
  <1>10. Carries(WithProfile(o, Profile(v)), Profile(v).devices @@ d)
    <2>1. PICK t2, i2, c2, tm2, f2, r2, u2 :
             WithConfig(o, Profile(v).config) = Options(t2, i2, c2, d, tm2, f2, r2, u2)
      BY <1>7 DEF Carries
    <2> QED  BY <2>1, DevicesField, CarriesOptions DEF WithProfile
  <1> QED  BY <1>2, <1>3, <1>4, <1>5, <1>6, <1>7, <1>8, <1>9, <1>10, Zenon

\* The device of a profile.
IsProfile(d) == DOMAIN d = {<<"profile", 1>>} /\ d[<<"profile", 1>>].type = "profile"

\* A profile laid over no devices leaves its own (WithProfile).
LEMMA ProfileDevice ==
  ASSUME NEW v
  PROVE  IsProfile(Profile(v).devices @@ EmptyMap)
PROOF
  <1>1. Profile(v).devices = (<<"profile", 1>> :> Device("profile", v, Unset))
    BY Zenon DEF Profile
  <1>2. Device("profile", v, Unset).type = "profile"
    BY Zenon DEF Device
  <1>3. DOMAIN EmptyMap = {}
    BY Zenon DEF EmptyMap
  <1> DEFINE new == Profile(v).devices
  <1>4. DOMAIN new = {<<"profile", 1>>} /\ new[<<"profile", 1>>] = Device("profile", v, Unset)
    BY <1>1, MapOne, Zenon
  <1> HIDE DEF new
  <1>5. DOMAIN (new @@ EmptyMap) = {<<"profile", 1>>}
    <2>1. DOMAIN (new @@ EmptyMap) = DOMAIN new \cup DOMAIN EmptyMap
      BY MapOver, Zenon
    <2> QED  BY <1>3, <1>4, <2>1, Zenon
  <1>6. (new @@ EmptyMap)[<<"profile", 1>>] = Device("profile", v, Unset)
    <2> DEFINE key == <<"profile", 1>>
    <2>1. key \in DOMAIN new /\ new[key] = Device("profile", v, Unset)
      BY <1>4, Zenon
    <2> HIDE DEF key
    <2>2. (new @@ EmptyMap)[key] = new[key]
      BY <2>1, Zenon DEF @@
    <2> QED  BY <2>1, <2>2, Zenon DEF key
  <1> QED  BY <1>2, <1>5, <1>6, Zenon DEF IsProfile, new

\* The devices a node starts from: that of its profile; haproxy and kindest/base
\* have none.
BaseDevices(n, d) == IF IsNode(n) THEN IsProfile(d) ELSE DOMAIN d = {}

\* The options of a node's image carry them (launchOptionsForImage).
LEMMA NodeDevices ==
  ASSUME NEW n \in DOMAIN Nodes, NEW kindMode \in BOOLEAN
  PROVE  \E d : Carries(LaunchOptionsForImage(n, kindMode), d) /\ BaseDevices(n, d)
PROOF
  <1> DEFINE a == Nodes[n].image
             family == OCIOf(a.registry, Alias(a))
             kindIn == [version |-> Unset, privileged |-> kiniEnv.privileged, skipProfile |-> FALSE,
                        podCIDR |-> FALSE, cloudInit |-> Unset, apt |-> FALSE]
             lxcIn == [version |-> Tag(a), type |-> "container", privileged |-> kiniEnv.privileged,
                       skipProfile |-> FALSE, skipScript |-> TRUE, server |-> server.name,
                       cloudInit |-> Unset]
  <1>1. Carries(NoOptions, EmptyMap) /\ DOMAIN EmptyMap = {}
    BY Zenon DEF Carries, NoOptions, Options, EmptyMap
  <1>2. ASSUME NEW in, ~in.skipProfile PROVE \E d : Carries(KindLaunchOptions(in), d) /\ IsProfile(d)
    <2> DEFINE base == WithFiles(WithReplacements(
                           WithImage(WithInstanceType(NoOptions, "container"), KindestNodeImage(in.version)),
                           {"/usr/local/bin/entrypoint"}), {"/init"})
               seed == {<<"/var/lib/cloud/seed/nocloud-net", "meta-data">>,
                        <<"/var/lib/cloud/seed/nocloud-net", "user-data">>,
                        <<"/etc/systemd/system", "cloud-init-launch.service">>,
                        <<"/hack", "cloud-init.py">>}
                       \cup (IF in.apt THEN {} ELSE {<<"/hack", "cloud-init.json">>})
               seeded == WithFiles(WithInstanceTemplates(WithCloudInit(base, in.cloudInit), seed),
                                   {"cloud-init-launch.service"})
               chosen == IF in.cloudInit = Unset THEN base ELSE seeded
               opts == WithReplacements(chosen,
                           IF in.podCIDR THEN {"/kind/manifests/default-cni.yaml"} ELSE {})
    <2>1. Carries(base, EmptyMap)
      BY <1>1, CarriesSteps, Zenon
    <2> HIDE DEF base, seed
    <2>2. Carries(seeded, EmptyMap)
      BY <2>1, CarriesSteps, Zenon
    <2> HIDE DEF seeded
    <2>3. Carries(chosen, EmptyMap)
      BY <2>1, <2>2, Zenon
    <2> HIDE DEF chosen
    <2>4. Carries(opts, EmptyMap)
      BY <2>3, CarriesSteps, Zenon
    <2> HIDE DEF opts
    <2>5. PICK v : KindLaunchOptions(in) = WithProfile(opts, Profile(v))
      BY <1>2, Zenon DEF KindLaunchOptions, DefaultKindProfile, opts, chosen, seeded, seed, base
    <2> QED  BY <2>4, <2>5, CarriesSteps, ProfileDevice, Zenon
  <1>3. ASSUME NEW in, ~in.skipProfile, in.type = "container"
        PROVE  \E d : Carries(KubeadmLaunchOptions(in), d) /\ IsProfile(d)
    <2> DEFINE base == WithImage(WithInstanceType(NoOptions, in.type), CapnImage(<<"kubeadm", in.version>>))
               script == IF in.skipScript THEN base
                         ELSE WithInstanceTemplates(base, {<<"/opt/cluster-api", "install-kubeadm.sh">>})
               opts == WithCloudInit(script, in.cloudInit)
    <2>1. Carries(base, EmptyMap)
      BY <1>1, CarriesSteps, Zenon
    <2> HIDE DEF base
    <2>2. Carries(script, EmptyMap)
      BY <2>1, CarriesSteps, Zenon
    <2> HIDE DEF script
    <2>3. Carries(opts, EmptyMap)
      BY <2>2, CarriesSteps, Zenon
    <2> HIDE DEF opts
    <2>4. PICK v : KubeadmLaunchOptions(in) = WithProfile(opts, Profile(v))
      BY <1>3, Zenon DEF KubeadmLaunchOptions, DefaultKubeadmProfile, opts, script, base
    <2> QED  BY <2>3, <2>4, CarriesSteps, ProfileDevice, Zenon
  <1>4. ASSUME NEW o, NEW d, Carries(o, d), NEW v PROVE Carries(WithUnixSocket(o, v), d)
    BY <1>4, CarriesSteps, Zenon
  <1>5. CASE ~IsNode(n)
    <2>1. Carries(HaproxyOCILaunchOptions, EmptyMap)
      BY <1>1, CarriesSteps, Zenon DEF HaproxyOCILaunchOptions
    <2> DEFINE base == WithConfig(NoOptions, "oci.entrypoint" :> "sleep infinity")
    <2>2. Carries(base, EmptyMap)
      BY <1>1, CarriesSteps, Zenon
    <2> HIDE DEF base, family
    <2>3. Carries(WithImage(HaproxyOCILaunchOptions, family), EmptyMap) /\ Carries(WithImage(base, family), EmptyMap)
      BY <2>1, <2>2, CarriesSteps, Zenon
    <2>4. LaunchOptionsForImage(n, kindMode) \in {WithImage(HaproxyOCILaunchOptions, family), WithImage(base, family)}
      BY <1>5, Zenon DEF LaunchOptionsForImage, IsNode, base, family
    <2> QED  BY <1>1, <1>5, <2>3, <2>4, Zenon DEF BaseDevices
  <1>6. CASE IsNode(n) /\ kindMode
    <2>1. ~kindIn.skipProfile
      BY Zenon
    <2>2. LaunchOptionsForImage(n, kindMode) = WithUnixSocket(WithImage(KindLaunchOptions(kindIn), family), kiniEnv.socket)
      BY <1>6, Zenon DEF LaunchOptionsForImage, IsNode
    <2> HIDE DEF kindIn, family
    <2>3. PICK d : Carries(KindLaunchOptions(kindIn), d) /\ IsProfile(d)
      BY <1>2, <2>1, Zenon
    <2>4. Carries(WithImage(KindLaunchOptions(kindIn), family), d)
      BY <2>3, CarriesSteps, Zenon
    <2> QED  BY <1>4, <1>6, <2>2, <2>3, <2>4, Zenon DEF BaseDevices
  <1>7. CASE IsNode(n) /\ ~kindMode
    <2>1. ~lxcIn.skipProfile /\ lxcIn.type = "container"
      BY Zenon
    <2>2. LaunchOptionsForImage(n, kindMode)
              = WithUnixSocket(WithInstanceTemplates(KubeadmLaunchOptions(lxcIn), LxcTemplates), kiniEnv.socket)
      BY <1>7, Zenon DEF LaunchOptionsForImage, IsNode
    <2> HIDE DEF lxcIn
    <2>3. PICK d : Carries(KubeadmLaunchOptions(lxcIn), d) /\ IsProfile(d)
      BY <1>3, <2>1, Zenon
    <2>4. Carries(WithInstanceTemplates(KubeadmLaunchOptions(lxcIn), LxcTemplates), d)
      BY <2>3, CarriesSteps, Zenon
    <2> QED  BY <1>4, <1>7, <2>2, <2>3, <2>4, Zenon DEF BaseDevices
  <1> QED  BY <1>5, <1>6, <1>7, Zenon

\* TmpfsDevices on server s, the devices that kind asks for, and all those of a node
\* that runs on a server in an environment: at is <<server, environment>>.
TmpfsOn(n, s) ==
    [d \in {<<"docker-tmpfs", k>> : k \in IF s.tmpfs THEN DOMAIN Nodes[n].tmpfs ELSE {}} |->
        Device("disk", "tmpfs:", Nodes[n].tmpfs[d[2]])]

Asked(n, s) == UnixDevices(n) @@ (TmpfsOn(n, s) @@ (VolumeDevices(n) @@ ProxyDevices(n)))

SocketDevice(name) == <<"00-unix-socket", 1>> :> Device("disk", UnixSocketPath(name), "/run-unix.socket")

RunDevices(n, devices, at) ==
    \E d : /\ BaseDevices(n, d)
           /\ devices = IF IsNode(n) /\ at[2].socket THEN SocketDevice(at[1].name) @@ (Asked(n, at[1]) @@ d)
                        ELSE Asked(n, at[1]) @@ d

-----------------------------------------------------------------------------
\* Whose instance it is

\* What NodesRunVersion says of a node and its image.
RunsVersion(n, image, at) ==
    LET asked == Nodes[n].image IN
    /\ IF image.protocol = "oci"
       THEN image.server = asked.registry /\ image.alias = Alias(asked)
       ELSE image.alias = <<"kubeadm", Tag(asked)>>
    /\ at[2].mode # Unset /\ IsNode(n) =>
          image = IF at[2].mode = "oci" THEN OCIOf(asked.registry, Alias(asked))[at[1].name]
                  ELSE CapnImage(<<"kubeadm", Tag(asked)>>)[at[1].name]

\* A kini node has kind's labels, no role in a Cluster API cluster, and the image
\* and the devices it was run with.
NodeRecord(n, i, s) ==
    /\ n \in DOMAIN Nodes
    /\ i.by = n
    /\ Value(i.config, "user.io.x-k8s.kind.cluster") = Nodes[n].cluster
    /\ Value(i.config, "user.io.x-k8s.kind.role") = Nodes[n].role
    /\ Value(i.config, "user.cluster-role") = Unset
    /\ RunsVersion(n, i.image, s)
    /\ RunDevices(n, i.devices, s)

\* The instance of an LXCMachine has the identity of that machine, and the image that
\* its spec, among all specs, asks for.
MachineRecord(n, i, s, specs) ==
    /\ i.by \in MachineNames
    /\ n = Machines[i.by].name
    /\ \A k \in DOMAIN Identity(i.by) : Value(i.config, k) = Identity(i.by)[k]
    /\ \A k \in LabelKeys : Value(i.config, k) = Unset
    /\ specs[i.by].image.fingerprint = Unset =>
          <<i.image.protocol, i.image.server, i.image.alias>> = Documented(specs[i.by], s[1].name)

BalancerRecord(n, i) ==
    /\ i.by \in DOMAIN Clusters
    /\ n = Clusters[i.by].lbName
    /\ Value(i.config, "user.cluster-role") = "loadbalancer"
    /\ \A k \in LabelKeys : Value(i.config, k) = Unset

Instance(config, image, type, devices, templates, by, net) ==
    [config |-> config, image |-> image, type |-> type, devices |-> devices,
     templates |-> templates, by |-> by, net |-> net]

IsInstance(i) == i = Instance(i.config, i.image, i.type, i.devices, i.templates, i.by, i.net)

Owned(n, i, s, specs) ==
    /\ IsInstance(i)
    /\ i.templates \subseteq AllTemplates
    /\ NodeRecord(n, i, s) \/ MachineRecord(n, i, s, specs) \/ BalancerRecord(n, i)

\* Created makes a record of the options.
LEMMA CreatedRecord ==
  ASSUME NEW t, NEW i, NEW c, NEW d, NEW tm, NEW f, NEW r, NEW u, NEW by, NEW o,
         o = Options(t, i, c, d, tm, f, r, u)
  PROVE  /\ IsInstance(Created(o, by))
         /\ Created(o, by).config = c /\ Created(o, by).templates = tm
         /\ Created(o, by).by = by /\ Created(o, by).net = {}
         /\ Created(o, by).image = CompleteImage(o, server.name)
         /\ Created(o, by).devices = CompleteDevices(o, server.name)
         /\ o.devices = d /\ o.unixSocket = u
BY Zenon DEF Created, Options, IsInstance, Instance

\* The keys of an identity.
LEMMA IdentityKeys ==
  ASSUME NEW m \in MachineNames
  PROVE  /\ DOMAIN Identity(m) = {"user.cluster-name", "user.cluster-namespace",
                                  "user.machine-name", "user.cluster-role"}
         /\ Identity(m)["user.cluster-name"] = ClusterOf(m).name
         /\ Identity(m)["user.cluster-namespace"] = ClusterOf(m).namespace
         /\ Identity(m)["user.cluster-role"] = IF Machines[m].cp THEN "control-plane" ELSE "worker"
BY Zenon DEF Identity, :>, @@

\* The image of the options: what the spec asks for, unless that has no name.
ChosenFamily(s) == IF Nameless(LaunchImage(s)) THEN DefaultFamily(s) ELSE LaunchImage(s)

\* So the documented image is what the server is asked for.
LEMMA CompletedAsDocumented ==
  ASSUME NEW o, NEW s, NEW name, AsDocumented(o.image, s, name)
  PROVE  LET i == CompleteImage(o, name) IN <<i.protocol, i.server, i.alias>> = Documented(s, name)
PROOF
  <1>1. PICK protocol, at, alias : /\ o.image[name] = Image(protocol, at, alias)
                                   /\ Documented(s, name) = <<protocol, at, Trimmed(protocol, alias)>>
    BY Zenon DEF AsDocumented
  <1> DEFINE i == CompleteImage(o, name)
  <1>2. i.protocol = protocol /\ i.server = at /\ i.alias = Trimmed(protocol, alias)
    BY <1>1, Completed
  <1> HIDE DEF i
  <1>3. <<i.protocol, i.server, i.alias>> = Documented(s, name)
    BY <1>1, <1>2, Zenon
  <1> QED  BY <1>3, Zenon DEF i

\* An instance that is created has the documented image.
LEMMA MachineImage ==
  ASSUME NEW m \in MachineNames, spec[m] \in Specs[m], spec[m].image.fingerprint = Unset,
         NEW answer, "none" \in LaunchErrors(spec[m], answer),
         server.name \in ServerNames,
         NEW o, o.image = ChosenFamily(spec[m]), server.name \in DOMAIN o.image
  PROVE  LET i == CompleteImage(o, server.name) IN
         <<i.protocol, i.server, i.alias>> = Documented(spec[m], server.name)
PROOF
  <1> DEFINE s == spec[m]
             name == server.name
  <1>1. AsDocumented(o.image, s, name)
    <2>1. CASE s.image.name = <<>>
      BY <2>1, DefaultDocumented, Zenon DEF ChosenFamily
    <2>2. CASE s.image.name # <<>>
      <3>1. OneColon(s.image.name[1]) => s.image.name[1].prefix \in WellKnown
        BY <2>2, Zenon DEF LaunchErrors, ImageErrors
      <3>2. Nameless(LaunchImage(s)) \/ name \in DOMAIN LaunchImage(s)
        BY Zenon DEF ChosenFamily
      <3> QED  BY <2>2, <3>1, <3>2, NameDocumented, Zenon DEF ChosenFamily
    <2> QED  BY <2>1, <2>2, Zenon
  <1> QED  BY <1>1, CompletedAsDocumented

\* The options of a machine: its identity lies over what the user configured.
LEMMA MachineOptionsAre ==
  ASSUME NEW m \in MachineNames
  PROVE  \E t, i, c, d, tm, f, r, u :
            /\ MachineOptions(m) = Options(t, i, Identity(m) @@ (spec[m].config @@ c), d, tm, f, r, u)
            /\ DOMAIN c \subseteq BaseKeys
            /\ tm \subseteq AllTemplates
            /\ i = ChosenFamily(spec[m])
PROOF
  <1> DEFINE s == spec[m]
             base == IF s.type = "kind" THEN KindLaunchOptions(KindInput(s))
                     ELSE KubeadmLaunchOptions(KubeadmInput(s))
             i == DefaultFamily(s)
  <1>1. \E t, f, r : IsBase(base, t, i, f, r)
    <2>1. KindInput(s).version = s.version /\ KubeadmInput(s).version = s.version
      BY Zenon DEF KindInput, KubeadmInput
    <2> QED  BY <2>1, KindBase, KubeadmBase, Zenon DEF DefaultFamily
  <1> HIDE DEF base, i
  <1>2. PICK t, f, r : IsBase(WithDevices(base, EmptyMap), t, i, f, r)
    BY <1>1, BaseSteps, Zenon
  <1>3. PICK c, d, tm, u : /\ WithDevices(base, EmptyMap) = Options(t, i, c, d, tm, f, r, u)
                           /\ DOMAIN c \subseteq BaseKeys
                           /\ tm \subseteq AllTemplates
    BY <1>2, Zenon DEF IsBase
  <1>4. WithConfig(WithConfig(WithDevices(base, EmptyMap), s.config), Identity(m))
            = Options(t, i, Identity(m) @@ (s.config @@ c), d, tm, f, r, u)
    BY <1>3, ConfigField
  <1> DEFINE j == ChosenFamily(s)
  <1>5. WithImage(Options(t, i, Identity(m) @@ (s.config @@ c), d, tm, f, r, u), LaunchImage(s))
            = Options(t, j, Identity(m) @@ (s.config @@ c), d, tm, f, r, u)
    BY ImageField DEF ChosenFamily, i
  <1> HIDE DEF j
  <1>6. MachineOptions(m) = Options(t, j, Identity(m) @@ (s.config @@ c), d,
                                    tm \cup LoadBalancerTemplates(m), f, r, u)
    BY <1>4, <1>5, InstanceTemplatesField, SMTT(30) DEF MachineOptions, base
  <1>7. tm \cup LoadBalancerTemplates(m) \subseteq AllTemplates
    BY <1>3, Zenon DEF LoadBalancerTemplates, AllTemplates
  <1> QED  BY <1>3, <1>6, <1>7, Zenon DEF j

\* An LXCMachine's instance is its own, and runs the image it asks for.
LEMMA MachineOwned ==
  ASSUME NEW m \in MachineNames, spec[m] \in Specs[m], server.name \in ServerNames,
         NEW answer, "none" \in LaunchErrors(spec[m], answer),
         CompleteError(MachineOptions(m), server.name) = "none"
  PROVE  Owned(Machines[m].name, Created(MachineOptions(m), m), <<server, kiniEnv>>, spec)
PROOF
  <1>1. PICK t, i, c, d, tm, f, r, u :
            /\ MachineOptions(m) = Options(t, i, Identity(m) @@ (spec[m].config @@ c), d, tm, f, r, u)
            /\ DOMAIN c \subseteq BaseKeys
            /\ tm \subseteq AllTemplates
            /\ i = ChosenFamily(spec[m])
    BY MachineOptionsAre, Zenon
  <1> DEFINE config == Identity(m) @@ (spec[m].config @@ c)
             i2 == Created(MachineOptions(m), m)
  <1>2. /\ IsInstance(i2) /\ i2.config = config /\ i2.templates = tm /\ i2.by = m
        /\ i2.image = CompleteImage(MachineOptions(m), server.name)
    BY <1>1, CreatedRecord, SMTT(30)
  <1>7. ASSUME spec[m].image.fingerprint = Unset
        PROVE  <<i2.image.protocol, i2.image.server, i2.image.alias>> = Documented(spec[m], server.name)
    <2> DEFINE o == MachineOptions(m)
    <2>1. o.image = i
      BY <1>1 DEF Options
    <2>2. server.name \in DOMAIN o.image
      BY Zenon DEF CompleteError
    <2> HIDE DEF i2, o
    <2> QED  BY <1>1, <1>2, <1>7, <2>1, <2>2, MachineImage, Zenon DEF o
  <1>3. \A k \in DOMAIN Identity(m) : Value(config, k) = Identity(m)[k]
    BY MapOver, Zenon
  <1>4. \A k \in LabelKeys : k \notin DOMAIN config
    <2>1. LabelKeys \cap DOMAIN spec[m].config = {}
      BY ApartAssumption, Zenon DEF LabelKeys
    <2>2. LabelKeys \cap BaseKeys = {} /\ LabelKeys \cap DOMAIN Identity(m) = {}
      BY IdentityKeys, Zenon DEF LabelKeys, BaseKeys
    <2>3. DOMAIN config = DOMAIN Identity(m) \cup (DOMAIN spec[m].config \cup DOMAIN c)
      BY Zenon DEF @@
    <2> HIDE DEF config
    <2> QED  BY <1>1, <2>1, <2>2, <2>3, Zenon
  <1>5. \A k \in LabelKeys : Value(config, k) = Unset
    BY <1>4, Zenon DEF Value
  <1> HIDE DEF i2, config
  <1>6. MachineRecord(Machines[m].name, i2, <<server, kiniEnv>>, spec)
    BY <1>2, <1>3, <1>5, <1>7, Zenon DEF MachineRecord
  <1> QED  BY <1>1, <1>2, <1>6, Zenon DEF Owned, i2

\* So is a load balancer.
LEMMA BalancerOwned ==
  ASSUME NEW c \in DOMAIN Clusters
  PROVE  Owned(Clusters[c].lbName, Created(LoadBalancerOptions(c), c), <<server, kiniEnv>>, spec)
PROOF
  <1> DEFINE base == IF Clusters[c].lb = "oci" THEN HaproxyOCILaunchOptions ELSE HaproxyLXCLaunchOptions
             keys == "user.cluster-name" :> Clusters[c].name
                     @@ "user.cluster-namespace" :> Clusters[c].namespace
                     @@ "user.cluster-role" :> "loadbalancer"
  <1>1. \E t, i, f, r : IsBase(base, t, i, f, r)
    BY HaproxyBase, Zenon
  <1> HIDE DEF base
  <1>2. PICK t, i, b, d, tm, f, r, u : /\ base = Options(t, i, b, d, tm, f, r, u)
                                       /\ DOMAIN b \subseteq BaseKeys
                                       /\ tm \subseteq AllTemplates
    BY <1>1, Zenon DEF IsBase
  <1>3. /\ DOMAIN keys = {"user.cluster-name", "user.cluster-namespace", "user.cluster-role"}
        /\ keys["user.cluster-role"] = "loadbalancer"
    BY Zenon DEF :>, @@
  <1>4. LoadBalancerOptions(c) = Options(t, i, keys @@ b, d, tm, f, r, u)
    BY <1>2, ConfigField, SMTT(30) DEF LoadBalancerOptions, base
  <1> HIDE DEF keys
  <1> DEFINE i2 == Created(LoadBalancerOptions(c), c)
  <1>5. IsInstance(i2) /\ i2.config = keys @@ b /\ i2.templates = tm /\ i2.by = c
    BY <1>4, CreatedRecord, SMTT(30)
  <1>6. Value(keys @@ b, "user.cluster-role") = "loadbalancer"
    BY <1>3, MapOver, Zenon
  <1>7. \A k \in LabelKeys : Value(keys @@ b, k) = Unset
    <2>1. \A k \in LabelKeys : k \notin DOMAIN keys /\ k \notin DOMAIN b
      BY <1>2, <1>3, Zenon DEF LabelKeys, BaseKeys
    <2> QED  BY <2>1, MapOver, Zenon DEF Value
  <1> HIDE DEF i2
  <1>8. BalancerRecord(Clusters[c].lbName, i2)
    BY <1>5, <1>6, <1>7, Zenon DEF BalancerRecord
  <1> QED  BY <1>2, <1>5, <1>8, Zenon DEF Owned, i2

\* The options of a node, with the image that docker pull works out as well.
LEMMA NodeOptionsAre ==
  ASSUME NEW n \in DOMAIN Nodes, NEW kindMode \in BOOLEAN
  PROVE  \E t, i, c, d, tm, f, r, u :
            /\ LaunchOptionsForImage(n, kindMode) = Options(t, i, c, d, tm, f, r, u)
            /\ DOMAIN c \subseteq BaseKeys
            /\ tm \subseteq AllTemplates
            /\ i = IF kindMode \/ ~IsNode(n) THEN OCIOf(Nodes[n].image.registry, Alias(Nodes[n].image))
                   ELSE CapnImage(<<"kubeadm", Tag(Nodes[n].image)>>)
            /\ IF IsNode(n) THEN u = kiniEnv.socket ELSE NoSocket(u)
PROOF
  <1> DEFINE a == Nodes[n].image
             family == OCIOf(a.registry, Alias(a))
             asKind == WithImage(KindLaunchOptions(
                          [version |-> Unset, privileged |-> kiniEnv.privileged, skipProfile |-> FALSE,
                           podCIDR |-> FALSE, cloudInit |-> Unset, apt |-> FALSE]), family)
             input == [version |-> Tag(a), type |-> "container", privileged |-> kiniEnv.privileged,
                       skipProfile |-> FALSE, skipScript |-> TRUE, server |-> server.name,
                       cloudInit |-> Unset]
             asLxc == WithInstanceTemplates(KubeadmLaunchOptions(input), LxcTemplates)
  <1>1. ~Nameless(family)
    BY Named, Zenon DEF Alias
  <1>2. CASE ~IsNode(n)
    <2> DEFINE base == WithConfig(NoOptions, "oci.entrypoint" :> "sleep infinity")
    <2>1. \E t, f, r : IsBase(WithImage(HaproxyOCILaunchOptions, family), t, family, f, r)
      <3>1. PICK j, f : IsBase(HaproxyOCILaunchOptions, "container", j, f, {})
        BY HaproxyBase, Zenon
      <3>2. IsBase(WithImage(HaproxyOCILaunchOptions, family), "container", family, f, {})
        BY <1>1, <3>1, BaseSteps, Zenon
      <3> QED  BY <3>2, Zenon
    <2>2. \E t, f, r : IsBase(WithImage(base, family), t, family, f, r)
      <3>1. DOMAIN ("oci.entrypoint" :> "sleep infinity") \subseteq BaseKeys
        BY Zenon DEF BaseKeys, :>
      <3>2. IsBase(base, Unset, EmptyMap, {}, {})
        BY <3>1, BaseNone, BaseSteps, Zenon
      <3> HIDE DEF base
      <3>3. IsBase(WithImage(base, family), Unset, family, {}, {})
        BY <1>1, <3>2, BaseSteps, Zenon
      <3> QED  BY <3>3, Zenon
    <2> HIDE DEF base, family
    <2>3. LaunchOptionsForImage(n, kindMode) \in {WithImage(HaproxyOCILaunchOptions, family), WithImage(base, family)}
      BY <1>2, Zenon DEF LaunchOptionsForImage, IsNode, base, family
    <2>4. PICK t, f, r : IsBase(LaunchOptionsForImage(n, kindMode), t, family, f, r)
      BY <2>1, <2>2, <2>3, Zenon
    <2> QED  BY <1>2, <2>4, Zenon DEF IsBase, family
  <1>3. CASE IsNode(n) /\ kindMode
    <2>1. \E f, r : IsBase(asKind, "container", family, f, r)
      <3> DEFINE in == [version |-> Unset, privileged |-> kiniEnv.privileged, skipProfile |-> FALSE,
                        podCIDR |-> FALSE, cloudInit |-> Unset, apt |-> FALSE]
      <3>1. PICK i, f, r : IsBase(KindLaunchOptions(in), "container", i, f, r)
        BY KindBase, Zenon
      <3> HIDE DEF in
      <3>2. IsBase(WithImage(KindLaunchOptions(in), family), "container", family, f, r)
        BY <1>1, <3>1, BaseSteps, Zenon
      <3> QED  BY <3>2, Zenon DEF in
    <2> HIDE DEF asKind, family
    <2>2. PICK c, d, tm, f, r, u : /\ asKind = Options("container", family, c, d, tm, f, r, u)
                                   /\ DOMAIN c \subseteq BaseKeys
                                   /\ tm \subseteq AllTemplates
      BY <2>1, Zenon DEF IsBase
    <2>3. LaunchOptionsForImage(n, kindMode) = WithUnixSocket(asKind, kiniEnv.socket)
      BY <1>3, Zenon DEF LaunchOptionsForImage, IsNode, asKind, family
    <2>4. LaunchOptionsForImage(n, kindMode) = Options("container", family, c, d, tm, f, r, kiniEnv.socket)
      BY <2>2, <2>3, UnixSocketField
    <2>5. family = IF kindMode \/ ~IsNode(n) THEN OCIOf(a.registry, Alias(a)) ELSE CapnImage(<<"kubeadm", Tag(a)>>)
      BY <1>3, Zenon DEF family
    <2> QED  BY <1>3, <2>2, <2>4, <2>5, Zenon
  <1>4. CASE IsNode(n) /\ ~kindMode
    <2>1. IsBase(KubeadmLaunchOptions(input), "container", CapnImage(<<"kubeadm", Tag(a)>>), {}, {})
      <3>1. input.type = "container" /\ input.version = Tag(a)
        BY Zenon
      <3> QED  BY <3>1, KubeadmBase, Zenon
    <2>2. LxcTemplates \subseteq AllTemplates
      BY Zenon DEF AllTemplates
    <2> HIDE DEF input
    <2>3. IsBase(asLxc, "container", CapnImage(<<"kubeadm", Tag(a)>>), {}, {})
      BY <2>1, <2>2, BaseSteps, Zenon
    <2> HIDE DEF asLxc
    <2>4. PICK c, d, tm, f, r, u :
                 /\ asLxc = Options("container", CapnImage(<<"kubeadm", Tag(a)>>), c, d, tm, f, r, u)
                 /\ DOMAIN c \subseteq BaseKeys
                 /\ tm \subseteq AllTemplates
      BY <2>3, Zenon DEF IsBase
    <2>5. LaunchOptionsForImage(n, kindMode) = WithUnixSocket(asLxc, kiniEnv.socket)
      BY <1>4, Zenon DEF LaunchOptionsForImage, IsNode, asLxc, input
    <2>6. LaunchOptionsForImage(n, kindMode)
              = Options("container", CapnImage(<<"kubeadm", Tag(a)>>), c, d, tm, f, r, kiniEnv.socket)
      BY <2>4, <2>5, UnixSocketField
    <2> QED  BY <1>4, <2>4, <2>6, Zenon
  <1> QED  BY <1>2, <1>3, <1>4, Zenon

\* complete() drops a tag that comes with a digest; the alias has none then.
LEMMA AliasKept ==
  ASSUME NEW a, NEW registry
  PROVE  LET i == Image("oci", registry, Alias(a)) IN
         i.alias[3] # Unset => [i EXCEPT !.alias[2] = Unset] = i
PROOF
  <1> DEFINE i == Image("oci", registry, Alias(a))
  <1>1. i.alias = Alias(a) /\ i = [protocol |-> "oci", server |-> registry, alias |-> Alias(a), fingerprint |-> Unset]
    BY Zenon DEF Image
  <1>2. ASSUME a.digest # Unset PROVE Alias(a) = <<a.repo, Unset, a.digest>>
    BY <1>2, Zenon DEF Alias
  <1>3. ASSUME NEW x, NEW y, NEW z PROVE [<<x, y, z>> EXCEPT ![2] = y] = <<x, y, z>>
    OBVIOUS
  <1>4. Alias(a)[3] = a.digest
    BY Zenon DEF Alias
  <1>5. ASSUME a.digest # Unset PROVE [Alias(a) EXCEPT ![2] = Unset] = Alias(a)
    BY <1>2, <1>3, <1>5
  <1>6. ASSUME a.digest # Unset PROVE [i EXCEPT !.alias[2] = Unset] = i
    BY <1>1, <1>5, <1>6, Zenon
  <1> QED  BY <1>1, <1>4, <1>6, Zenon

\* A node that is run gets the image that docker pull works out for it.
LEMMA NodeImage ==
  ASSUME NEW n \in DOMAIN Nodes, NEW kindMode \in BOOLEAN, server.name \in ServerNames,
         kiniEnv.mode # Unset => (kindMode <=> kiniEnv.mode = "oci"), NEW o,
         o.image = IF kindMode \/ ~IsNode(n) THEN OCIOf(Nodes[n].image.registry, Alias(Nodes[n].image))
                   ELSE CapnImage(<<"kubeadm", Tag(Nodes[n].image)>>)
  PROVE  RunsVersion(n, CompleteImage(o, server.name), <<server, kiniEnv>>)
PROOF
  <1> DEFINE a == Nodes[n].image
             at == <<server, kiniEnv>>
  <1>0. at[1] = server /\ at[2] = kiniEnv
    BY Zenon
  <1> HIDE DEF at
  <1>1. CASE kindMode \/ ~IsNode(n)
    <2> DEFINE i == Image("oci", a.registry, Alias(a))
    <2>1. o.image[server.name] = i /\ OCIOf(a.registry, Alias(a))[server.name] = i
      BY <1>1, Zenon DEF OCIOf, Everywhere
    <2>2. CompleteImage(o, server.name) = i
      BY <2>1, AliasKept, Zenon DEF CompleteImage
    <2>3. i.protocol = "oci" /\ i.server = a.registry /\ i.alias = Alias(a)
      BY Zenon DEF Image
    <2> HIDE DEF i
    <2> QED  BY <1>0, <1>1, <2>1, <2>2, <2>3, Zenon DEF RunsVersion, at
  <1>2. CASE ~kindMode /\ IsNode(n)
    <2> DEFINE i == Image("simplestreams", "capi", <<"kubeadm", Tag(a)>>)
    <2>1. o.image[server.name] = i /\ CapnImage(<<"kubeadm", Tag(a)>>)[server.name] = i
      BY <1>2, Zenon DEF CapnImage, Everywhere, SimplestreamsOf
    <2>2. i.protocol = "simplestreams" /\ i.alias = <<"kubeadm", Tag(a)>>
      BY Zenon DEF Image
    <2>3. CompleteImage(o, server.name) = i
      BY <2>1, <2>2, Zenon DEF CompleteImage
    <2> HIDE DEF i
    <2> QED  BY <1>0, <1>2, <2>1, <2>2, <2>3, Zenon DEF RunsVersion, at
  <1> QED  BY <1>1, <1>2, Zenon

\* A node's instance is its own.
LEMMA NodeOwned ==
  ASSUME NEW n \in DOMAIN Nodes, NEW kindMode \in BOOLEAN, server.name \in ServerNames,
         kiniEnv.mode # Unset => (kindMode <=> kiniEnv.mode = "oci")
  PROVE  Owned(n, Created(RunOptions(n, kindMode), n), <<server, kiniEnv>>, spec)
PROOF
  <1> DEFINE a == Nodes[n].image
             family == IF kindMode \/ ~IsNode(n) THEN OCIOf(a.registry, Alias(a)) ELSE CapnImage(<<"kubeadm", Tag(a)>>)
             labels == RunConfig(n)
             devs == Asked(n, server)
             at == <<server, kiniEnv>>
  <1>1. PICK t, i, c, d, tm, f, r, u :
            /\ LaunchOptionsForImage(n, kindMode) = Options(t, i, c, d, tm, f, r, u)
            /\ DOMAIN c \subseteq BaseKeys
            /\ tm \subseteq AllTemplates
            /\ i = family
            /\ IF IsNode(n) THEN u = kiniEnv.socket ELSE NoSocket(u)
    BY NodeOptionsAre, Zenon
  <1>0. BaseDevices(n, d)
    <2>1. PICK e : Carries(LaunchOptionsForImage(n, kindMode), e) /\ BaseDevices(n, e)
      BY NodeDevices, Zenon
    <2>2. PICK t2, i2, c2, tm2, f2, r2, u2 :
             LaunchOptionsForImage(n, kindMode) = Options(t2, i2, c2, e, tm2, f2, r2, u2)
      BY <2>1, Zenon DEF Carries
    <2>3. d = e
      BY <1>1, <2>2 DEF Options
    <2> QED  BY <2>1, <2>3, Zenon
  <1>2. /\ DOMAIN labels = LabelKeys \cup {"linux.sysctl"}
        /\ labels["user.io.x-k8s.kind.cluster"] = Nodes[n].cluster
        /\ labels["user.io.x-k8s.kind.role"] = Nodes[n].role
    BY Zenon DEF RunConfig, LabelKeys, :>, @@
  <1> DEFINE o == RunOptions(n, kindMode)
  <1>3. o = Options(t, i, labels @@ c, devs @@ d, tm, f \cup {"/etc/environment"}, r, u)
    <2> HIDE DEF labels, devs
    <2>1. WithConfig(LaunchOptionsForImage(n, kindMode), labels) = Options(t, i, labels @@ c, d, tm, f, r, u)
      BY <1>1, ConfigField
    <2>2. WithDevices(WithConfig(LaunchOptionsForImage(n, kindMode), labels), devs)
              = Options(t, i, labels @@ c, devs @@ d, tm, f, r, u)
      BY <2>1, DevicesField
    <2>3. o = WithFiles(WithDevices(WithConfig(LaunchOptionsForImage(n, kindMode), labels), devs), {"/etc/environment"})
      BY Zenon DEF RunOptions, labels, devs, Asked, TmpfsOn, TmpfsDevices
    <2> QED  BY <2>2, <2>3, FilesField, SMTT(30)
  <1> HIDE DEF labels, devs, family
  <1>4. RunsVersion(n, CompleteImage(o, server.name), at)
    <2>1. o.image = i
      BY <1>3 DEF Options
    <2> QED  BY <1>1, <2>1, NodeImage, Zenon DEF family
  <1>5. /\ IsInstance(Created(o, n)) /\ Created(o, n).config = labels @@ c
        /\ Created(o, n).templates = tm /\ Created(o, n).by = n
        /\ Created(o, n).image = CompleteImage(o, server.name)
        /\ Created(o, n).devices = CompleteDevices(o, server.name)
        /\ o.devices = devs @@ d /\ o.unixSocket = u
    BY <1>3, CreatedRecord, SMTT(30)
  <1>9. RunDevices(n, Created(o, n).devices, at)
    <2>1. at[1] = server /\ at[2] = kiniEnv
      BY Zenon
    <2> HIDE DEF at, o
    <2>2. Created(o, n).devices = IF IsNode(n) /\ kiniEnv.socket THEN SocketDevice(server.name) @@ (devs @@ d)
                                  ELSE devs @@ d
      BY <1>1, <1>5, Zenon DEF CompleteDevices, SocketDevice, NoSocket
    <2> QED  BY <1>0, <2>1, <2>2, Zenon DEF RunDevices, devs
  <1>6. /\ Value(labels @@ c, "user.io.x-k8s.kind.cluster") = Nodes[n].cluster
        /\ Value(labels @@ c, "user.io.x-k8s.kind.role") = Nodes[n].role
    BY <1>2, MapOver, Zenon DEF LabelKeys
  <1>7. Value(labels @@ c, "user.cluster-role") = Unset
    <2>1. "user.cluster-role" \notin DOMAIN labels /\ "user.cluster-role" \notin DOMAIN c
      BY <1>1, <1>2, Zenon DEF LabelKeys, BaseKeys
    <2> QED  BY <2>1, MapOver, Zenon DEF Value
  <1> HIDE DEF o
  <1>8. NodeRecord(n, Created(o, n), at)
    BY <1>4, <1>5, <1>6, <1>7, <1>9, Zenon DEF NodeRecord
  <1> QED  BY <1>1, <1>5, <1>8, Zenon DEF Owned, o

-----------------------------------------------------------------------------
\* The instances of the project

Kinds == {"own", "link", "cni", "vip", "lo"}

\* Every instance, and every creation under way, belongs to someone, and no
\* instance is created a second time.
InstsInv ==
    /\ server.name \in ServerNames
    /\ insts = [n \in DOMAIN insts |-> insts[n]]
    /\ pending = [n \in DOMAIN pending |-> pending[n]]
    /\ \A n \in DOMAIN insts : Owned(n, insts[n], <<server, kiniEnv>>, spec) /\ insts[n].net \subseteq Kinds
    /\ \A n \in DOMAIN pending : Owned(n, pending[n], <<server, kiniEnv>>, spec) /\ pending[n].net = {}
    /\ DOMAIN insts \cap DOMAIN pending = {}

Put(f, name, i) == [n \in DOMAIN f \cup {name} |-> IF n = name THEN i ELSE f[n]]

\* How a map gets an entry.
LEMMA PutForms ==
  ASSUME NEW f, NEW name, NEW i
  PROVE  /\ (name :> i @@ f) = Put(f, name, i)
         /\ f = [n \in DOMAIN f |-> f[n]] /\ name \in DOMAIN f => [f EXCEPT ![name] = i] = Put(f, name, i)
PROOF
  <1>1. (name :> i @@ f) = Put(f, name, i)
    BY Zenon DEF :>, @@, Put
  <1>2. ASSUME f = [n \in DOMAIN f |-> f[n]], name \in DOMAIN f
        PROVE  [f EXCEPT ![name] = i] = Put(f, name, i)
    BY <1>2, Zenon DEF Put
  <1> QED  BY <1>1, <1>2, Zenon

\* Who an instance belongs to does not depend on its addresses.
LEMMA NetOwned ==
  ASSUME NEW n, NEW i, NEW s, NEW specs, NEW net, Owned(n, i, s, specs)
  PROVE  /\ Owned(n, [i EXCEPT !.net = net], s, specs)
         /\ [i EXCEPT !.net = net].net = net
         /\ [i EXCEPT !.net = net].by = i.by
PROOF
  <1> DEFINE j == [i EXCEPT !.net = net]
  <1>1. i = [config |-> i.config, image |-> i.image, type |-> i.type, devices |-> i.devices,
             templates |-> i.templates, by |-> i.by, net |-> i.net]
    BY Zenon DEF Owned, IsInstance, Instance
  <1>2. j = [config |-> i.config, image |-> i.image, type |-> i.type, devices |-> i.devices,
             templates |-> i.templates, by |-> i.by, net |-> net]
    BY <1>1
  <1> HIDE DEF j
  <1>3. /\ j.config = i.config /\ j.image = i.image /\ j.type = i.type /\ j.devices = i.devices
        /\ j.templates = i.templates /\ j.by = i.by /\ j.net = net
    BY <1>2, Zenon
  <1>4. IsInstance(j)
    BY <1>2, <1>3, Zenon DEF IsInstance, Instance
  <1>5. /\ NodeRecord(n, j, s) <=> NodeRecord(n, i, s)
        /\ MachineRecord(n, j, s, specs) <=> MachineRecord(n, i, s, specs)
        /\ BalancerRecord(n, j) <=> BalancerRecord(n, i)
    BY <1>3, Zenon DEF NodeRecord, MachineRecord, BalancerRecord
  <1> QED  BY <1>3, <1>4, <1>5, Zenon DEF Owned, j

\* An entry that is put into the instances, or into the pending creations.
LEMMA PutInsts ==
  ASSUME InstsInv, server' = server, kiniEnv' = kiniEnv, spec' = spec, NEW name, NEW i,
         Owned(name, i, <<server, kiniEnv>>, spec), i.net \subseteq Kinds,
         insts' = Put(insts, name, i),
         \/ name \in DOMAIN insts /\ pending' = pending
         \/ name \notin DOMAIN pending /\ pending' = pending
         \/ pending' = Without(pending, name)
  PROVE  InstsInv'
BY DEF InstsInv, Put, Without

\* The same for a creation that goes on without its caller.
LEMMA PutPending ==
  ASSUME InstsInv, server' = server, kiniEnv' = kiniEnv, spec' = spec, NEW name, NEW i,
         Owned(name, i, <<server, kiniEnv>>, spec), i.net = {}, name \notin DOMAIN insts,
         insts' = insts, pending' = Put(pending, name, i)
  PROVE  InstsInv'
BY Zenon DEF InstsInv, Put

\* WaitForLaunchInstance touches one instance, which only comes and grows.
LEMMA LaunchKept ==
  ASSUME InstsInv, server' = server, kiniEnv' = kiniEnv, spec' = spec, NEW name, NEW o, NEW by, NEW result,
         Launch(name, o, by, result),
         CompleteError(o, server.name) = "none" => Owned(name, Created(o, by), <<server, kiniEnv>>, spec)
  PROVE  /\ InstsInv'
         /\ DOMAIN insts \subseteq DOMAIN insts' /\ DOMAIN insts' \subseteq DOMAIN insts \cup {name}
         /\ DOMAIN pending' \subseteq DOMAIN pending \cup {name}
         /\ \A n \in DOMAIN insts : insts[n].net \subseteq insts'[n].net
         /\ result = "ok" => name \in DOMAIN insts' /\ "own" \in insts'[name].net
PROOF
  <1> DEFINE Own(i) == Owned(name, i, <<server, kiniEnv>>, spec)
  <1>1. ASSUME NEW i, Own(i), i.net \subseteq Kinds
        PROVE  Own(Up(i)) /\ Up(i).net = i.net \cup Started /\ Up(i).net \subseteq Kinds /\ "own" \in Up(i).net
    <2>1. Up(i) = [i EXCEPT !.net = i.net \cup Started]
      BY Zenon DEF Up
    <2> QED  BY <1>1, <2>1, NetOwned DEF Started, Kinds
  <1>2. Created(o, by).net = {}
    BY Zenon DEF Created
  <1>3. ASSUME NEW i, Own(i), i.net \subseteq Kinds, insts' = Put(insts, name, i),
               name \in DOMAIN insts => insts[name].net \subseteq i.net,
               result = "ok" => "own" \in i.net,
               \/ name \in DOMAIN insts /\ pending' = pending
               \/ name \notin DOMAIN pending /\ pending' = pending
               \/ pending' = Without(pending, name)
        PROVE  /\ InstsInv'
               /\ DOMAIN insts \subseteq DOMAIN insts' /\ DOMAIN insts' \subseteq DOMAIN insts \cup {name}
               /\ DOMAIN pending' \subseteq DOMAIN pending \cup {name}
               /\ \A n \in DOMAIN insts : insts[n].net \subseteq insts'[n].net
               /\ result = "ok" => name \in DOMAIN insts' /\ "own" \in insts'[name].net
    <2>1. InstsInv'
      BY <1>3, PutInsts, Zenon
    <2> QED  BY <1>3, <2>1, Zenon DEF Put, Without
  <1>4. CASE name \in DOMAIN insts
    <2>1. Own(insts[name]) /\ insts[name].net \subseteq Kinds
      BY <1>4, Zenon DEF InstsInv
    <2>2. CASE result = "ok" /\ insts' = [insts EXCEPT ![name] = Up(@)] /\ pending' = pending
      <3>1. insts' = Put(insts, name, Up(insts[name]))
        BY <1>4, <2>2, PutForms DEF InstsInv
      <3> QED  BY <1>1, <1>3, <1>4, <2>1, <2>2, <3>1, Zenon
    <2>3. CASE result = "error" /\ UNCHANGED <<insts, pending>>
      BY <2>3, Zenon DEF InstsInv
    <2> QED  BY <1>4, <2>2, <2>3, Zenon DEF Launch, Exists
  <1>5. CASE name \notin DOMAIN insts /\ name \in DOMAIN pending
    <2>1. Own(pending[name]) /\ pending[name].net = {}
      BY <1>5, Zenon DEF InstsInv
    <2>2. pending' = Without(pending, name)
      BY <1>5, Zenon DEF Launch, Exists
    <2>3. \/ result = "ok" /\ insts' = Put(insts, name, Up(pending[name]))
          \/ result = "error" /\ insts' = Put(insts, name, pending[name])
      BY <1>5, PutForms DEF Launch, Exists
    <2> QED  BY <1>1, <1>3, <1>5, <2>1, <2>2, <2>3, Zenon
  <1>6. CASE name \notin DOMAIN insts /\ name \notin DOMAIN pending
    <2>1. \/ /\ Own(Created(o, by))
             /\ \/ result = "ok" /\ insts' = Put(insts, name, Up(Created(o, by))) /\ pending' = pending
                \/ result = "error" /\ insts' = Put(insts, name, Created(o, by)) /\ pending' = pending
                \/ result = "error" /\ pending' = Put(pending, name, Created(o, by)) /\ insts' = insts
          \/ result # "ok" /\ insts' = insts /\ pending' = pending
      BY <1>6, PutForms DEF Launch, Exists, CompleteError
    <2>2. ASSUME Own(Created(o, by)), result # "ok", insts' = insts, pending' = Put(pending, name, Created(o, by))
          PROVE  InstsInv'
      BY <1>2, <1>6, <2>2, PutPending, Zenon
    <2>3. ASSUME insts' = insts, pending' = pending PROVE InstsInv'
      BY <2>3, Zenon DEF InstsInv
    <2> QED  BY <1>1, <1>2, <1>3, <1>6, <2>1, <2>2, <2>3, Zenon DEF Put
  <1> QED  BY <1>4, <1>5, <1>6, Zenon

\* Names are apart: only a node's own docker run makes an instance of its name.
LEMMA OwnerByName ==
  ASSUME NEW n, NEW i, NEW s, NEW specs, Owned(n, i, s, specs)
  PROVE  /\ n \in DOMAIN Nodes <=> NodeRecord(n, i, s)
         /\ (\E m \in MachineNames : n = Machines[m].name) <=> MachineRecord(n, i, s, specs)
         /\ NodeRecord(n, i, s) => i.by \notin MachineNames
         /\ BalancerRecord(n, i) => i.by \notin MachineNames
         /\ MachineRecord(n, i, s, specs) => i.by \notin DOMAIN Nodes
         /\ BalancerRecord(n, i) => i.by \notin DOMAIN Nodes
BY ApartAssumption, Zenon DEF Owned, NodeRecord, MachineRecord, BalancerRecord

\* docker ps lists the nodes of a cluster that exist, and nothing else.
LEMMA PsNodes ==
  ASSUME InstsInv, NEW c \in KindNames
  PROVE  DockerPs(c) = {n \in NodesOf(c) : n \in DOMAIN insts}
PROOF
  <1>1. DockerPs(c) = {n \in DOMAIN insts : Value(insts[n].config, "user.io.x-k8s.kind.cluster") = c}
    BY Zenon DEF DockerPs, ListWithConfig, :>
  <1>2. ASSUME NEW n \in DOMAIN insts
        PROVE  Value(insts[n].config, "user.io.x-k8s.kind.cluster") = c <=> n \in NodesOf(c)
    <2>1. Owned(n, insts[n], <<server, kiniEnv>>, spec)
      BY Zenon DEF InstsInv
    <2>2. CASE n \in DOMAIN Nodes
      BY <2>1, <2>2, OwnerByName, Zenon DEF NodeRecord, NodesOf
    <2>3. CASE n \notin DOMAIN Nodes
      <3>1. Value(insts[n].config, "user.io.x-k8s.kind.cluster") = Unset
        BY <2>1, <2>3, Zenon DEF Owned, NodeRecord, MachineRecord, BalancerRecord, LabelKeys
      <3> QED  BY <2>3, <3>1, NodesAssumption, Zenon DEF NodesOf
    <2> QED  BY <2>2, <2>3, Zenon
  <1> QED  BY <1>1, <1>2, Zenon DEF NodesOf

\* Of the addresses of an instance, only its own is taken.
LEMMA OwnAddress ==
  ASSUME InstsInv, NEW n \in DOMAIN insts
  PROVE  ParseHostAddresses(n) = {k \in {"own"} : k \in insts[n].net}
PROOF
  <1>1. insts[n].net \subseteq Kinds
    BY Zenon DEF InstsInv
  <1>2. ASSUME NEW k \in Kinds
        PROVE  (LET a == AddressKinds[k] IN ~a.loopback /\ a.hostName /\ a.scope = "global" /\ ~a.single)
                   <=> k = "own"
    BY SMTT(30) DEF AddressKinds, Kinds
  <1> QED  BY <1>1, <1>2, Zenon DEF ParseHostAddresses

\* So every instance that has its own address gives one backend.
LEMMA OwnServers ==
  ASSUME NEW S, \A n \in S : ParseHostAddresses(n) = {k \in {"own"} : k \in insts[n].net}
  PROVE  BackendServers(S) = {[name |-> n, address |-> "own"] : n \in {k \in S : "own" \in insts[k].net}}
PROOF
  <1>1. ASSUME NEW b \in BackendServers(S)
        PROVE  b \in {[name |-> n, address |-> "own"] : n \in {k \in S : "own" \in insts[k].net}}
    <2>1. PICK n \in S : b \in {[name |-> n, address |-> k] : k \in ParseHostAddresses(n)}
      BY <1>1, Zenon DEF BackendServers
    <2>2. PICK k \in ParseHostAddresses(n) : b = [name |-> n, address |-> k]
      BY <2>1, Zenon
    <2>3. k = "own" /\ "own" \in insts[n].net
      BY <2>2, Zenon
    <2> QED  BY <2>2, <2>3, Zenon
  <1>2. ASSUME NEW n \in S, "own" \in insts[n].net
        PROVE  [name |-> n, address |-> "own"] \in BackendServers(S)
    <2>1. "own" \in ParseHostAddresses(n)
      BY <1>2, Zenon
    <2>2. [name |-> n, address |-> "own"] \in {[name |-> n, address |-> k] : k \in ParseHostAddresses(n)}
      BY <2>1, Zenon
    <2> QED  BY <2>2, Zenon DEF BackendServers
  <1> QED  BY <1>1, <1>2, Zenon

\* The backends haproxy gets for a kind cluster.
LEMMA Backends ==
  ASSUME InstsInv, NEW c \in KindNames,
         \A n \in NodesOf(c) : n \in DOMAIN insts /\ "own" \in insts[n].net
  PROVE  HaproxyBackends(c) = {[name |-> n, address |-> "own"] : n \in
                                  {k \in NodesOf(c) : Nodes[k].role = "control-plane"}}
PROOF
  <1> DEFINE listed == ListWithConfig("user.io.x-k8s.kind.cluster" :> c
                                      @@ "user.io.x-k8s.kind.role" :> "control-plane")
             cps == {k \in NodesOf(c) : Nodes[k].role = "control-plane"}
  <1>1. listed = {n \in DockerPs(c) : Value(insts[n].config, "user.io.x-k8s.kind.role") = "control-plane"}
    BY Zenon DEF ListWithConfig, DockerPs, :>, @@
  <1>2. \A n \in NodesOf(c) : Value(insts[n].config, "user.io.x-k8s.kind.role") = Nodes[n].role
    BY OwnerByName, Zenon DEF InstsInv, NodeRecord, NodesOf
  <1>3. listed = cps
    BY <1>1, <1>2, PsNodes, Zenon
  <1>4. /\ \A n \in cps : ParseHostAddresses(n) = {k \in {"own"} : k \in insts[n].net}
        /\ cps = {k \in cps : "own" \in insts[k].net}
    BY OwnAddress, Zenon
  <1> HIDE DEF listed, cps
  <1>5. BackendServers(cps) = {[name |-> n, address |-> "own"] : n \in cps}
    BY <1>4, OwnServers, Zenon
  <1> QED  BY <1>3, <1>5, Zenon DEF HaproxyBackends, listed, cps

-----------------------------------------------------------------------------
\* What kind does

Served(c) ==
    haproxy[c] = <<{[name |-> n, address |-> "own"] : n \in
                      {k \in NodesOf(c) : Nodes[k].role = "control-plane"}}>>

\* While a cluster is deleted, a node that was there when kind listed them is gone
\* or still to be removed, and nothing can bring it back.
ClusterInv(c) ==
    /\ kind[c] = [pc |-> kind[c].pc, todo |-> kind[c].todo, had |-> kind[c].had]
    /\ kind[c].todo \subseteq NodesOf(c)
    /\ kind[c].pc = "up" /\ HasBalancer(c) => Served(c)
    /\ kind[c].pc = "gone" => kind[c].todo = {}
    /\ kind[c].pc \in {"rm", "gone"} =>
          \A n \in kind[c].had :
              /\ n \in NodesOf(c)
              /\ node[n] # "asked"
              /\ n \notin DOMAIN pending
              /\ n \in DOMAIN insts => n \in kind[c].todo

\* A node whose docker run ended well is there until kind deletes its cluster.
NodeInv(n) ==
    /\ node[n] \in {"ok", "failed"} => kind[Nodes[n].cluster].pc = "run"
    /\ node[n] = "ok" \/ kind[Nodes[n].cluster].pc = "balance" =>
          n \in DOMAIN insts /\ "own" \in insts[n].net

KindInv ==
    /\ kind = [c \in KindNames |-> kind[c]]
    /\ haproxy = [c \in KindNames |-> haproxy[c]]
    /\ node \in [DOMAIN Nodes -> {"none", "asked", "ok", "failed"}]
    /\ \A c \in KindNames : ClusterInv(c)
    /\ \A n \in DOMAIN Nodes : NodeInv(n)

\* Steps of others: the instances of nodes stay, or appear from pending creations.
LEMMA KindFrame ==
  ASSUME KindInv, UNCHANGED <<node, kind, haproxy>>,
         \A n \in DOMAIN Nodes :
            /\ n \in DOMAIN insts =>
                  /\ n \in DOMAIN insts' /\ n \notin DOMAIN pending'
                  /\ "own" \in insts[n].net => "own" \in insts'[n].net
            /\ n \notin DOMAIN insts /\ n \notin DOMAIN pending =>
                  n \notin DOMAIN insts' /\ n \notin DOMAIN pending'
  PROVE  KindInv'
PROOF
  <1>1. ASSUME NEW c \in KindNames PROVE ClusterInv(c)'
    <2>1. ClusterInv(c)
      BY Zenon DEF KindInv
    <2> QED  BY <2>1, Zenon DEF ClusterInv, Served, NodesOf, HasBalancer
  <1>2. ASSUME NEW n \in DOMAIN Nodes PROVE NodeInv(n)'
    <2>1. NodeInv(n)
      BY Zenon DEF KindInv
    <2> QED  BY <2>1, Zenon DEF NodeInv
  <1> QED  BY <1>1, <1>2, Zenon DEF KindInv

-----------------------------------------------------------------------------
\* What the controllers do

MachineInv ==
    /\ \A m \in MachineNames : spec[m] \in Specs[m]
    /\ res = [m \in MachineNames |-> res[m]]

\* The options of a virtual machine are refused only for their image.
LEMMA VMOptions ==
  ASSUME NEW m \in MachineNames, spec[m].type = "virtual-machine", server.name \in ServerNames,
         CompleteError(MachineOptions(m), server.name) # "none"
  PROVE  server.name \notin DOMAIN LaunchImage(spec[m])
PROOF
  <1> DEFINE s == spec[m]
             in == KubeadmInput(s)
             family == CapnImage(<<"kubeadm", in.version>>)
             base == KubeadmLaunchOptions(in)
  <1>1. in.type = "virtual-machine"
    BY Zenon DEF KubeadmInput, InstanceType, Unset
  <1>2. IsBase(WithDevices(base, EmptyMap), "virtual-machine", family, {}, {})
    BY <1>1, KubeadmBase, BaseSteps, Zenon
  <1>3. PICK c, d, tm, u :
           /\ WithDevices(base, EmptyMap) = Options("virtual-machine", family, c, d, tm, {}, {}, u)
           /\ NoSocket(u)
    BY <1>2, Zenon DEF IsBase
  <1> DEFINE config == Identity(m) @@ (s.config @@ c)
             image == IF Nameless(LaunchImage(s)) THEN family ELSE LaunchImage(s)
  <1>4. WithConfig(WithConfig(WithDevices(base, EmptyMap), s.config), Identity(m))
            = Options("virtual-machine", family, config, d, tm, {}, {}, u)
    BY <1>3, ConfigField, SMTT(30)
  <1>5. WithImage(Options("virtual-machine", family, config, d, tm, {}, {}, u), LaunchImage(s))
            = Options("virtual-machine", image, config, d, tm, {}, {}, u)
    BY ImageField, SMTT(30)
  <1>6. MachineOptions(m) = Options("virtual-machine", image, config, d,
                                    tm \cup LoadBalancerTemplates(m), {}, {}, u)
    <2>1. MachineOptions(m) =
              WithInstanceTemplates(WithImage(
                  WithConfig(WithConfig(WithDevices(base, EmptyMap), s.config), Identity(m)),
                  LaunchImage(s)), LoadBalancerTemplates(m))
      BY SMTT(30) DEF MachineOptions
    <2> HIDE DEF base, family, config, image
    <2> QED  BY <1>4, <1>5, <2>1, InstanceTemplatesField, SMTT(30)
  <1>7. DOMAIN family = ServerNames
    BY Zenon DEF CapnImage, Everywhere
  <1> HIDE DEF config, image, family
  <1>8. /\ MachineOptions(m).type = "virtual-machine" /\ MachineOptions(m).image = image
        /\ MachineOptions(m).files = {} /\ MachineOptions(m).replacements = {}
        /\ MachineOptions(m).unixSocket = FALSE
    BY <1>3, <1>6, SMTT(30) DEF Options, NoSocket
  <1>9. server.name \notin DOMAIN image
    BY <1>8, Zenon DEF CompleteError
  <1> QED  BY <1>7, <1>9, Zenon DEF image

\* A launch ends with a terminal error only for a reason the user can see.
LEMMA VMKept ==
  ASSUME MachineInv, VMsAreLaunchable, server.name \in ServerNames,
         NEW m \in MachineNames, LaunchMachine(m)
  PROVE  VMsAreLaunchable'
PROOF
  <1> DEFINE s == spec[m]
             Reason == \/ s.devices = "malformed"
                       \/ s.version = Unset /\ (IsZero(s.image) \/ ContainsVersion(s.image))
                       \/ IsZero(s.image)
                       \/ server.name \notin DOMAIN LaunchImage(s)
  <1>1. PICK answer, error : error \in LaunchErrors(s, answer) /\
           IF error # "none"
           THEN res' = [res EXCEPT ![m] = error]
           ELSE \E result \in {"ok", "error", "terminal"} :
                   /\ Launch(Machines[m].name, MachineOptions(m), m, result)
                   /\ res' = [res EXCEPT ![m] = result]
    BY Zenon DEF LaunchMachine
  <1>2. PICK end : res' = [res EXCEPT ![m] = end] /\
           \/ end = error
           \/ Launch(Machines[m].name, MachineOptions(m), m, end)
    BY <1>1, Zenon
  <1>3. ASSUME s.type = "virtual-machine", error = "terminal" PROVE Reason
    BY <1>1, <1>3, Zenon DEF LaunchErrors, ImageErrors
  <1>4. ASSUME s.type = "virtual-machine", end = "terminal",
               Launch(Machines[m].name, MachineOptions(m), m, end)
        PROVE  Reason
    <2>1. CompleteError(MachineOptions(m), server.name) # "none"
      BY <1>4, Zenon DEF Launch
    <2> QED  BY <1>4, <2>1, VMOptions, Zenon
  <1>5. UNCHANGED <<server, spec>> /\ \A k \in MachineNames : res'[k] = IF k = m THEN end ELSE res[k]
    BY <1>2, Zenon DEF LaunchMachine, MachineInv
  <1>6. s.type = "virtual-machine" /\ end = "terminal" => Reason
    BY <1>2, <1>3, <1>4, Zenon
  <1> HIDE DEF Reason
  <1>7. ASSUME NEW k \in MachineNames, res'[k] = "terminal", spec[k].type = "virtual-machine"
        PROVE  \/ spec[k].devices = "malformed"
               \/ spec[k].version = Unset /\ (IsZero(spec[k].image) \/ ContainsVersion(spec[k].image))
               \/ IsZero(spec[k].image)
               \/ server.name \notin DOMAIN LaunchImage(spec[k])
    <2>1. CASE k = m
      BY <1>5, <1>6, <1>7, <2>1, Zenon DEF Reason
    <2>2. CASE k # m
      BY <1>5, <1>7, <2>2, Zenon DEF VMsAreLaunchable
    <2> QED  BY <2>1, <2>2, Zenon
  <1> QED  BY <1>5, <1>7, Zenon DEF VMsAreLaunchable

\* A machine whose instance is launched, by a new name or again.
LEMMA LaunchMachineKept ==
  ASSUME InstsInv, KindInv, MachineInv, NEW m \in MachineNames, LaunchMachine(m), UNCHANGED kiniVars
  PROVE  /\ InstsInv' /\ KindInv' /\ MachineInv'
         /\ DOMAIN insts \subseteq DOMAIN insts'
PROOF
  <1>1. server' = server /\ spec' = spec /\ UNCHANGED <<kiniEnv, node, kind, haproxy>>
    BY Zenon DEF LaunchMachine, kiniVars, kindVars
  <1>2. MachineInv'
    BY <1>1, Zenon DEF MachineInv, LaunchMachine
  <1>3. ASSUME UNCHANGED <<insts, pending>> PROVE InstsInv' /\ KindInv'
    BY <1>1, <1>3, SMTT(30) DEF InstsInv, KindInv, ClusterInv, NodeInv, Served
  <1>4. ASSUME NEW result, NEW answer, "none" \in LaunchErrors(spec[m], answer),
               Launch(Machines[m].name, MachineOptions(m), m, result)
        PROVE  InstsInv' /\ KindInv' /\ DOMAIN insts \subseteq DOMAIN insts'
    <2>1. CompleteError(MachineOptions(m), server.name) = "none" =>
              Owned(Machines[m].name, Created(MachineOptions(m), m), <<server, kiniEnv>>, spec)
      BY <1>4, MachineOwned, Zenon DEF MachineInv, InstsInv
    <2>2. /\ InstsInv'
          /\ DOMAIN insts \subseteq DOMAIN insts' /\ DOMAIN insts' \subseteq DOMAIN insts \cup {Machines[m].name}
          /\ DOMAIN pending' \subseteq DOMAIN pending \cup {Machines[m].name}
          /\ \A n \in DOMAIN insts : insts[n].net \subseteq insts'[n].net
      BY <1>1, <1>4, <2>1, LaunchKept, Zenon
    <2>3. Machines[m].name \notin DOMAIN Nodes
      BY ApartAssumption, Zenon
    <2>4. DOMAIN insts' \cap DOMAIN pending' = {}
      BY <2>2, Zenon DEF InstsInv
    <2>5. KindInv'
      BY <1>1, <2>2, <2>3, <2>4, KindFrame, Zenon
    <2> QED  BY <2>2, <2>5, Zenon
  <1> QED  BY <1>2, <1>3, <1>4, Zenon DEF LaunchMachine

\* A machine whose instance is deleted: no node has its name.
LEMMA DeleteMachineKept ==
  ASSUME InstsInv, KindInv, MachineInv, NEW m \in MachineNames, DeleteMachine(m), UNCHANGED kiniVars
  PROVE  /\ InstsInv' /\ KindInv' /\ MachineInv'
         /\ \A n \in DOMAIN insts \ DOMAIN insts' : n = Machines[m].name
         /\ res[m] # "none" /\ res'[m] = "none"
PROOF
  <1>1. /\ UNCHANGED <<server, kiniEnv, pending, spec, node, kind, haproxy>>
        /\ insts' = Without(insts, Machines[m].name)
        /\ res' = [res EXCEPT ![m] = "none"] /\ res[m] # "none"
    BY Zenon DEF DeleteMachine, Delete, kiniVars, kindVars
  <1>2. MachineInv' /\ res'[m] = "none"
    BY <1>1, Zenon DEF MachineInv
  <1>3. InstsInv'
    BY <1>1, Zenon DEF InstsInv, Without
  <1>4. /\ \A n \in DOMAIN insts \ DOMAIN insts' : n = Machines[m].name
        /\ \A n \in DOMAIN insts' : n \in DOMAIN insts /\ insts'[n] = insts[n]
    BY <1>1, Zenon DEF Without
  <1>5. Machines[m].name \notin DOMAIN Nodes
    BY ApartAssumption, Zenon
  <1>6. DOMAIN insts' \cap DOMAIN pending' = {}
    BY <1>3, Zenon DEF InstsInv
  <1>7. KindInv'
    BY <1>1, <1>4, <1>5, <1>6, KindFrame, Zenon
  <1> QED  BY <1>1, <1>2, <1>3, <1>4, <1>7, Zenon

\* A load balancer that is launched.
LEMMA LaunchLoadBalancerKept ==
  ASSUME InstsInv, KindInv, MachineInv, NEW c \in DOMAIN Clusters, LaunchLoadBalancer(c), UNCHANGED kiniVars
  PROVE  /\ InstsInv' /\ KindInv' /\ MachineInv'
         /\ DOMAIN insts \subseteq DOMAIN insts'
PROOF
  <1>1. /\ UNCHANGED <<server, kiniEnv, spec, res, node, kind, haproxy>>
        /\ Launch(Clusters[c].lbName, LoadBalancerOptions(c), c, "ok")
    BY Zenon DEF LaunchLoadBalancer, machineVars, kiniVars, kindVars
  <1>2. MachineInv'
    BY <1>1, Zenon DEF MachineInv
  <1>3. Owned(Clusters[c].lbName, Created(LoadBalancerOptions(c), c), <<server, kiniEnv>>, spec)
    BY BalancerOwned, Zenon
  <1>4. /\ InstsInv'
        /\ DOMAIN insts \subseteq DOMAIN insts' /\ DOMAIN insts' \subseteq DOMAIN insts \cup {Clusters[c].lbName}
        /\ DOMAIN pending' \subseteq DOMAIN pending \cup {Clusters[c].lbName}
        /\ \A n \in DOMAIN insts : insts[n].net \subseteq insts'[n].net
    BY <1>1, <1>3, LaunchKept, Zenon
  <1>5. Clusters[c].lbName \notin DOMAIN Nodes
    BY ApartAssumption, Zenon
  <1>6. DOMAIN insts' \cap DOMAIN pending' = {}
    BY <1>4, Zenon DEF InstsInv
  <1>7. KindInv'
    BY <1>1, <1>4, <1>5, <1>6, KindFrame, Zenon
  <1> QED  BY <1>2, <1>4, <1>7, Zenon

\* Addresses that come and go inside a guest.
LEMMA GuestKept ==
  ASSUME InstsInv, KindInv, MachineInv, NEW n \in DOMAIN insts, GuestAddress(n), UNCHANGED kiniVars
  PROVE  /\ InstsInv' /\ KindInv' /\ MachineInv'
         /\ DOMAIN insts' = DOMAIN insts
PROOF
  <1>1. UNCHANGED <<server, kiniEnv, pending, spec, res, node, kind, haproxy>>
    BY Zenon DEF GuestAddress, machineVars, kiniVars, kindVars
  <1>2. \E net : /\ insts' = [k \in DOMAIN insts |-> [insts[k] EXCEPT !.net = net[k]]]
                 /\ \A k \in DOMAIN insts :
                       net[k] \subseteq Kinds /\ ("own" \in insts[k].net => "own" \in net[k])
    <2>1. \A k \in DOMAIN insts : Owned(k, insts[k], <<server, kiniEnv>>, spec) /\ insts[k].net \subseteq Kinds
      BY Zenon DEF InstsInv
    <2>2. CASE insts' = [insts EXCEPT ![n].net = @ \cup {"cni"}]
      <3> DEFINE net == [k \in DOMAIN insts |-> IF k = n THEN insts[k].net \cup {"cni"} ELSE insts[k].net]
      <3>1. \A k \in DOMAIN insts : [insts[k] EXCEPT !.net = insts[k].net] = insts[k]
        BY <2>1, Zenon DEF Owned, IsInstance, Instance
      <3>2. insts' = [insts EXCEPT ![n] = [insts[n] EXCEPT !.net = insts[n].net \cup {"cni"}]]
        BY <2>2, Zenon
      <3>3. insts' = [k \in DOMAIN insts |-> IF k = n THEN [insts[n] EXCEPT !.net = insts[n].net \cup {"cni"}]
                                                      ELSE insts[k]]
        BY <3>2, Zenon DEF InstsInv
      <3>4. insts' = [k \in DOMAIN insts |-> [insts[k] EXCEPT !.net = net[k]]]
        BY <3>1, <3>3, Zenon
      <3>5. \A k \in DOMAIN insts : net[k] \subseteq Kinds /\ ("own" \in insts[k].net => "own" \in net[k])
        BY <2>1, Zenon DEF Kinds
      <3> HIDE DEF net
      <3> QED  BY <3>4, <3>5, Zenon
    <2>3. CASE insts' = [k \in DOMAIN insts |->
                            [insts[k] EXCEPT !.net = IF k = n THEN @ \cup {"vip"} ELSE @ \ {"vip"}]]
      <3> DEFINE net == [k \in DOMAIN insts |-> IF k = n THEN insts[k].net \cup {"vip"} ELSE insts[k].net \ {"vip"}]
      <3>1. insts' = [k \in DOMAIN insts |-> [insts[k] EXCEPT !.net = net[k]]]
        BY <2>3, Zenon
      <3>2. \A k \in DOMAIN insts : net[k] \subseteq Kinds /\ ("own" \in insts[k].net => "own" \in net[k])
        BY <2>1, Zenon DEF Kinds
      <3> HIDE DEF net
      <3> QED  BY <3>1, <3>2, Zenon
    <2> QED  BY <2>2, <2>3, Zenon DEF GuestAddress
  <1>3. /\ DOMAIN insts' = DOMAIN insts
        /\ insts' = [k \in DOMAIN insts' |-> insts'[k]]
        /\ \A k \in DOMAIN insts : /\ Owned(k, insts'[k], <<server, kiniEnv>>, spec) /\ insts'[k].net \subseteq Kinds
                                   /\ "own" \in insts[k].net => "own" \in insts'[k].net
    <2>1. PICK net : /\ insts' = [k \in DOMAIN insts |-> [insts[k] EXCEPT !.net = net[k]]]
                     /\ \A k \in DOMAIN insts :
                           net[k] \subseteq Kinds /\ ("own" \in insts[k].net => "own" \in net[k])
      BY <1>2, Zenon
    <2>2. ASSUME NEW k \in DOMAIN insts
          PROVE  /\ Owned(k, insts'[k], <<server, kiniEnv>>, spec) /\ insts'[k].net \subseteq Kinds
                 /\ "own" \in insts[k].net => "own" \in insts'[k].net
      <3>1. insts'[k] = [insts[k] EXCEPT !.net = net[k]] /\ Owned(k, insts[k], <<server, kiniEnv>>, spec)
        BY <2>1, <2>2, Zenon DEF InstsInv
      <3>2. net[k] \subseteq Kinds /\ ("own" \in insts[k].net => "own" \in net[k])
        BY <2>1, Zenon
      <3> DEFINE at == <<server, kiniEnv>>
      <3>5. Owned(k, insts[k], at, spec)
        BY <3>1, Zenon
      <3> HIDE DEF at
      <3>4. /\ Owned(k, [insts[k] EXCEPT !.net = net[k]], at, spec)
            /\ [insts[k] EXCEPT !.net = net[k]].net = net[k]
        BY <3>5, NetOwned
      <3>3. Owned(k, insts'[k], <<server, kiniEnv>>, spec) /\ insts'[k].net = net[k]
        BY <3>1, <3>4, Zenon DEF at
      <3> QED  BY <3>2, <3>3, Zenon
    <2> QED  BY <2>1, <2>2, Zenon
  <1>4. InstsInv'
    BY <1>1, <1>3, Zenon DEF InstsInv
  <1>5. DOMAIN insts' \cap DOMAIN pending' = {}
    BY <1>4, Zenon DEF InstsInv
  <1>6. KindInv'
    BY <1>1, <1>3, <1>5, KindFrame, Zenon
  <1> QED  BY <1>1, <1>3, <1>4, <1>6, Zenon DEF MachineInv

\* A creation that ends after its caller gave up.
LEMMA LateKept ==
  ASSUME InstsInv, KindInv, MachineInv, Late
  PROVE  /\ InstsInv' /\ KindInv' /\ MachineInv'
         /\ DOMAIN insts \subseteq DOMAIN insts'
PROOF
  <1>1. PICK name \in DOMAIN pending : /\ insts' = (name :> pending[name] @@ insts)
                                       /\ pending' = Without(pending, name)
    BY Zenon DEF Late, LateCreate
  <1>2. UNCHANGED <<server, kiniEnv, spec, res, node, kind, haproxy>>
    BY Zenon DEF Late, machineVars, kiniVars, kindVars
  <1>3. insts' = Put(insts, name, pending[name])
    BY <1>1, PutForms, Zenon
  <1>4. Owned(name, pending[name], <<server, kiniEnv>>, spec) /\ pending[name].net \subseteq Kinds
    BY Zenon DEF InstsInv
  <1>5. InstsInv'
    BY <1>1, <1>2, <1>3, <1>4, PutInsts, Zenon
  <1>6. /\ DOMAIN insts' = DOMAIN insts \cup {name} /\ DOMAIN pending' = DOMAIN pending \ {name}
        /\ \A n \in DOMAIN insts : n # name => insts'[n] = insts[n]
        /\ name \notin DOMAIN insts
    BY <1>1, <1>3, Zenon DEF Put, Without, InstsInv
  <1>7. DOMAIN insts' \cap DOMAIN pending' = {}
    BY <1>5, Zenon DEF InstsInv
  <1>8. KindInv'
    BY <1>1, <1>2, <1>6, <1>7, KindFrame, Zenon
  <1> QED  BY <1>2, <1>5, <1>6, <1>8, Zenon DEF MachineInv

-----------------------------------------------------------------------------
\* What kini does

\* A docker run brings its own node, and only while it was asked for.
LEMMA DockerRunKept ==
  ASSUME InstsInv, KindInv, spec' = spec, NEW n \in DOMAIN Nodes, DockerRun(n)
  PROVE  InstsInv' /\ KindInv' /\ DOMAIN insts \subseteq DOMAIN insts'
PROOF
  <1> DEFINE c == Nodes[n].cluster
  <1>0. c \in KindNames /\ n \in NodesOf(c)
    BY NodesAssumption, Zenon DEF NodesOf
  <1>1. UNCHANGED <<server, kiniEnv, kind, haproxy>> /\ node[n] = "asked"
    BY Zenon DEF DockerRun
  <1>2. PICK end \in {"ok", "failed"} :
           /\ node' = [node EXCEPT ![n] = Ended(n, end)]
           /\ \/ end = "failed" /\ UNCHANGED <<insts, pending>>
              \/ \E secondClient \in BOOLEAN, result \in {"ok", "error", "terminal"} :
                    /\ Launch(n, RunOptions(n, KindInstances(secondClient)), n, result)
                    /\ end = IF result = "ok" THEN "ok" ELSE "failed"
    BY Zenon DEF DockerRun
  <1>3. /\ InstsInv'
        /\ DOMAIN insts \subseteq DOMAIN insts' /\ DOMAIN insts' \subseteq DOMAIN insts \cup {n}
        /\ DOMAIN pending' \subseteq DOMAIN pending \cup {n}
        /\ \A k \in DOMAIN insts : insts[k].net \subseteq insts'[k].net
        /\ end = "ok" => n \in DOMAIN insts' /\ "own" \in insts'[n].net
    <2>1. CASE end = "failed" /\ UNCHANGED <<insts, pending>>
      BY <1>1, <2>1, Zenon DEF InstsInv
    <2>2. ASSUME NEW secondClient \in BOOLEAN, NEW result \in {"ok", "error", "terminal"},
                 Launch(n, RunOptions(n, KindInstances(secondClient)), n, result),
                 end = IF result = "ok" THEN "ok" ELSE "failed"
          PROVE  /\ InstsInv'
                 /\ DOMAIN insts \subseteq DOMAIN insts' /\ DOMAIN insts' \subseteq DOMAIN insts \cup {n}
                 /\ DOMAIN pending' \subseteq DOMAIN pending \cup {n}
                 /\ \A k \in DOMAIN insts : insts[k].net \subseteq insts'[k].net
                 /\ end = "ok" => n \in DOMAIN insts' /\ "own" \in insts'[n].net
      <3>1. KindInstances(secondClient) \in BOOLEAN
        BY Zenon DEF KindInstances
      <3>3. kiniEnv.mode # Unset => (KindInstances(secondClient) <=> kiniEnv.mode = "oci")
        BY Zenon DEF KindInstances
      <3>2. Owned(n, Created(RunOptions(n, KindInstances(secondClient)), n), <<server, kiniEnv>>, spec)
        BY <3>1, <3>3, NodeOwned, Zenon DEF InstsInv
      <3> QED  BY <1>1, <2>2, <3>2, LaunchKept, Zenon
    <2> QED  BY <1>2, <2>1, <2>2, Zenon
  <1>4. /\ node' \in [DOMAIN Nodes -> {"none", "asked", "ok", "failed"}]
        /\ \A k \in DOMAIN Nodes : k # n => node'[k] = node[k]
        /\ node'[n] \in {"ok", "failed"} => kind[c].pc = "run"
        /\ node'[n] = "ok" => end = "ok"
        /\ node'[n] # "asked"
    BY <1>2, Zenon DEF KindInv, Ended
  <1>5. DOMAIN insts' \cap DOMAIN pending' = {}
    BY <1>3, Zenon DEF InstsInv
  <1>6. ASSUME NEW d \in KindNames PROVE ClusterInv(d)'
    <2>1. ClusterInv(d)
      BY Zenon DEF KindInv
    <2>2. ASSUME kind[d].pc \in {"rm", "gone"}, NEW k \in kind[d].had
          PROVE  /\ k \in NodesOf(d) /\ node'[k] # "asked" /\ k \notin DOMAIN pending'
                 /\ k \in DOMAIN insts' => k \in kind[d].todo
      <3>1. k \in NodesOf(d) /\ node[k] # "asked" /\ k # n /\ k \in DOMAIN Nodes
        BY <1>1, <2>1, <2>2, Zenon DEF ClusterInv, NodesOf
      <3> QED  BY <1>3, <1>4, <2>1, <2>2, <3>1, Zenon DEF ClusterInv
    <2> QED  BY <1>1, <2>1, <2>2, Zenon DEF ClusterInv, Served, HasBalancer, NodesOf
  <1>7. ASSUME NEW k \in DOMAIN Nodes PROVE NodeInv(k)'
    <2>1. NodeInv(k)
      BY Zenon DEF KindInv
    <2>2. CASE k = n
      <3>1. kind[c].pc = "balance" => n \in DOMAIN insts' /\ "own" \in insts'[n].net
        BY <1>3, <2>1, <2>2, Zenon DEF NodeInv
      <3> QED  BY <1>1, <1>3, <1>4, <2>2, <3>1, Zenon DEF NodeInv
    <2>3. CASE k # n
      BY <1>1, <1>3, <1>4, <2>1, <2>3, Zenon DEF NodeInv
    <2> QED  BY <2>2, <2>3, Zenon
  <1> QED  BY <1>1, <1>3, <1>4, <1>6, <1>7, Zenon DEF KindInv

\* Steps of kind about cluster c that leave the instances alone.
LEMMA KindStep ==
  ASSUME InstsInv, KindInv, NEW c \in KindNames, UNCHANGED <<server, kiniEnv, insts, pending, spec>>,
         NEW k, kind' = [kind EXCEPT ![c] = k],
         k = [pc |-> k.pc, todo |-> k.todo, had |-> k.had],
         node' \in [DOMAIN Nodes -> {"none", "asked", "ok", "failed"}],
         \A n \in DOMAIN Nodes \ NodesOf(c) : node'[n] = node[n],
         haproxy' = [d \in KindNames |-> haproxy'[d]],
         \A d \in KindNames \ {c} : haproxy'[d] = haproxy[d],
         k.todo \subseteq NodesOf(c),
         k.pc = "up" /\ HasBalancer(c) => Served(c)',
         k.pc = "gone" => k.todo = {},
         k.pc \in {"rm", "gone"} =>
             \A n \in k.had : /\ n \in NodesOf(c) /\ node'[n] # "asked" /\ n \notin DOMAIN pending
                              /\ n \in DOMAIN insts => n \in k.todo,
         \A n \in NodesOf(c) :
             /\ node'[n] \in {"ok", "failed"} => k.pc = "run"
             /\ node'[n] = "ok" \/ k.pc = "balance" => n \in DOMAIN insts /\ "own" \in insts[n].net
  PROVE  InstsInv' /\ KindInv'
PROOF
  <1>1. InstsInv'
    BY DEF InstsInv
  <1>2. /\ kind' = [d \in KindNames |-> kind'[d]] /\ kind'[c] = k
        /\ \A d \in KindNames \ {c} : kind'[d] = kind[d]
    BY Zenon DEF KindInv
  <1>3. ASSUME NEW d \in KindNames PROVE ClusterInv(d)'
    <2>1. CASE d = c
      BY <1>2, <2>1, Zenon DEF ClusterInv, HasBalancer, NodesOf
    <2>2. CASE d # c
      <3>1. ClusterInv(d)
        BY Zenon DEF KindInv
      <3>2. kind'[d] = kind[d] /\ haproxy'[d] = haproxy[d]
        BY <1>2, <2>2, Zenon
      <3>3. \A n \in NodesOf(d) : node'[n] = node[n]
        BY <2>2, Zenon DEF NodesOf
      <3> QED  BY <3>1, <3>2, <3>3, Zenon DEF ClusterInv, Served, HasBalancer, NodesOf
    <2> QED  BY <2>1, <2>2, Zenon
  <1>4. ASSUME NEW n \in DOMAIN Nodes PROVE NodeInv(n)'
    <2>1. CASE n \in NodesOf(c)
      BY <1>2, <2>1, Zenon DEF NodeInv, NodesOf
    <2>2. CASE n \notin NodesOf(c)
      <3>1. NodeInv(n) /\ Nodes[n].cluster \in KindNames
        BY NodesAssumption, Zenon DEF KindInv
      <3>2. kind'[Nodes[n].cluster] = kind[Nodes[n].cluster] /\ node'[n] = node[n]
        BY <1>2, <2>2, <3>1, Zenon DEF NodesOf
      <3> QED  BY <3>1, <3>2, Zenon DEF NodeInv
    <2> QED  BY <2>1, <2>2, Zenon
  <1> QED  BY <1>1, <1>2, <1>3, <1>4, Zenon DEF KindInv

\* kind's steps that leave the instances alone.
LEMMA KindKept ==
  ASSUME InstsInv, KindInv, spec' = spec, NEW c \in KindNames,
         KindCreate(c) \/ KindCreated(c) \/ KindBalances(c) \/ KindDeletes(c) \/ KindLists(c)
  PROVE  InstsInv' /\ KindInv' /\ insts' = insts
PROOF
  <1>0. /\ UNCHANGED <<server, kiniEnv, insts, pending>>
        /\ ClusterInv(c) /\ \A n \in NodesOf(c) : NodeInv(n) /\ Nodes[n].cluster = c /\ n \in DOMAIN Nodes
    BY Zenon DEF KindCreate, KindCreated, KindBalances, KindDeletes, KindLists, projectVars, KindInv, NodesOf
  <1>1. /\ kind = [d \in KindNames |-> kind[d]]
        /\ haproxy = [d \in KindNames |-> haproxy[d]]
        /\ node \in [DOMAIN Nodes -> {"none", "asked", "ok", "failed"}]
        /\ kind[c] = [pc |-> kind[c].pc, todo |-> kind[c].todo, had |-> kind[c].had]
        /\ kind[c].todo \subseteq NodesOf(c)
    BY <1>0, Zenon DEF KindInv, ClusterInv
  <1>2. ASSUME NEW pc PROVE [kind EXCEPT ![c].pc = pc]
                            = [kind EXCEPT ![c] = [pc |-> pc, todo |-> kind[c].todo, had |-> kind[c].had]]
    <2>1. [kind[c] EXCEPT !.pc = pc] = [pc |-> pc, todo |-> kind[c].todo, had |-> kind[c].had]
      BY <1>1
    <2> QED  BY <2>1, Zenon
  <1>3. ASSUME node' = Unwaited(c)
        PROVE  /\ node' \in [DOMAIN Nodes -> {"none", "asked", "ok", "failed"}]
               /\ \A n \in DOMAIN Nodes \ NodesOf(c) : node'[n] = node[n]
               /\ \A n \in NodesOf(c) : node'[n] \in {"none", "asked"}
    BY <1>0, <1>1, <1>3, Zenon DEF Unwaited
  <1>4. CASE KindCreate(c)
    <2> DEFINE k == [pc |-> "run", todo |-> {}, had |-> {}]
    <2>1. /\ kind' = [kind EXCEPT ![c] = k] /\ haproxy' = haproxy
          /\ node' = [n \in DOMAIN Nodes |-> IF n \in NodesOf(c) THEN "asked" ELSE node[n]]
      <3>1. [NoKind EXCEPT !.pc = "run"] = k
        BY DEF NoKind
      <3> QED  BY <1>4, <3>1, Zenon DEF KindCreate
    <2>2. /\ node' \in [DOMAIN Nodes -> {"none", "asked", "ok", "failed"}]
          /\ \A n \in DOMAIN Nodes \ NodesOf(c) : node'[n] = node[n]
          /\ \A n \in NodesOf(c) : node'[n] = "asked"
      BY <1>0, <1>1, <2>1, Zenon
    <2>3. k.pc = "run" /\ k.todo = {} /\ k.had = {} /\ k = [pc |-> k.pc, todo |-> k.todo, had |-> k.had]
      BY Zenon
    <2> HIDE DEF k
    <2> QED  BY <1>0, <1>1, <2>1, <2>2, <2>3, KindStep, Zenon
  <1>5. CASE KindCreated(c)
    <2> DEFINE k == [pc |-> IF HasBalancer(c) THEN "balance" ELSE "up", todo |-> kind[c].todo, had |-> kind[c].had]
    <2>1. kind' = [kind EXCEPT ![c] = k] /\ haproxy' = haproxy /\ node' = Unwaited(c)
      BY <1>2, <1>5, Zenon DEF KindCreated
    <2>2. \A n \in NodesOf(c) : n \in DOMAIN insts /\ "own" \in insts[n].net
      BY <1>0, <1>5, Zenon DEF KindCreated, NodeInv
    <2>3. /\ k.pc \in {"balance", "up"} /\ (k.pc = "up" => ~HasBalancer(c))
          /\ k.todo = kind[c].todo /\ k = [pc |-> k.pc, todo |-> k.todo, had |-> k.had]
      BY Zenon
    <2> HIDE DEF k
    <2> QED  BY <1>0, <1>1, <1>3, <2>1, <2>2, <2>3, KindStep, Zenon
  <1>6. CASE KindBalances(c)
    <2>1. node' = node /\ kind[c].pc = "balance" /\ \A n \in NodesOf(c) : node'[n] \in {"none", "asked"}
      BY <1>0, <1>1, <1>6, Zenon DEF KindBalances, NodeInv
    <2>2. CASE haproxy' = [haproxy EXCEPT ![c] = <<HaproxyBackends(c)>>] /\ kind' = [kind EXCEPT ![c].pc = "up"]
      <3> DEFINE k == [pc |-> "up", todo |-> kind[c].todo, had |-> kind[c].had]
      <3>1. kind' = [kind EXCEPT ![c] = k]
        BY <1>2, <2>2, Zenon
      <3>2. \A n \in NodesOf(c) : n \in DOMAIN insts /\ "own" \in insts[n].net
        BY <1>0, <2>1, Zenon DEF NodeInv
      <3>3. /\ haproxy' = [d \in KindNames |-> haproxy'[d]]
            /\ \A d \in KindNames \ {c} : haproxy'[d] = haproxy[d]
            /\ haproxy'[c] = <<HaproxyBackends(c)>>
        BY <1>1, <2>2, Zenon
      <3>4. Served(c)'
        BY <3>2, <3>3, Backends, Zenon DEF Served, NodesOf
      <3>5. k.pc = "up" /\ k.todo = kind[c].todo /\ k = [pc |-> k.pc, todo |-> k.todo, had |-> k.had]
        BY Zenon
      <3> HIDE DEF k
      <3> QED  BY <1>0, <1>1, <2>1, <3>1, <3>3, <3>4, <3>5, KindStep, Zenon
    <2>3. CASE kind' = [kind EXCEPT ![c].pc = "list"] /\ haproxy' = haproxy
      <3> DEFINE k == [pc |-> "list", todo |-> kind[c].todo, had |-> kind[c].had]
      <3>1. kind' = [kind EXCEPT ![c] = k]
        BY <1>2, <2>3, Zenon
      <3>2. k.pc = "list" /\ k.todo = kind[c].todo /\ k = [pc |-> k.pc, todo |-> k.todo, had |-> k.had]
        BY Zenon
      <3> HIDE DEF k
      <3> QED  BY <1>0, <1>1, <2>1, <2>3, <3>1, <3>2, KindStep, Zenon
    <2> QED  BY <1>6, <2>2, <2>3, Zenon DEF KindBalances
  <1>7. CASE KindDeletes(c)
    <2> DEFINE k == [pc |-> "list", todo |-> kind[c].todo, had |-> kind[c].had]
    <2>1. /\ kind' = [kind EXCEPT ![c] = k] /\ node' = Unwaited(c)
          /\ haproxy' = [haproxy EXCEPT ![c] = <<>>]
      BY <1>2, <1>7, Zenon DEF KindDeletes
    <2>2. /\ haproxy' = [d \in KindNames |-> haproxy'[d]]
          /\ \A d \in KindNames \ {c} : haproxy'[d] = haproxy[d]
      BY <1>1, <2>1, Zenon
    <2>3. k.pc = "list" /\ k.todo = kind[c].todo /\ k = [pc |-> k.pc, todo |-> k.todo, had |-> k.had]
      BY Zenon
    <2> HIDE DEF k
    <2> QED  BY <1>0, <1>1, <1>3, <2>1, <2>2, <2>3, KindStep, Zenon
  <1>8. CASE KindLists(c)
    <2>1. /\ node' = node /\ haproxy' = haproxy
          /\ \A n \in NodesOf(c) : node'[n] \in {"none", "asked"}
      BY <1>0, <1>1, <1>8, Zenon DEF KindLists, NodeInv
    <2>2. PICK k : /\ kind' = [kind EXCEPT ![c] = k]
                   /\ \/ k = [pc |-> "rm", todo |-> DockerPs(c),
                              had |-> {n \in NodesOf(c) : Exists(n) /\ node[n] # "asked"}]
                      \/ k = [pc |-> "failed", todo |-> {}, had |-> {}]
      BY <1>8, Zenon DEF KindLists, NoKind
    <2>3. /\ k = [pc |-> k.pc, todo |-> k.todo, had |-> k.had]
          /\ k.pc \in {"rm", "failed"}
          /\ k.todo \subseteq NodesOf(c)
          /\ k.pc = "rm" => /\ k.todo = DockerPs(c)
                            /\ k.had = {n \in NodesOf(c) : n \in DOMAIN insts /\ node[n] # "asked"}
      BY <2>2, PsNodes DEF Exists
    <2>4. k.pc = "rm" => \A n \in k.had : /\ n \in NodesOf(c) /\ node'[n] # "asked" /\ n \notin DOMAIN pending
                                          /\ n \in k.todo
      BY <2>1, <2>3, PsNodes, SMTT(30) DEF InstsInv
    <2> QED  BY <1>0, <1>1, <2>1, <2>2, <2>3, <2>4, KindStep, Zenon
  <1> QED  BY <1>0, <1>4, <1>5, <1>6, <1>7, <1>8, Zenon

\* docker rm removes nodes of the cluster that kind deletes.
LEMMA RemovesKept ==
  ASSUME InstsInv, KindInv, spec' = spec, NEW c \in KindNames, KindRemoves(c)
  PROVE  /\ InstsInv' /\ KindInv'
         /\ \A n \in DOMAIN insts \ DOMAIN insts' : n \in NodesOf(c) /\ kind[c].pc = "rm"
PROOF
  <1>0. /\ UNCHANGED <<server, kiniEnv, node, haproxy>> /\ kind[c].pc = "rm"
        /\ ClusterInv(c) /\ \A n \in NodesOf(c) : NodeInv(n) /\ Nodes[n].cluster = c /\ n \in DOMAIN Nodes
    BY Zenon DEF KindRemoves, KindInv, NodesOf
  <1>1. /\ kind = [d \in KindNames |-> kind[d]]
        /\ haproxy = [d \in KindNames |-> haproxy[d]]
        /\ node \in [DOMAIN Nodes -> {"none", "asked", "ok", "failed"}]
        /\ kind[c] = [pc |-> "rm", todo |-> kind[c].todo, had |-> kind[c].had]
        /\ kind[c].todo \subseteq NodesOf(c)
        /\ \A n \in NodesOf(c) : node[n] \in {"none", "asked"}
    BY <1>0, ZenonT(30) DEF KindInv, ClusterInv, NodeInv
  <1>2. ASSUME UNCHANGED <<insts, pending>>, NEW k, kind' = [kind EXCEPT ![c] = k],
               k = [pc |-> k.pc, todo |-> k.todo, had |-> k.had],
               \/ k.pc = "gone" /\ k.todo = {} /\ k.todo = kind[c].todo /\ k.had = kind[c].had
               \/ k.pc = "failed" /\ k.todo = {}
        PROVE  InstsInv' /\ KindInv'
    <2>1. k.pc = "gone" => \A n \in k.had : /\ n \in NodesOf(c) /\ node'[n] # "asked" /\ n \notin DOMAIN pending
                                            /\ n \in DOMAIN insts => n \in k.todo
      BY <1>0, <1>2, Zenon DEF ClusterInv
    <2> QED  BY <1>0, <1>1, <1>2, <2>1, KindStep, Zenon
  <1>3. CASE kind[c].todo = {} /\ kind' = [kind EXCEPT ![c].pc = "gone"] /\ UNCHANGED <<insts, pending>>
    <2> DEFINE k == [pc |-> "gone", todo |-> kind[c].todo, had |-> kind[c].had]
    <2>1. kind' = [kind EXCEPT ![c] = k]
      <3>1. [kind[c] EXCEPT !.pc = "gone"] = k
        BY <1>1
      <3> QED  BY <1>3, <3>1, Zenon
    <2>2. k.pc = "gone" /\ k.todo = kind[c].todo /\ k.had = kind[c].had
          /\ k = [pc |-> k.pc, todo |-> k.todo, had |-> k.had]
      BY Zenon
    <2> HIDE DEF k
    <2> QED  BY <1>2, <1>3, <2>1, <2>2, Zenon
  <1>4. ASSUME NEW name \in kind[c].todo, Delete(name, "error"), kind' = [kind EXCEPT ![c] = [NoKind EXCEPT !.pc = "failed"]]
        PROVE  InstsInv' /\ KindInv' /\ insts' = insts
    <2> DEFINE k == [pc |-> "failed", todo |-> {}, had |-> {}]
    <2>1. kind' = [kind EXCEPT ![c] = k] /\ UNCHANGED <<insts, pending>>
      <3>1. [NoKind EXCEPT !.pc = "failed"] = k
        BY DEF NoKind
      <3> QED  BY <1>4, <3>1, Zenon DEF Delete
    <2>2. k.pc = "failed" /\ k.todo = {} /\ k = [pc |-> k.pc, todo |-> k.todo, had |-> k.had]
      BY Zenon
    <2> HIDE DEF k
    <2> QED  BY <1>2, <2>1, <2>2, Zenon
  <1>5. ASSUME NEW name \in kind[c].todo, Delete(name, "ok"),
               kind' = [kind EXCEPT ![c] = [kind[c] EXCEPT !.todo = kind[c].todo \ {name}]]
        PROVE  InstsInv' /\ KindInv' /\ \A n \in DOMAIN insts \ DOMAIN insts' : n = name
    <2> DEFINE k == [pc |-> "rm", todo |-> kind[c].todo \ {name}, had |-> kind[c].had]
    <2>1. insts' = Without(insts, name) /\ pending' = pending
      BY <1>5, Zenon DEF Delete
    <2>2. kind' = [kind EXCEPT ![c] = k]
      <3>1. [kind[c] EXCEPT !.todo = kind[c].todo \ {name}] = k
        BY <1>1
      <3> QED  BY <1>5, <3>1, Zenon
    <2>3. k.pc = "rm" /\ k.todo = kind[c].todo \ {name} /\ k.had = kind[c].had
          /\ k = [pc |-> k.pc, todo |-> k.todo, had |-> k.had]
      BY Zenon
    <2> HIDE DEF k
    <2>4. /\ kind' = [d \in KindNames |-> kind'[d]] /\ kind'[c] = k
          /\ \A d \in KindNames \ {c} : kind'[d] = kind[d]
      BY <1>1, <2>2, Zenon
    <2>5. DOMAIN insts' = DOMAIN insts \ {name} /\ \A n \in DOMAIN insts' : insts'[n] = insts[n]
      BY <2>1, Zenon DEF Without
    <2>6. InstsInv'
      BY <1>0, <2>1, Zenon DEF InstsInv, Without
    <2>7. ASSUME NEW d \in KindNames PROVE ClusterInv(d)'
      <3>1. ClusterInv(d)
        BY Zenon DEF KindInv
      <3>2. CASE d = c
        BY <1>0, <1>1, <2>1, <2>3, <2>4, <2>5, <3>1, <3>2, Zenon DEF ClusterInv, HasBalancer, NodesOf, Served
      <3>3. CASE d # c
        BY <1>0, <2>1, <2>4, <2>5, <3>1, <3>3, Zenon DEF ClusterInv, HasBalancer, NodesOf, Served
      <3> QED  BY <3>2, <3>3, Zenon
    <2>8. ASSUME NEW n \in DOMAIN Nodes PROVE NodeInv(n)'
      <3>1. NodeInv(n) /\ Nodes[n].cluster \in KindNames
        BY NodesAssumption, Zenon DEF KindInv
      <3>2. CASE n \in NodesOf(c)
        BY <1>0, <1>1, <2>3, <2>4, <3>2, Zenon DEF NodeInv
      <3>3. CASE n \notin NodesOf(c)
        <4>1. Nodes[n].cluster # c /\ n # name
          BY <1>1, <1>5, <3>3, Zenon DEF NodesOf
        <4> QED  BY <1>0, <2>4, <2>5, <3>1, <4>1, Zenon DEF NodeInv
      <3> QED  BY <3>2, <3>3, Zenon
    <2> QED  BY <1>0, <1>1, <2>4, <2>5, <2>6, <2>7, <2>8, Zenon DEF KindInv
  <1>6. CASE \E name \in kind[c].todo : DockerRm(c, name)
    <2>1. PICK name \in kind[c].todo : DockerRm(c, name)
      BY <1>6, Zenon
    <2>2. \/ /\ Delete(name, "ok")
             /\ kind' = [kind EXCEPT ![c] = [kind[c] EXCEPT !.todo = kind[c].todo \ {name}]]
          \/ /\ Delete(name, "error")
             /\ kind' = [kind EXCEPT ![c] = [NoKind EXCEPT !.pc = "failed"]]
      <3>1. PICK result \in {"ok", "error"} :
               /\ Delete(name, result)
               /\ kind' = [kind EXCEPT ![c] =
                              IF result = "ok" THEN [kind[c] EXCEPT !.todo = kind[c].todo \ {name}]
                              ELSE [NoKind EXCEPT !.pc = "failed"]]
        BY <2>1, Zenon DEF DockerRm
      <3>2. CASE result = "ok"
        BY <3>1, <3>2, Zenon
      <3>3. CASE result = "error"
        BY <3>1, <3>3, Zenon
      <3> QED  BY <3>1, <3>2, <3>3, Zenon
    <2>3. name \in NodesOf(c)
      BY <1>1, Zenon
    <2> QED  BY <1>0, <1>4, <1>5, <2>2, <2>3, Zenon
  <1> QED  BY <1>0, <1>3, <1>6, Zenon DEF KindRemoves

-----------------------------------------------------------------------------
\* All of it

Inv == InstsInv /\ MachineInv /\ VMsAreLaunchable /\ KindInv /\ CacheInv

\* What RemovesItsOwn says of a step.
RemovalStep ==
    \A n \in DOMAIN insts \ DOMAIN insts' :
        \/ /\ insts[n].by \in DOMAIN Nodes
           /\ kind[Nodes[n].cluster].pc = "rm"
        \/ /\ insts[n].by \in MachineNames
           /\ \E m \in MachineNames : Machines[m].name = n /\ res[m] # "none" /\ res'[m] = "none"

\* The initial states satisfy the invariant.
LEMMA InitInv == Init => Inv
PROOF
  <1> SUFFICES ASSUME Init PROVE Inv
    BY Zenon
  <1>1. server.name \in ServerNames
    <2>1. CASE server = [name |-> "incus", oci |-> TRUE, tmpfs |-> TRUE]
      BY <2>1, Zenon DEF ServerNames
    <2>2. CASE server \in [name : {"incus", "lxd", "unknown"}, oci : {FALSE}, tmpfs : {FALSE}]
      BY <2>2, Zenon DEF ServerNames
    <2>3. CASE server \in [name : {"incus"}, oci : {TRUE}, tmpfs : {FALSE}]
      BY <2>3, Zenon DEF ServerNames
    <2> QED  BY <2>1, <2>2, <2>3, Zenon DEF Init, ServerInit
  <1>2. InstsInv
    <2>1. DOMAIN EmptyMap = {} /\ EmptyMap = [n \in DOMAIN EmptyMap |-> EmptyMap[n]]
      BY Zenon DEF EmptyMap
    <2> QED  BY <1>1, <2>1, Zenon DEF Init, ServerInit, InstsInv
  <1>3. MachineInv /\ VMsAreLaunchable
    <2>1. /\ \A m \in MachineNames : spec[m] \in Specs[m]
          /\ res = [m \in MachineNames |-> "none"]
      BY Zenon DEF Init, MachineInit
    <2> QED  BY <2>1, Zenon DEF MachineInv, VMsAreLaunchable
  <1>4. KindInv
    <2>1. /\ node = [n \in DOMAIN Nodes |-> "none"]
          /\ kind = [c \in KindNames |-> [pc |-> "none", todo |-> {}, had |-> {}]]
          /\ haproxy = [c \in KindNames |-> <<>>]
      BY Zenon DEF Init, KiniInit, NoKind
    <2>2. \A c \in KindNames : ClusterInv(c)
      BY <2>1, Zenon DEF ClusterInv
    <2>3. \A n \in DOMAIN Nodes : NodeInv(n)
      BY <2>1, NodesAssumption, Zenon DEF NodeInv
    <2> QED  BY <2>1, <2>2, <2>3, Zenon DEF KindInv
  <1> QED  BY <1>2, <1>3, <1>4, InitCache, Zenon DEF Inv, Init

\* Every step keeps the invariant, and removes an instance only for its own sake.
LEMMA NextInv ==
  ASSUME Inv, Next
  PROVE  Inv' /\ RemovalStep
PROOF
  <1>0. InstsInv /\ MachineInv /\ VMsAreLaunchable /\ KindInv /\ CacheInv /\ server.name \in ServerNames
    BY Zenon DEF Inv, InstsInv
  <1>1. ASSUME DOMAIN insts \subseteq DOMAIN insts' PROVE RemovalStep
    BY <1>1, Zenon DEF RemovalStep
  <1>2. ASSUME UNCHANGED <<load, cached, loaded>> PROVE CacheInv'
    BY <1>0, <1>2, Zenon DEF CacheInv, FileInv
  <1>3. ASSUME UNCHANGED <<spec, res>> PROVE MachineInv'
    BY <1>0, <1>3, Zenon DEF MachineInv
  <1>4. ASSUME UNCHANGED <<spec, res, server>> PROVE VMsAreLaunchable'
    BY <1>0, <1>4, Zenon DEF VMsAreLaunchable
  <1>5. CASE Machinery
    <2>1. UNCHANGED kiniVars /\ UNCHANGED <<load, cached, loaded>>
      BY <1>5, Zenon DEF Machinery, kiniVars, cacheVars
    <2>2. ASSUME NEW m \in MachineNames, LaunchMachine(m) PROVE Inv' /\ RemovalStep
      BY <1>0, <1>1, <1>2, <2>1, <2>2, LaunchMachineKept, VMKept, Zenon DEF Inv
    <2>3. ASSUME NEW m \in MachineNames, DeleteMachine(m) PROVE Inv' /\ RemovalStep
      <3>1. /\ InstsInv' /\ KindInv' /\ MachineInv'
            /\ \A n \in DOMAIN insts \ DOMAIN insts' : n = Machines[m].name
            /\ res[m] # "none" /\ res'[m] = "none"
        BY <1>0, <2>1, <2>3, DeleteMachineKept, Zenon
      <3>2. VMsAreLaunchable'
        <4>1. UNCHANGED <<spec, server>> /\ \A k \in MachineNames : res'[k] = IF k = m THEN "none" ELSE res[k]
          BY <1>0, <2>3, Zenon DEF DeleteMachine, MachineInv
        <4> QED  BY <1>0, <4>1, Zenon DEF VMsAreLaunchable
      <3>3. RemovalStep
        <4>1. ASSUME NEW n \in DOMAIN insts \ DOMAIN insts' PROVE insts[n].by \in MachineNames /\ n = Machines[m].name
          BY <1>0, <3>1, OwnerByName DEF InstsInv, MachineRecord
        <4> QED  BY <3>1, <4>1, Zenon DEF RemovalStep
      <3> QED  BY <1>2, <2>1, <3>1, <3>2, <3>3, Zenon DEF Inv
    <2>4. ASSUME NEW c \in DOMAIN Clusters, LaunchLoadBalancer(c) PROVE Inv' /\ RemovalStep
      <3>1. UNCHANGED <<spec, res, server>>
        BY <2>4, Zenon DEF LaunchLoadBalancer, machineVars
      <3> QED  BY <1>0, <1>1, <1>2, <1>4, <2>1, <2>4, <3>1, LaunchLoadBalancerKept, Zenon DEF Inv
    <2>5. ASSUME NEW n \in DOMAIN insts, GuestAddress(n) PROVE Inv' /\ RemovalStep
      <3>1. UNCHANGED <<spec, res, server>>
        BY <2>5, Zenon DEF GuestAddress, machineVars
      <3> QED  BY <1>0, <1>1, <1>2, <1>4, <2>1, <2>5, <3>1, GuestKept, Zenon DEF Inv
    <2> QED  BY <1>5, <2>2, <2>3, <2>4, <2>5, Zenon DEF Machinery, MachineNext
  <1>6. CASE Kinis
    <2>1. KiniNext /\ UNCHANGED <<spec, res>>
      BY <1>6, Zenon DEF Kinis, machineVars
    <2>2. server' = server
      BY <2>1, Zenon DEF KiniNext, DockerRun, KindCreate, KindCreated, KindBalances, KindDeletes, KindLists, KindRemoves,
                  DockerLoad, LoadScan, LoadCreate, LoadCopy, DockerSave, projectVars
    <2>3. MachineInv' /\ VMsAreLaunchable' /\ CacheInv'
      BY <1>0, <1>3, <1>4, <2>1, <2>2, CacheKept, Zenon
    <2>4. ASSUME NEW n \in DOMAIN Nodes, DockerRun(n) PROVE InstsInv' /\ KindInv' /\ RemovalStep
      BY <1>0, <1>1, <2>1, <2>4, DockerRunKept, Zenon
    <2>5. ASSUME NEW c \in KindNames,
                 KindCreate(c) \/ KindCreated(c) \/ KindBalances(c) \/ KindDeletes(c) \/ KindLists(c)
          PROVE  InstsInv' /\ KindInv' /\ RemovalStep
      BY <1>0, <1>1, <2>1, <2>5, KindKept, Zenon
    <2>6. ASSUME NEW c \in KindNames, KindRemoves(c) PROVE InstsInv' /\ KindInv' /\ RemovalStep
      <3>1. /\ InstsInv' /\ KindInv'
            /\ \A n \in DOMAIN insts \ DOMAIN insts' : n \in NodesOf(c) /\ kind[c].pc = "rm"
        BY <1>0, <2>1, <2>6, RemovesKept, Zenon
      <3>2. ASSUME NEW n \in DOMAIN insts \ DOMAIN insts'
            PROVE  insts[n].by \in DOMAIN Nodes /\ kind[Nodes[n].cluster].pc = "rm"
        BY <1>0, <3>1, OwnerByName, SMTT(30) DEF InstsInv, NodeRecord, NodesOf
      <3> QED  BY <3>1, <3>2, Zenon DEF RemovalStep
    <2>7. ASSUME UNCHANGED <<projectVars, kindVars>> PROVE InstsInv' /\ KindInv' /\ RemovalStep
      BY <1>0, <1>1, <2>1, <2>7, SMTT(30) DEF projectVars, kindVars, InstsInv, KindInv, ClusterInv, NodeInv, Served
    <2> QED
      BY <2>1, <2>3, <2>4, <2>5, <2>6, <2>7, Zenon
      DEF Inv, KiniNext, DockerLoad, LoadScan, LoadCreate, LoadCopy, DockerSave
  <1>7. CASE Late
    <2>1. UNCHANGED <<spec, res, server>> /\ UNCHANGED <<load, cached, loaded>>
      BY <1>7, Zenon DEF Late, machineVars, kiniVars, cacheVars
    <2> QED  BY <1>0, <1>1, <1>2, <1>4, <1>7, <2>1, LateKept, Zenon DEF Inv
  <1> QED  BY <1>5, <1>6, <1>7, Zenon DEF Next

\* The invariant holds in every reachable state.
LEMMA SpecInv == Spec => []Inv
PROOF
  <1>1. ASSUME Inv, UNCHANGED vars PROVE Inv'
    <2> USE <1>1 DEF vars, projectVars, machineVars, kiniVars, kindVars, cacheVars
    <2>1. InstsInv' /\ MachineInv' /\ VMsAreLaunchable'
      BY Zenon DEF Inv, InstsInv, MachineInv, VMsAreLaunchable
    <2>2. KindInv'
      BY Zenon DEF Inv, KindInv, ClusterInv, NodeInv, Served
    <2>3. CacheInv'
      BY Zenon DEF Inv, CacheInv, FileInv
    <2> QED  BY <2>1, <2>2, <2>3, Zenon DEF Inv
  <1>2. Inv /\ [Next]_vars => Inv'
    BY <1>1, NextInv, Zenon
  <1> QED  BY InitInv, <1>2, PTL DEF Spec

-----------------------------------------------------------------------------
\* What docker save writes for a tag is what was loaded for it last; after a load
\* that was cut short it is the image of the registry, neither a part of an image
\* nor an older one (docker_image_load.go, docker_image_save.go).
THEOREM SavesWhatWasLoaded == Spec => SavedIsLoaded
PROOF
  <1>1. ASSUME Inv, [Next]_vars, shipped' # shipped
        PROVE  shipped'[1].content =
                   IF loaded[shipped'[1].tag] = <<>> THEN "remote" ELSE loaded[shipped'[1].tag][1].content
    <2>1. KiniNext
      BY <1>1, Zenon DEF Next, Machinery, Kinis, Late, vars, kiniVars, cacheVars
    <2> QED  BY <1>1, <2>1, SaveStep, Zenon DEF Inv
  <1>2. Inv /\ [Next]_vars =>
          [shipped' # shipped =>
              LET t == shipped'[1].tag IN
              shipped'[1].content = IF loaded[t] = <<>> THEN "remote" ELSE loaded[t][1].content]_kiniVars
    BY <1>1, Zenon
  <1> QED  BY SpecInv, <1>2, PTL DEF Spec, SavedIsLoaded

\* No launcher removes an instance of the other or a load balancer: this follows
\* from names and labels that ApartAssumption keeps apart.
LEMMA RemovesOnlyItsOwn == Spec => RemovesItsOwn
PROOF
  <1>1. ASSUME Inv, [Next]_vars PROVE RemovalStep \/ UNCHANGED vars
    BY <1>1, NextInv, Zenon
  <1>2. Inv /\ [Next]_vars =>
          [\A n \in DOMAIN insts \ DOMAIN insts' :
              \/ /\ insts[n].by \in DOMAIN Nodes
                 /\ kind[Nodes[n].cluster].pc = "rm"
              \/ /\ insts[n].by \in MachineNames
                 /\ \E m \in MachineNames : Machines[m].name = n /\ res[m] # "none" /\ res'[m] = "none"]_vars
    BY <1>1, Zenon DEF RemovalStep
  <1> QED  BY SpecInv, <1>2, PTL DEF Spec, RemovesItsOwn

\* A node goes only while kind deletes the cluster it was run for: what docker ps
\* lists by the cluster label is what docker run labelled, also for nodes that
\* appeared after their docker run had failed (docker_ps.go, docker_rm.go).
THEOREM NodesGoWithTheirCluster ==
    Spec => [][\A n \in DOMAIN insts \ DOMAIN insts' :
                  insts[n].by \in DOMAIN Nodes => kind[Nodes[n].cluster].pc = "rm"]_vars
PROOF
  <1>1. ASSUME Inv, [Next]_vars PROVE RemovalStep \/ UNCHANGED vars
    BY <1>1, NextInv, Zenon
  <1>2. Inv /\ [Next]_vars =>
          [\A n \in DOMAIN insts \ DOMAIN insts' :
              insts[n].by \in DOMAIN Nodes => kind[Nodes[n].cluster].pc = "rm"]_vars
    BY <1>1, ApartAssumption, Zenon DEF RemovalStep
  <1> QED  BY SpecInv, <1>2, PTL DEF Spec

\* A cluster that kind reports as deleted has lost every node that was there when
\* its nodes were listed (docker_ps.go, docker_rm.go).
THEOREM ClustersAreRemoved == Spec => []ClusterIsRemoved
PROOF
  <1>1. Inv => ClusterIsRemoved
    BY Zenon DEF Inv, KindInv, ClusterInv, ClusterIsRemoved
  <1> QED  BY SpecInv, <1>1, PTL

\* A cluster that is reported as created has all its control plane nodes behind
\* its load balancer, and nothing else (docker_exec.go).
THEOREM BalancersServeAll == Spec => []BalancerServesAll
PROOF
  <1>1. Inv => BalancerServesAll
    BY Zenon DEF Inv, KindInv, ClusterInv, Served, BalancerServesAll
  <1> QED  BY SpecInv, <1>1, PTL

\* A virtual machine is not refused for what the provider itself put into its
\* options (launch_options.go, complete).
THEOREM VMsCanBeLaunched == Spec => []VMsAreLaunchable
PROOF
  <1>1. Inv => VMsAreLaunchable
    BY Zenon DEF Inv
  <1> QED  BY SpecInv, <1>1, PTL

\* No two templates of an instance are stored under the same name
\* (client_instances.go).
THEOREM TemplatesStayApart == Spec => []TemplatesAreApart
PROOF
  <1>1. \A t, u \in AllTemplates : t[2] = u[2] => t = u
    BY DEF AllTemplates, LxcTemplates
  <1>2. Inv => TemplatesAreApart
    BY <1>1, Zenon DEF Inv, InstsInv, Owned, TemplatesAreApart
  <1> QED  BY SpecInv, <1>2, PTL

\* A node runs what was asked for, whichever mode each docker run finds: as an OCI
\* container the image itself, as an LXC instance the kubeadm image of the version in
\* the tag, unless the registry has a port (docker_run.go, env.go, oci_image.go).
THEOREM NodesRunTheirVersion == Spec => []NodesRunVersion
PROOF
  <1>1. ASSUME Inv, NEW n \in DOMAIN insts, insts[n].by \in DOMAIN Nodes
        PROVE  RunsVersion(n, insts[n].image, <<server, kiniEnv>>)
    BY <1>1, OwnerByName, Zenon DEF Inv, InstsInv, Owned, NodeRecord
  <1>2. ASSUME Inv, NEW n \in DOMAIN insts, insts[n].by \in DOMAIN Nodes
        PROVE  LET asked == Nodes[n].image
                   image == insts[n].image
               IN  /\ IF image.protocol = "oci" THEN image.server = asked.registry /\ image.alias = Alias(asked)
                      ELSE image.alias = <<"kubeadm", Tag(asked)>>
                   /\ kiniEnv.mode # Unset /\ IsNode(n) =>
                         image = IF kiniEnv.mode = "oci" THEN OCIOf(asked.registry, Alias(asked))[server.name]
                                 ELSE CapnImage(<<"kubeadm", Tag(asked)>>)[server.name]
    BY <1>1, <1>2, Zenon DEF RunsVersion
  <1>3. ASSUME NEW n \in DOMAIN Nodes, kiniEnv.mode # Unset
        PROVE  \A secondClient \in BOOLEAN :
                  PulledImage(n, KindInstances(secondClient))
                    = IF kiniEnv.mode = "oci" THEN OCIOf(Nodes[n].image.registry, Alias(Nodes[n].image))[server.name]
                      ELSE CapnImage(<<"kubeadm", Tag(Nodes[n].image)>>)[server.name]
    BY <1>3, Zenon DEF PulledImage, KindInstances
  <1>4. ASSUME NEW n \in DOMAIN Nodes, Nodes[n].image.port = Unset, Nodes[n].image.tag # Unset
        PROVE  Tag(Nodes[n].image) = <<Nodes[n].image.tag>>
    BY <1>4, Zenon DEF Tag
  <1>6. ASSUME Inv, NEW n \in DOMAIN insts, insts[n].by \in DOMAIN Nodes
        PROVE  n \in DOMAIN Nodes
    BY <1>6, OwnerByName, Zenon DEF Inv, InstsInv, Owned, NodeRecord
  <1>7. ASSUME Inv, NEW n \in DOMAIN insts, insts[n].by \in DOMAIN Nodes
        PROVE  LET asked == Nodes[n].image
                   image == insts[n].image
               IN  /\ IF image.protocol = "oci" THEN image.server = asked.registry /\ image.alias = Alias(asked)
                      ELSE asked.port = Unset /\ asked.tag # Unset => image.alias = <<"kubeadm", <<asked.tag>>>>
                   /\ kiniEnv.mode # Unset /\ IsNode(n) =>
                         \A secondClient \in BOOLEAN : image = PulledImage(n, KindInstances(secondClient))
    <2> DEFINE asked == Nodes[n].image
               image == insts[n].image
    <2>1. n \in DOMAIN Nodes
      BY <1>6, <1>7, Zenon
    <2>2. IF image.protocol = "oci" THEN image.server = asked.registry /\ image.alias = Alias(asked)
          ELSE asked.port = Unset /\ asked.tag # Unset => image.alias = <<"kubeadm", <<asked.tag>>>>
      BY <1>2, <1>4, <1>7, <2>1, Zenon
    <2>3. kiniEnv.mode # Unset /\ IsNode(n) =>
              \A secondClient \in BOOLEAN : image = PulledImage(n, KindInstances(secondClient))
      BY <1>2, <1>3, <1>7, <2>1, Zenon
    <2> QED  BY <2>2, <2>3, Zenon
  <1>5. Inv => NodesRunVersion
    BY <1>7, Zenon DEF NodesRunVersion, Alias
  <1> QED  BY SpecInv, <1>5, PTL

\* The instance of a machine runs the image that the API reference says its image
\* name stands for, or the default image of its version; a launch that was retried,
\* and a creation that ends late, included (controller_util_launch.go).
THEOREM ImagesAreDocumented == Spec => []ImageIsDocumented
PROOF
  <1>1. ASSUME Inv, NEW n \in DOMAIN insts, insts[n].by \in MachineNames,
               spec[insts[n].by].image.fingerprint = Unset
        PROVE  <<insts[n].image.protocol, insts[n].image.server, insts[n].image.alias>> = Documented(spec[insts[n].by], server.name)
    <2>1. MachineRecord(n, insts[n], <<server, kiniEnv>>, spec)
      BY <1>1, OwnerByName, Zenon DEF Inv, InstsInv, Owned
    <2> QED  BY <1>1, <2>1, Zenon DEF MachineRecord
  <1>2. Inv => ImageIsDocumented
    BY <1>1, Zenon DEF ImageIsDocumented
  <1> QED  BY SpecInv, <1>2, PTL

\* The backends of a cluster's load balancer are its own control plane instances,
\* at their own addresses (util.go, client_parse_addresses.go).
THEOREM BackendsAreOwn == Spec => []OwnControlPlane
PROOF
  <1>1. ASSUME Inv, NEW c \in DOMAIN Clusters
        PROVE  BackendServers(ListWithConfig(ControlPlaneFilter(c))) =
                  {[name |-> n, address |-> "own"] : n \in
                      {k \in DOMAIN insts : /\ insts[k].by \in MachineNames
                                            /\ Machines[insts[k].by].cp
                                            /\ Machines[insts[k].by].cluster = c
                                            /\ "own" \in insts[k].net}}
    <2> DEFINE mine == {k \in DOMAIN insts : /\ insts[k].by \in MachineNames
                                             /\ Machines[insts[k].by].cp
                                             /\ Machines[insts[k].by].cluster = c}
               Has(n, key, v) == Value(insts[n].config, key) = v
               listed == ListWithConfig(ControlPlaneFilter(c))
    <2>1. listed = {n \in DOMAIN insts : /\ Has(n, "user.cluster-name", Clusters[c].name)
                                         /\ Has(n, "user.cluster-namespace", Clusters[c].namespace)
                                         /\ Has(n, "user.cluster-role", "control-plane")}
      BY Zenon DEF ListWithConfig, ControlPlaneFilter, :>, @@
    <2>2. ASSUME NEW n \in DOMAIN insts PROVE n \in listed <=> n \in mine
      <3>1. Owned(n, insts[n], <<server, kiniEnv>>, spec)
        BY <1>1, Zenon DEF Inv, InstsInv
      <3>2. CASE MachineRecord(n, insts[n], <<server, kiniEnv>>, spec)
        <4> DEFINE m == insts[n].by
        <4>1. /\ m \in MachineNames
              /\ Value(insts[n].config, "user.cluster-name") = ClusterOf(m).name
              /\ Value(insts[n].config, "user.cluster-namespace") = ClusterOf(m).namespace
              /\ Value(insts[n].config, "user.cluster-role") = IF Machines[m].cp THEN "control-plane" ELSE "worker"
          BY <3>2, IdentityKeys, SMTT(30) DEF MachineRecord
        <4>2. Machines[m].cluster \in DOMAIN Clusters
          BY <4>1, ClustersAssumption, Zenon
        <4> QED  BY <2>1, <4>1, <4>2, ClustersAssumption, SMTT(30) DEF ClusterOf
      <3>3. CASE NodeRecord(n, insts[n], <<server, kiniEnv>>)
        <4>1. Value(insts[n].config, "user.cluster-role") = Unset /\ insts[n].by \notin MachineNames
          BY <3>1, <3>3, OwnerByName, Zenon DEF NodeRecord
        <4>2. Unset # "control-plane"
          BY Zenon DEF Unset
        <4> QED  BY <2>1, <4>1, <4>2, Zenon
      <3>4. CASE BalancerRecord(n, insts[n])
        <4>1. Value(insts[n].config, "user.cluster-role") = "loadbalancer" /\ insts[n].by \notin MachineNames
          BY <3>1, <3>4, OwnerByName, Zenon DEF BalancerRecord
        <4> QED  BY <2>1, <4>1, Zenon
      <3> QED  BY <3>1, <3>2, <3>3, <3>4, Zenon DEF Owned
    <2>3. listed = mine
      BY <2>1, <2>2, Zenon
    <2>4. \A n \in mine : ParseHostAddresses(n) = {k \in {"own"} : k \in insts[n].net}
      BY <1>1, OwnAddress, Zenon DEF Inv
    <2>5. mine \subseteq DOMAIN insts
      BY Zenon
    <2>6. {k \in mine : "own" \in insts[k].net} =
             {k \in DOMAIN insts : /\ insts[k].by \in MachineNames
                                   /\ Machines[insts[k].by].cp
                                   /\ Machines[insts[k].by].cluster = c
                                   /\ "own" \in insts[k].net}
      BY Zenon
    <2> HIDE DEF mine, listed
    <2>7. BackendServers(mine) = {[name |-> n, address |-> "own"] : n \in {k \in mine : "own" \in insts[k].net}}
      BY <2>4, OwnServers, Zenon
    <2> QED  BY <2>3, <2>6, <2>7, Zenon DEF listed
  <1>2. Inv => OwnControlPlane
    BY <1>1, Zenon DEF OwnControlPlane
  <1> QED  BY SpecInv, <1>2, PTL
=============================================================================
