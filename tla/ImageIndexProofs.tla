-------------------------- MODULE ImageIndexProofs --------------------------
(***************************************************************************)
(* Lemmas about the imports of ImagePipeline: what every step of an import *)
(* keeps of the simplestreams directory, for any image files and flags,    *)
(* whatever fails.                                                         *)
(***************************************************************************)
EXTENDS ImagePipeline, TLAPS

JobRecords == [type : ImageTypes, path : Paths, alias : Aliases, incus : BOOLEAN, lxd : BOOLEAN]
JobLists == {<<j>> : j \in JobRecords} \cup {<<c, v>> : c \in JobRecords, v \in JobRecords}
TarCells == {<<>>} \cup {<<t>> : t \in Tarballs}
AliasRecords == [product : Names, alias : Aliases]
ItemsOf(t) == UNION {ContainerItems(t, s) \cup VirtualMachineItems(t, s) : s \in {"incus", "lxd"}}
AllItems == UNION {ItemsOf(t) : t \in Tarballs}

\* What an import has left to write, from the first file on.
ToCopy == <<"copy", "index", "images">>
ToRootfs == <<"rootfs", "meta", "index", "images">>
ToMeta == <<"meta", "index", "images">>
ToIndex == <<"index", "images">>
ToImages == <<"images">>
Todos == {<<>>, ToCopy, ToRootfs, ToMeta, ToIndex, ToImages}

ImpRecords ==
    [pc : {"idle", "import", "info", "write", "done", "failed"}, jobs : {<<>>} \cup JobLists,
     todo : Todos, past : SUBSET [job : JobRecords, tar : Tarballs], tar : TarCells,
     index : SUBSET Names, items : SUBSET AllItems, aliases : SUBSET AliasRecords]

\* The files of the directory, and what a command holds.
IndexTypes ==
    /\ local \in [Paths -> TarCells]
    /\ index \in [ok : BOOLEAN, products : SUBSET Names]
    /\ catalog \in [ok : BOOLEAN, items : SUBSET AllItems, aliases : SUBSET AliasRecords]
    /\ \A f \in stored : f = [path |-> f.path, bytes |-> f.bytes]
    /\ imp \in ImpRecords

\* Where an import can stand: a release is a container, then a virtual machine
\* with the same alias.
StandInv ==
    /\ Imports => imp.jobs \in JobLists
    /\ imp.pc = "import" => imp.todo = <<>>
    /\ imp.pc = "info" => imp.todo = <<>> /\ imp.tar # <<>> /\ Job.type = "container"
    /\ imp.pc = "write" =>
          /\ imp.tar # <<>>
          /\ imp.todo \in IF Job.type = "container" THEN {ToCopy, ToIndex, ToImages}
                                                    ELSE {ToRootfs, ToMeta, ToIndex, ToImages}
    /\ ~Imports => imp.todo = <<>>
    /\ Imports /\ Len(imp.jobs) = 2 =>
          /\ imp.past = {}
          /\ imp.jobs[1].type = "container" /\ imp.jobs[2].type = "virtual-machine"
          /\ imp.jobs[1].alias = imp.jobs[2].alias
    /\ Imports /\ imp.past # {} =>
          /\ Job.type = "virtual-machine"
          /\ \A p \in imp.past : p.job.type = "container" /\ p.job.alias = Job.alias

-----------------------------------------------------------------------------
\* The inductive invariant

\* Nothing writes to the other files.
LocalInv == \A p \in Paths \ {Output} : local[p] = Artifacts[p]

\* An import and an export of the same file have raced; until they have, an
\* import reads the same bytes each time.
RaceInv == Imports /\ Exporting /\ Shared => raced
RereadInv ==
    /\ imp.pc = "info" /\ ~raced => imp.tar = local[Job.path]
    /\ imp.pc = "write" /\ Job.type = "container" /\ ~raced =>
          local[Job.path] # <<>> /\ ContainerSha(local[Job.path][1]) = ContainerSha(Tarball)

\* images.json has one row for a key, on disk and in memory.
KeysInv ==
    /\ \A x, y \in catalog.items : Key(x) = Key(y) => x = y
    /\ \A x, y \in imp.items : Key(x) = Key(y) => x = y
    /\ \A f, g \in stored : f.path = g.path => f = g

\* index.json does not lag behind, and a rootfs has its metadata beside it.
HasMeta(items) ==
    \A x \in items : x.ftype = "disk" => \E y \in items : Key(y) = <<x.product, x.version, x.server, "meta">>
ShowInv ==
    /\ Imports => Readable
    /\ index.ok => \A x \in catalog.items : x.product \in index.products
    /\ HasMeta(catalog.items)
    /\ Imports => /\ index.products \subseteq imp.index
                  /\ \A x \in imp.items : x.product \in imp.index
                  /\ HasMeta(imp.items)
                  /\ imp.todo = ToImages => index.products = imp.index

\* The rows in memory are those of images.json until the import updates them,
\* and then differ in rows of its own product and version.
OthersInv ==
    /\ imp.pc \in {"import", "info"} => imp.items = catalog.items
    /\ imp.pc = "write" =>
          \A x \in catalog.items :
              \/ x \in imp.items
              \/ /\ x.product = Tarball.product /\ x.version = Tarball.version
                 /\ \E y \in imp.items : Key(y) = Key(x)

\* A container image that an import adds was whole when it was hashed.
WholeInv ==
    \A x \in imp.items \ catalog.items :
        x.ftype = "combined" => x.sha[3] \/ raced \/ ("output" \in residue /\ Imports /\ Shared)

\* The file of a row that the import still has to write.
NotYet(x) ==
    \/ x.ftype = "combined" /\ imp.todo = ToCopy
    \/ x.ftype = "disk" /\ imp.todo = ToRootfs
    \/ x.ftype = "meta" /\ imp.todo \in {ToRootfs, ToMeta}

\* Every row has its file.
Present(x) == \E f \in stored : f.path = x.path
PresentInv ==
    /\ \A x \in catalog.items : Present(x)
    /\ Imports =>
          \A x \in imp.items :
              Present(x) \/ (imp.pc = "write" /\ x \in NewItems(Job, Tarball) /\ NotYet(x))

\* What an import that has not raced has done so far.
Listed(p, products, aliases, items) ==
    /\ p.tar.product \in products
    /\ p.job.alias # Unset =>
          /\ [product |-> p.tar.product, alias |-> p.job.alias] \in aliases
          /\ \A a \in aliases : a.product = p.tar.product => a.alias = p.job.alias
    /\ NewItems(p.job, p.tar) \subseteq items
DoneInv ==
    ~raced =>
        /\ imp.pc = "done" =>
              \A p \in imp.past :
                  /\ Listed(p, index.products, catalog.aliases, catalog.items)
                  /\ \A x \in NewItems(p.job, p.tar) : Content(x.path) = {x.sha}
        /\ Imports =>
              \A p \in imp.past :
                  /\ Listed(p, imp.index, imp.aliases, imp.items)
                  /\ \A x \in NewItems(p.job, p.tar) : Content(x.path) = {x.sha}
        /\ imp.pc = "write" =>
              /\ Listed([job |-> Job, tar |-> Tarball], imp.index, imp.aliases, imp.items)
              /\ \A x \in NewItems(Job, Tarball) : Content(x.path) = {x.sha} \/ NotYet(x)

-----------------------------------------------------------------------------
\* Facts about the lists

\* A command has one job or two.
LEMMA JobListFacts ==
    ASSUME NEW jobs \in JobLists
    PROVE  /\ jobs # <<>> /\ Head(jobs) \in JobRecords /\ Head(jobs) = jobs[1]
           /\ Len(jobs) \in {1, 2} /\ 1 \in DOMAIN jobs
           /\ Len(jobs) = 2 => /\ Tail(jobs) \in JobLists /\ Len(Tail(jobs)) = 1 /\ jobs[2] \in JobRecords
                               /\ Head(Tail(jobs)) = jobs[2] /\ 2 \in DOMAIN jobs
  <1>1. CASE \E j \in JobRecords : jobs = <<j>>
    BY <1>1
  <1>2. CASE \E c, v \in JobRecords : jobs = <<c, v>>
    <2>1. PICK c \in JobRecords, v \in JobRecords : jobs = <<c, v>>
      BY <1>2, Zenon
    <2>2. Tail(jobs) = <<v>>
      BY <2>1
    <2> QED  BY <2>1, <2>2 DEF JobLists
  <1> QED  BY <1>1, <1>2 DEF JobLists

\* The first file left, and the rest.
LEMMA TodoFacts ==
    /\ Head(ToCopy) = "copy" /\ Tail(ToCopy) = ToIndex /\ Len(ToCopy) = 3
    /\ Head(ToRootfs) = "rootfs" /\ Tail(ToRootfs) = ToMeta /\ Len(ToRootfs) = 4
    /\ Head(ToMeta) = "meta" /\ Tail(ToMeta) = ToIndex /\ Len(ToMeta) = 3
    /\ Head(ToIndex) = "index" /\ Tail(ToIndex) = ToImages /\ Len(ToIndex) = 2
    /\ Head(ToImages) = "images" /\ Len(ToImages) = 1 /\ Len(<<>>) = 0
    /\ Order("container") = ToCopy /\ Order("virtual-machine") = ToRootfs
  <1>1. Head(ToCopy) = "copy" /\ Tail(ToCopy) = ToIndex /\ Len(ToCopy) = 3
    BY DEF ToCopy, ToIndex
  <1>2. Head(ToRootfs) = "rootfs" /\ Tail(ToRootfs) = ToMeta /\ Len(ToRootfs) = 4
    BY DEF ToRootfs, ToMeta
  <1>3. Head(ToMeta) = "meta" /\ Tail(ToMeta) = ToIndex /\ Len(ToMeta) = 3
    BY DEF ToMeta, ToIndex
  <1>4. Head(ToIndex) = "index" /\ Tail(ToIndex) = ToImages /\ Len(ToIndex) = 2
    BY DEF ToIndex, ToImages
  <1>5. Head(ToImages) = "images" /\ Len(ToImages) = 1 /\ Len(<<>>) = 0
    BY DEF ToImages
  <1>6. Order("container") = ToCopy
    BY Zenon DEF Order, ToCopy
  <1>7. Order("virtual-machine") = ToRootfs
    BY Zenon DEF Order, ToRootfs
  <1> QED  BY <1>1, <1>2, <1>3, <1>4, <1>5, <1>6, <1>7, Zenon

\* The lists of files differ.
LEMMA TodosDiffer ==
    /\ ToCopy \notin {ToRootfs, ToMeta, ToIndex, ToImages, <<>>}
    /\ ToRootfs \notin {ToMeta, ToIndex, ToImages, <<>>}
    /\ ToMeta \notin {ToIndex, ToImages, <<>>} /\ ToIndex \notin {ToImages, <<>>} /\ ToImages # <<>>
  BY Zenon DEF ToCopy, ToRootfs, ToMeta, ToIndex, ToImages

\* The commands' lists of jobs.
LEMMA JobsAreLists ==
    ASSUME NEW type \in ImageTypes, NEW path \in Paths, NEW alias \in Aliases, NEW incus \in BOOLEAN,
           NEW lxd \in BOOLEAN, Jobs(type, path, alias, incus, lxd) # <<>>
    PROVE  Jobs(type, path, alias, incus, lxd) \in JobLists /\ Len(Jobs(type, path, alias, incus, lxd)) = 1
  <1> DEFINE j == [type |-> type, path |-> path, alias |-> alias, incus |-> incus, lxd |-> lxd]
  <1>1. j \in JobRecords
    BY Zenon DEF JobRecords
  <1>2. Jobs(type, path, alias, incus, lxd) = <<j>>
    BY Zenon DEF Jobs
  <1> QED  BY <1>1, <1>2 DEF JobLists

\* Lists put together, place by place.
LEMMA ConcatFacts ==
    ASSUME NEW S, NEW s \in Seq(S), NEW t \in Seq(S)
    PROVE  /\ s \o t \in Seq(S) /\ Len(s \o t) = Len(s) + Len(t)
           /\ s \o <<>> = s /\ <<>> \o s = s
           /\ \A i \in DOMAIN s : (s \o t)[i] = s[i]
           /\ \A i \in DOMAIN t : (s \o t)[Len(s) + i] = t[i]
  OBVIOUS

\* A list is its places.
LEMMA ListEqual ==
    ASSUME NEW S, NEW s \in Seq(S), NEW t \in Seq(S), Len(s) = Len(t), \A i \in 1..Len(s) : s[i] = t[i]
    PROVE  s = t
  OBVIOUS

\* Lists of one job, put together.
LEMMA ConcatOfOne ==
    ASSUME NEW a, NEW b
    PROVE  <<a>> \o <<>> = <<a>> /\ <<>> \o <<b>> = <<b>> /\ <<a>> \o <<b>> = <<a, b>>
  <1> DEFINE S == {a, b}
  <1>1. /\ <<a>> \in Seq(S) /\ <<b>> \in Seq(S) /\ <<a, b>> \in Seq(S) /\ Len(<<a>>) = 1 /\ Len(<<b>>) = 1
        /\ DOMAIN <<a>> = {1} /\ DOMAIN <<b>> = {1}
    OBVIOUS
  <1>2. <<a>> \o <<>> = <<a>> /\ <<>> \o <<b>> = <<b>>
    BY <1>1, ConcatFacts, Zenon
  <1>3. /\ <<a>> \o <<b>> \in Seq(S) /\ Len(<<a>> \o <<b>>) = 2
        /\ (<<a>> \o <<b>>)[1] = a /\ (<<a>> \o <<b>>)[2] = b
    BY <1>1, ConcatFacts
  <1> HIDE DEF S
  <1>4. \A i \in 1..Len(<<a>> \o <<b>>) : (<<a>> \o <<b>>)[i] = <<a, b>>[i]
    BY <1>3
  <1>5. <<a>> \o <<b>> = <<a, b>>
    BY <1>1, <1>3, <1>4, ListEqual, Zenon
  <1> QED  BY <1>2, <1>5, Zenon

\* import release: one image, or a container and a virtual machine.
LEMMA ReleaseJobsAreLists ==
    ASSUME NEW cp \in Paths \cup {Unset}, NEW vp \in Paths \cup {Unset}, NEW alias \in Aliases,
           NEW list, list = ReleaseJobs(cp, vp, alias), list # <<>>
    PROVE  /\ list \in JobLists
           /\ Len(list) = 2 => /\ list[1].type = "container" /\ list[2].type = "virtual-machine"
                               /\ list[1].alias = list[2].alias
  <1> DEFINE cj == [type |-> "container", path |-> cp, alias |-> alias, incus |-> TRUE, lxd |-> TRUE]
             vj == [type |-> "virtual-machine", path |-> vp, alias |-> alias, incus |-> TRUE, lxd |-> TRUE]
  <1>1. /\ cp # Unset => cj \in JobRecords
        /\ vp # Unset => vj \in JobRecords
    BY Zenon DEF JobRecords, ImageTypes
  <1>2. /\ Jobs("container", cp, alias, TRUE, TRUE) = <<cj>>
        /\ Jobs("virtual-machine", vp, alias, TRUE, TRUE) = <<vj>>
    BY Zenon DEF Jobs
  <1>3. list = (IF cp = Unset THEN <<>> ELSE <<cj>>) \o (IF vp = Unset THEN <<>> ELSE <<vj>>)
    BY <1>2, Zenon DEF ReleaseJobs
  <1> HIDE DEF cj, vj
  <1>4. CASE cp = Unset /\ vp # Unset
    <2>1. list = <<vj>>
      BY <1>3, <1>4, ConcatOfOne, Zenon
    <2>2. vj \in JobRecords
      BY <1>1, <1>4, Zenon
    <2>3. list \in JobLists /\ Len(list) = 1
      BY <2>1, <2>2 DEF JobLists
    <2> QED  BY <2>3
  <1>5. CASE cp # Unset /\ vp = Unset
    <2>1. list = <<cj>>
      BY <1>3, <1>5, ConcatOfOne, Zenon
    <2>2. cj \in JobRecords
      BY <1>1, <1>5, Zenon
    <2>3. list \in JobLists /\ Len(list) = 1
      BY <2>1, <2>2 DEF JobLists
    <2> QED  BY <2>3
  <1>6. CASE cp # Unset /\ vp # Unset
    <2>1. list = <<cj, vj>>
      BY <1>3, <1>6, ConcatOfOne, Zenon
    <2>2. cj \in JobRecords /\ vj \in JobRecords
      BY <1>1, <1>6, Zenon
    <2>3. list \in JobLists
      BY <2>1, <2>2 DEF JobLists
    <2>4. list[1] = cj /\ list[2] = vj
      BY <2>1
    <2> QED  BY <2>3, <2>4 DEF cj, vj
  <1>7. ~(cp = Unset /\ vp = Unset)
    <2>1. <<>> \in Seq({})
      OBVIOUS
    <2>2. <<>> \o <<>> = <<>>
      BY <2>1, ConcatFacts, Zenon
    <2> QED  BY <1>3, <2>2, Zenon
  <1> QED  BY <1>4, <1>5, <1>6, <1>7, Zenon

-----------------------------------------------------------------------------
\* The steps of an import, field by field

\* The items an import adds are items.
LEMMA NewItemsType ==
    ASSUME NEW job \in JobRecords, NEW tar \in Tarballs
    PROVE  NewItems(job, tar) \subseteq AllItems
  <1>1. Servers(job) \subseteq {"incus", "lxd"}
    BY Zenon DEF Servers
  <1>2. SUFFICES ASSUME NEW x \in NewItems(job, tar) PROVE x \in AllItems
    BY Zenon
  <1>3. PICK s \in Servers(job) : x \in ContainerItems(tar, s) \cup VirtualMachineItems(tar, s)
    BY <1>2, Zenon DEF NewItems
  <1>4. x \in ItemsOf(tar)
    BY <1>1, <1>3, Zenon DEF ItemsOf
  <1> QED  BY <1>4, Zenon DEF AllItems

\* What an item is.
LEMMA ItemFacts ==
    ASSUME NEW x \in AllItems
    PROVE  \E t \in Tarballs, s \in {"incus", "lxd"} :
              /\ x.product = t.product /\ x.version = t.version /\ x.server = s
              /\ \/ x.ftype = "combined" /\ x.path = ContainerPath(ContainerSha(t)) /\ x.sha = ContainerSha(t)
                 \/ x.ftype = "disk" /\ x.path = RootfsPath(t.meta) /\ x.sha = RootSha(t)
                 \/ x.ftype = "meta" /\ x.path = MetadataPath(t.meta) /\ x.sha = MetaSha(t)
  <1>1. PICK t \in Tarballs : x \in ItemsOf(t)
    BY Zenon DEF AllItems
  <1>2. PICK s \in {"incus", "lxd"} : x \in ContainerItems(t, s) \cup VirtualMachineItems(t, s)
    BY <1>1, Zenon DEF ItemsOf
  <1>3. /\ x.product = t.product /\ x.version = t.version /\ x.server = s
        /\ \/ x.ftype = "combined" /\ x.path = ContainerPath(ContainerSha(t)) /\ x.sha = ContainerSha(t)
           \/ x.ftype = "disk" /\ x.path = RootfsPath(t.meta) /\ x.sha = RootSha(t)
           \/ x.ftype = "meta" /\ x.path = MetadataPath(t.meta) /\ x.sha = MetaSha(t)
    BY <1>2 DEF ContainerItems, VirtualMachineItems, Item
  <1> QED  BY <1>3, Zenon

\* What the items of an import are.
LEMMA NewItemFacts ==
    ASSUME NEW job \in JobRecords, NEW t \in Tarballs, NEW x \in NewItems(job, t)
    PROVE  /\ x.product = t.product /\ x.version = t.version
           /\ job.type = "container" =>
                 x.ftype = "combined" /\ x.path = ContainerPath(ContainerSha(t)) /\ x.sha = ContainerSha(t)
           /\ job.type = "virtual-machine" =>
                 /\ \/ x.ftype = "disk" /\ x.path = RootfsPath(t.meta) /\ x.sha = RootSha(t)
                    \/ x.ftype = "meta" /\ x.path = MetadataPath(t.meta) /\ x.sha = MetaSha(t)
                 /\ \E y \in NewItems(job, t) :
                       Key(y) = <<x.product, x.version, x.server, "meta">>
  <1>1. PICK s \in Servers(job) : x \in IF job.type = "container" THEN ContainerItems(t, s)
                                                               ELSE VirtualMachineItems(t, s)
    BY Zenon DEF NewItems
  <1>2. CASE job.type = "container"
    BY <1>1, <1>2 DEF ContainerItems, Item
  <1>3. CASE job.type = "virtual-machine"
    <2>1. x \in VirtualMachineItems(t, s)
      BY <1>1, <1>3, Zenon
    <2>2. /\ x.product = t.product /\ x.version = t.version /\ x.server = s
          /\ \/ x.ftype = "disk" /\ x.path = RootfsPath(t.meta) /\ x.sha = RootSha(t)
             \/ x.ftype = "meta" /\ x.path = MetadataPath(t.meta) /\ x.sha = MetaSha(t)
      BY <2>1 DEF VirtualMachineItems, Item
    <2> DEFINE y == Item(t, s, "meta", MetadataPath(t.meta), MetaSha(t))
    <2>3. y \in VirtualMachineItems(t, s) /\ Key(y) = <<t.product, t.version, s, "meta">>
      BY Zenon DEF VirtualMachineItems, Item, Key
    <2>4. y \in NewItems(job, t)
      BY <1>3, <2>3, Zenon DEF NewItems
    <2> QED  BY <1>3, <2>2, <2>3, <2>4, Zenon
  <1> QED  BY <1>2, <1>3, Zenon DEF JobRecords, ImageTypes

\* No two of them have the same key.
LEMMA NewItemsKeys ==
    ASSUME NEW job \in JobRecords, NEW t \in Tarballs, NEW x \in NewItems(job, t), NEW y \in NewItems(job, t),
           Key(x) = Key(y)
    PROVE  x = y
  <1>1. PICK s \in Servers(job) : x \in IF job.type = "container" THEN ContainerItems(t, s)
                                                               ELSE VirtualMachineItems(t, s)
    BY Zenon DEF NewItems
  <1>2. PICK r \in Servers(job) : y \in IF job.type = "container" THEN ContainerItems(t, r)
                                                               ELSE VirtualMachineItems(t, r)
    BY Zenon DEF NewItems
  <1>3. x.server = s /\ y.server = r
    BY <1>1, <1>2 DEF ContainerItems, VirtualMachineItems, Item
  <1>4. s = r /\ x.ftype = y.ftype
    BY <1>3, Zenon DEF Key
  <1>5. CASE job.type = "container"
    BY <1>1, <1>2, <1>4, <1>5, Zenon DEF ContainerItems
  <1>6. CASE job.type # "container"
    BY <1>1, <1>2, <1>4, <1>6 DEF VirtualMachineItems, Item
  <1> QED  BY <1>5, <1>6, Zenon

\* A command that has ended.
LEMMA EndedType ==
    ASSUME NEW pc \in {"idle", "import", "done", "failed"}, NEW past \in SUBSET [job : JobRecords, tar : Tarballs]
    PROVE  /\ Ended(pc, past) \in ImpRecords
           /\ Ended(pc, past).pc = pc /\ Ended(pc, past).past = past /\ Ended(pc, past).jobs = <<>>
           /\ Ended(pc, past).todo = <<>> /\ Ended(pc, past).tar = <<>> /\ Ended(pc, past).index = {}
           /\ Ended(pc, past).items = {} /\ Ended(pc, past).aliases = {}
  BY Zenon DEF Ended, ImpRecords, Todos, TarCells

\* A command starts, or finds files that do not parse.
LEMMA BeginEffect ==
    ASSUME IndexTypes, NEW list \in JobLists, Begin(list)
    PROVE  /\ ~Imports /\ UNCHANGED <<local, index, catalog, stored>> /\ imp' \in ImpRecords
           /\ imp'.past = {} /\ imp'.todo = <<>> /\ imp'.tar = <<>>
           /\ \/ ~Readable /\ imp'.pc = "failed" /\ imp'.items = {}
              \/ /\ Readable /\ imp'.pc = "import" /\ imp'.jobs = list /\ imp'.index = index.products
                 /\ imp'.items = catalog.items /\ imp'.aliases = catalog.aliases
  <1>1. Ended("import", {}) \in ImpRecords /\ Ended("failed", {}) \in ImpRecords
    BY EndedType, Zenon
  <1>2. index.products \in SUBSET Names /\ catalog.items \in SUBSET AllItems
        /\ catalog.aliases \in SUBSET AliasRecords
    BY Zenon DEF IndexTypes
  <1>3. CASE Readable
    <2>1. imp' = [Ended("import", {}) EXCEPT !.jobs = list, !.index = index.products,
                        !.items = catalog.items, !.aliases = catalog.aliases]
      BY <1>3, Zenon DEF Begin
    <2>2. /\ Ended("import", {}).pc = "import" /\ Ended("import", {}).past = {}
          /\ Ended("import", {}).todo = <<>> /\ Ended("import", {}).tar = <<>>
      BY EndedType, Zenon
    <2>3. /\ imp' \in ImpRecords /\ imp'.jobs = list /\ imp'.index = index.products
          /\ imp'.items = catalog.items /\ imp'.aliases = catalog.aliases
          /\ imp'.pc = "import" /\ imp'.past = {} /\ imp'.todo = <<>> /\ imp'.tar = <<>>
      BY <1>1, <1>2, <2>1, <2>2, Zenon DEF ImpRecords
    <2> QED  BY <1>3, <2>3, Zenon DEF Begin
  <1>4. CASE ~Readable
    <2>1. imp' = Ended("failed", {})
      BY <1>4, Zenon DEF Begin
    <2> QED  BY <1>4, <2>1, EndedType DEF Begin
  <1> QED  BY <1>3, <1>4, Zenon

\* The command gives up.
LEMMA FailsEffect ==
    ASSUME Fails
    PROVE  /\ imp' \in ImpRecords /\ imp'.pc = "failed" /\ imp'.past = {} /\ imp'.todo = <<>>
           /\ imp'.tar = <<>> /\ imp'.items = {} /\ ~Imports'
  <1>1. imp' = Ended("failed", {})
    BY Zenon DEF Fails
  <1> QED  BY <1>1, EndedType, Zenon DEF Imports

\* The metadata of a container has been read.
LEMMA InfoEffect ==
    ASSUME IndexTypes, NEW cell \in TarCells, imp' = [imp EXCEPT !.pc = "info", !.tar = cell]
    PROVE  /\ imp' \in ImpRecords /\ imp'.pc = "info" /\ imp'.tar = cell
           /\ imp'.jobs = imp.jobs /\ imp'.todo = imp.todo /\ imp'.past = imp.past
           /\ imp'.index = imp.index /\ imp'.items = imp.items /\ imp'.aliases = imp.aliases
  BY Zenon DEF IndexTypes, ImpRecords

\* "update index" and "update product versions".
LEMMA UpdateEffect ==
    ASSUME IndexTypes, imp.jobs \in JobLists, NEW tar \in Tarballs, Update(Job, tar)
    PROVE  /\ imp' \in ImpRecords /\ imp'.pc = "write" /\ imp'.tar = <<tar>>
           /\ imp'.jobs = imp.jobs /\ imp'.past = imp.past /\ imp'.todo = Order(Job.type)
           /\ imp'.index = imp.index \cup {tar.product}
           /\ imp'.items = Merged(imp.items, NewItems(Job, tar))
           /\ imp'.aliases = IF Job.alias = Unset THEN imp.aliases
                             ELSE {a \in imp.aliases : a.product # tar.product}
                                  \cup {[product |-> tar.product, alias |-> Job.alias]}
           /\ Order(Job.type) = IF Job.type = "container" THEN ToCopy ELSE ToRootfs
  <1>1. Job \in JobRecords /\ imp \in ImpRecords
    BY JobListFacts, Zenon DEF Job, IndexTypes
  <1>2. Order(Job.type) = (IF Job.type = "container" THEN ToCopy ELSE ToRootfs) /\ Order(Job.type) \in Todos
    BY TodoFacts, <1>1, Zenon DEF JobRecords, ImageTypes, Todos
  <1>3. tar.product \in Names /\ <<tar>> \in TarCells
    BY Zenon DEF Tarballs, TarCells
  <1> DEFINE ix == imp.index \cup {tar.product}
             it == Merged(imp.items, NewItems(Job, tar))
             al == IF Job.alias = Unset THEN imp.aliases
                   ELSE {a \in imp.aliases : a.product # tar.product}
                        \cup {[product |-> tar.product, alias |-> Job.alias]}
  <1>4. ix \in SUBSET Names
    BY <1>1, <1>3, Zenon DEF ImpRecords
  <1>5. it \in SUBSET AllItems
    BY <1>1, NewItemsType, Zenon DEF ImpRecords, Merged
  <1>6. al \in SUBSET AliasRecords
    BY <1>1, <1>3 DEF ImpRecords, AliasRecords, JobRecords
  <1>7. imp' = [imp EXCEPT !.pc = "write", !.todo = Order(Job.type), !.tar = <<tar>>,
                           !.index = ix, !.items = it, !.aliases = al]
    BY Zenon DEF Update
  <1> HIDE DEF ix, it, al
  <1>8. /\ imp' \in ImpRecords /\ imp'.pc = "write" /\ imp'.tar = <<tar>>
        /\ imp'.jobs = imp.jobs /\ imp'.past = imp.past /\ imp'.todo = Order(Job.type)
        /\ imp'.index = ix /\ imp'.items = it /\ imp'.aliases = al
    BY <1>1, <1>2, <1>3, <1>4, <1>5, <1>6, <1>7, Zenon DEF ImpRecords
  <1> QED  BY <1>2, <1>8, Zenon DEF ix, it, al

\* A file has been written.
LEMMA WroteEffect ==
    ASSUME IndexTypes, StandInv, imp.pc = "write", Wrote
    PROVE  /\ imp' \in ImpRecords
           /\ imp.todo # ToImages =>
                 /\ imp'.pc = "write" /\ imp'.todo = Tail(imp.todo) /\ imp'.jobs = imp.jobs
                 /\ imp'.past = imp.past /\ imp'.tar = imp.tar
                 /\ imp'.index = imp.index /\ imp'.items = imp.items /\ imp'.aliases = imp.aliases
           /\ imp.todo = ToImages /\ Len(imp.jobs) = 2 =>
                 /\ imp'.pc = "import" /\ imp'.todo = <<>> /\ imp'.jobs = Tail(imp.jobs)
                 /\ imp'.past = imp.past \cup {[job |-> Job, tar |-> Tarball]} /\ imp'.tar = imp.tar
                 /\ imp'.index = imp.index /\ imp'.items = imp.items /\ imp'.aliases = imp.aliases
           /\ imp.todo = ToImages /\ Len(imp.jobs) # 2 =>
                 /\ imp'.pc = "done" /\ imp'.todo = <<>> /\ imp'.tar = <<>> /\ imp'.items = {}
                 /\ imp'.past = imp.past \cup {[job |-> Job, tar |-> Tarball]}
  <1> DEFINE past == imp.past \cup {[job |-> Job, tar |-> Tarball]}
  <1>0. imp \in ImpRecords /\ imp.jobs \in JobLists
    BY Zenon DEF IndexTypes, StandInv, Imports
  <1>1. Job \in JobRecords /\ Tarball \in Tarballs /\ Len(imp.jobs) \in {1, 2}
    BY <1>0, JobListFacts DEF Job, Tarball, StandInv, ImpRecords, TarCells
  <1>2. past \in SUBSET [job : JobRecords, tar : Tarballs]
    BY <1>0, <1>1 DEF ImpRecords
  <1>3. imp.todo \in {ToCopy, ToRootfs, ToMeta, ToIndex, ToImages}
    BY Zenon DEF StandInv
  <1>4. imp' = CASE Len(imp.todo) > 1 -> [imp EXCEPT !.todo = Tail(@)]
                 [] Len(imp.todo) = 1 /\ Len(imp.jobs) > 1 ->
                      [imp EXCEPT !.pc = "import", !.todo = <<>>, !.jobs = Tail(@), !.past = past]
                 [] OTHER -> Ended("done", past)
    BY Zenon DEF Wrote
  <1> HIDE DEF past
  <1>5. CASE imp.todo # ToImages
    <2>1. Len(imp.todo) \in {2, 3, 4} /\ Tail(imp.todo) \in Todos
      <3>1. CASE imp.todo = ToCopy
        BY <3>1, TodoFacts, Zenon DEF Todos
      <3>2. CASE imp.todo = ToRootfs
        BY <3>2, TodoFacts, Zenon DEF Todos
      <3>3. CASE imp.todo = ToMeta
        BY <3>3, TodoFacts, Zenon DEF Todos
      <3>4. CASE imp.todo = ToIndex
        BY <3>4, TodoFacts, Zenon DEF Todos
      <3> QED  BY <1>3, <1>5, <3>1, <3>2, <3>3, <3>4, Zenon
    <2>2. Len(imp.todo) > 1 /\ ~(Len(imp.todo) = 1)
      BY <2>1, SMTT(30)
    <2>3. imp' = [imp EXCEPT !.todo = Tail(imp.todo)]
      BY <1>4, <2>2, Zenon
    <2> QED  BY <1>0, <1>5, <2>1, <2>3, Zenon DEF ImpRecords
  <1>6. CASE imp.todo = ToImages /\ Len(imp.jobs) = 2
    <2>1. Len(imp.todo) = 1 /\ Tail(imp.jobs) \in JobLists
      BY <1>0, <1>6, TodoFacts, JobListFacts, Zenon
    <2>2. imp' = [imp EXCEPT !.pc = "import", !.todo = <<>>, !.jobs = Tail(imp.jobs), !.past = past]
      BY <1>4, <1>6, <2>1
    <2>3. imp' \in ImpRecords
      BY <1>0, <1>2, <2>1, <2>2, Zenon DEF ImpRecords, Todos
    <2>4. /\ imp'.pc = "import" /\ imp'.todo = <<>> /\ imp'.jobs = Tail(imp.jobs)
          /\ imp'.past = past /\ imp'.tar = imp.tar
          /\ imp'.index = imp.index /\ imp'.items = imp.items /\ imp'.aliases = imp.aliases
      BY <1>0, <2>2, Zenon DEF ImpRecords
    <2> QED  BY <1>6, <2>3, <2>4, Zenon DEF past
  <1>7. CASE imp.todo = ToImages /\ Len(imp.jobs) # 2
    <2>1. Len(imp.todo) = 1 /\ Len(imp.jobs) = 1
      BY <1>1, <1>7, TodoFacts, Zenon
    <2>2. imp' = Ended("done", past)
      BY <1>4, <2>1
    <2>3. /\ imp' \in ImpRecords /\ imp'.pc = "done" /\ imp'.todo = <<>> /\ imp'.tar = <<>>
          /\ imp'.past = past /\ imp'.items = {}
      BY <1>2, <2>2, EndedType, Zenon
    <2> QED  BY <1>7, <2>3, Zenon DEF past
  <1> QED  BY <1>5, <1>6, <1>7, Zenon

\* The steps of IndexNext.
BeginStep ==
    \E list \in JobLists :
        /\ Begin(list)
        /\ Len(list) = 2 => /\ list[1].type = "container" /\ list[2].type = "virtual-machine"
                            /\ list[1].alias = list[2].alias
FailStep == Imports /\ Fails /\ UNCHANGED <<local, index, catalog, stored>>
InfoStep ==
    /\ imp.pc = "import" /\ Job.type = "container" /\ local[Job.path] # <<>>
    /\ imp' = [imp EXCEPT !.pc = "info", !.tar = local[Job.path]]
    /\ UNCHANGED <<local, index, catalog, stored>>
UpdateStep(tar) ==
    /\ local[Job.path] # <<>>
    /\ \/ /\ imp.pc = "import" /\ Job.type = "virtual-machine"
          /\ tar = local[Job.path][1] /\ tar.whole
       \/ /\ imp.pc = "info"
          /\ tar = [local[Job.path][1] EXCEPT !.product = Tarball.product, !.version = Tarball.version]
    /\ Update(Job, tar)
    /\ UNCHANGED <<local, index, catalog, stored>>

\* A job names a path, and what is at that path is a tarball.
LEMMA JobFacts ==
    ASSUME IndexTypes, StandInv, Imports
    PROVE  /\ imp \in ImpRecords /\ imp.jobs \in JobLists /\ Job \in JobRecords /\ Job.path \in Paths
           /\ Job.type \in {"container", "virtual-machine"}
           /\ local[Job.path] \in TarCells
           /\ local[Job.path] # <<>> => /\ local[Job.path][1] \in Tarballs
                                        /\ local[Job.path] = <<local[Job.path][1]>>
           /\ imp.tar # <<>> => Tarball \in Tarballs /\ imp.tar = <<Tarball>>
  <1>1. imp \in ImpRecords /\ imp.jobs \in JobLists
    BY Zenon DEF IndexTypes, StandInv
  <1>2. Job \in JobRecords
    BY <1>1, JobListFacts, Zenon DEF Job
  <1>3. Job.path \in Paths /\ Job.type \in {"container", "virtual-machine"}
    BY <1>2, Zenon DEF JobRecords, ImageTypes
  <1>4. local[Job.path] \in TarCells
    BY <1>3, Zenon DEF IndexTypes
  <1>5. imp.tar \in TarCells
    BY <1>1, Zenon DEF ImpRecords
  <1> QED  BY <1>1, <1>2, <1>3, <1>4, <1>5 DEF TarCells, Tarball

\* Every step of an import is one of these.
LEMMA IndexSteps ==
    ASSUME IndexTypes, StandInv, IndexNext
    PROVE  \/ BeginStep \/ FailStep \/ InfoStep \/ (\E tar \in Tarballs : UpdateStep(tar))
           \/ Write \/ WriteBreaksOff
  <1>1. CASE ImportImageCmd
    <2>1. PICK type \in ImageTypes, path \in Paths, alias \in Aliases, incus \in BOOLEAN, lxd \in BOOLEAN :
              Begin(Jobs(type, path, alias, incus, lxd))
      BY <1>1, Zenon DEF ImportImageCmd
    <2>2. Jobs(type, path, alias, incus, lxd) # <<>>
      BY <2>1, Zenon DEF Begin
    <2>3. Jobs(type, path, alias, incus, lxd) \in JobLists /\ Len(Jobs(type, path, alias, incus, lxd)) = 1
      BY <2>2, JobsAreLists, Zenon
    <2> QED  BY <2>1, <2>3 DEF BeginStep
  <1>2. CASE ImportReleaseCmd
    <2>1. PICK cp \in Paths \cup {Unset}, vp \in Paths \cup {Unset}, alias \in Aliases :
              Begin(ReleaseJobs(cp, vp, alias))
      BY <1>2, Zenon DEF ImportReleaseCmd
    <2>2. ReleaseJobs(cp, vp, alias) # <<>>
      BY <2>1, Zenon DEF Begin
    <2> DEFINE list == ReleaseJobs(cp, vp, alias)
    <2>3. /\ list \in JobLists
          /\ Len(list) = 2 => /\ list[1].type = "container" /\ list[2].type = "virtual-machine"
                              /\ list[1].alias = list[2].alias
      BY <2>2, ReleaseJobsAreLists, ZenonT(30)
    <2> HIDE DEF list
    <2>4. Begin(list)
      BY <2>1, Zenon DEF list
    <2> QED  BY <2>3, <2>4, Zenon DEF BeginStep
  <1>3. CASE Parse
    <2>0. imp.pc = "import" /\ Imports /\ UNCHANGED <<local, index, catalog, stored>>
      BY <1>3, Zenon DEF Parse, Imports
    <2>1. CASE ParseContainer(Job.path)
      BY <2>0, <2>1, Zenon DEF ParseContainer, Opens, InfoStep, FailStep
    <2>2. CASE ParseVirtualMachine(Job.path)
      <3>1. CASE Fails
        BY <2>0, <3>1, Zenon DEF FailStep
      <3>2. CASE ~Fails
        <4>1. /\ local[Job.path] # <<>> /\ local[Job.path][1].whole /\ Job.type = "virtual-machine"
              /\ Update(Job, local[Job.path][1])
          BY <2>2, <3>2, Zenon DEF ParseVirtualMachine, Opens
        <4>2. local[Job.path][1] \in Tarballs
          BY <2>0, <4>1, JobFacts, Zenon
        <4> QED  BY <2>0, <4>1, <4>2, Zenon DEF UpdateStep
      <3> QED  BY <3>1, <3>2, Zenon
    <2> QED  BY <1>3, <2>1, <2>2, Zenon DEF Parse
  <1>4. CASE ContainerInfo
    <2>0. imp.pc = "info" /\ Imports /\ UNCHANGED <<local, index, catalog, stored>>
      BY <1>4, Zenon DEF ContainerInfo, Imports
    <2>1. CASE Fails
      BY <2>0, <2>1, Zenon DEF FailStep
    <2>2. CASE ~Fails
      <3> DEFINE tar == [local[Job.path][1] EXCEPT !.product = Tarball.product, !.version = Tarball.version]
      <3>1. local[Job.path] # <<>> /\ Update(Job, tar)
        BY <1>4, <2>2, Zenon DEF ContainerInfo
      <3>2. local[Job.path][1] \in Tarballs /\ Tarball \in Tarballs
        BY <2>0, <3>1, JobFacts, Zenon DEF StandInv
      <3>3. tar \in Tarballs
        BY <3>2, Zenon DEF Tarballs
      <3> QED  BY <2>0, <3>1, <3>3, Zenon DEF UpdateStep
    <2> QED  BY <2>1, <2>2, Zenon
  <1> QED  BY <1>1, <1>2, <1>3, <1>4, Zenon DEF IndexNext

\* Which file is written.
LEMMA WriteCases ==
    ASSUME IndexTypes, StandInv, Write
    PROVE  /\ imp.pc = "write" /\ Imports /\ Wrote /\ UNCHANGED local
           /\ \/ imp.todo = ToCopy /\ Job.type = "container" /\ CopyImage
              \/ imp.todo = ToRootfs /\ Job.type = "virtual-machine" /\ WriteRootfs
              \/ imp.todo = ToMeta /\ Job.type = "virtual-machine" /\ WriteMetadata
              \/ imp.todo = ToIndex /\ WriteIndex
              \/ imp.todo = ToImages /\ WriteProducts
  <1>1. imp.pc = "write" /\ Imports /\ Wrote /\ UNCHANGED local
    BY Zenon DEF Write, Imports
  <1>2. Job.type \in {"container", "virtual-machine"}
    BY <1>1, JobFacts, Zenon
  <1>3. \/ Head(imp.todo) = "copy" /\ CopyImage
        \/ Head(imp.todo) = "rootfs" /\ WriteRootfs
        \/ Head(imp.todo) = "meta" /\ WriteMetadata
        \/ Head(imp.todo) = "index" /\ WriteIndex
        \/ Head(imp.todo) = "images" /\ WriteProducts
    BY Zenon DEF Write
  <1>4. imp.todo \in IF Job.type = "container" THEN {ToCopy, ToIndex, ToImages}
                                               ELSE {ToRootfs, ToMeta, ToIndex, ToImages}
    BY <1>1, Zenon DEF StandInv
  <1> QED  BY <1>1, <1>2, <1>3, <1>4, TodoFacts, Zenon

\* A step that breaks off.
LEMMA BreakCases ==
    ASSUME IndexTypes, StandInv, WriteBreaksOff
    PROVE  /\ imp.pc = "write" /\ Imports /\ Fails /\ UNCHANGED local
           /\ \/ UNCHANGED <<index, catalog, stored>>
              \/ /\ imp.todo = ToCopy /\ Job.type = "container" /\ UNCHANGED <<index, catalog>>
                 /\ stored' = Stored(ContainerPath(ContainerSha(Tarball)), Torn)
              \/ /\ imp.todo = ToRootfs /\ Job.type = "virtual-machine" /\ UNCHANGED <<index, catalog>>
                 /\ stored' = Stored(RootfsPath(Tarball.meta), Torn)
              \/ /\ imp.todo = ToMeta /\ Job.type = "virtual-machine" /\ UNCHANGED <<index, catalog>>
                 /\ stored' = Stored(MetadataPath(Tarball.meta), Torn)
              \/ index' = [ok |-> FALSE, products |-> {}] /\ UNCHANGED <<catalog, stored>>
              \/ catalog' = [ok |-> FALSE, items |-> {}, aliases |-> {}] /\ UNCHANGED <<index, stored>>
  <1>1. imp.pc = "write" /\ Imports /\ Fails /\ UNCHANGED local
    BY Zenon DEF WriteBreaksOff, Imports
  <1>2. Job.type \in {"container", "virtual-machine"}
    BY <1>1, JobFacts, Zenon
  <1>3. imp.todo \in IF Job.type = "container" THEN {ToCopy, ToIndex, ToImages}
                                               ELSE {ToRootfs, ToMeta, ToIndex, ToImages}
    BY <1>1, Zenon DEF StandInv
  <1>4. /\ Head(imp.todo) = "copy" => imp.todo = ToCopy /\ Job.type = "container"
        /\ Head(imp.todo) = "rootfs" => imp.todo = ToRootfs /\ Job.type = "virtual-machine"
        /\ Head(imp.todo) = "meta" => imp.todo = ToMeta /\ Job.type = "virtual-machine"
    BY <1>2, <1>3, TodoFacts, Zenon
  <1>5. CASE Head(imp.todo) \in {"copy", "rootfs", "meta"} /\ UNCHANGED <<index, catalog>> /\ ~UNCHANGED stored
    <2>1. stored' = Stored(CASE Head(imp.todo) = "copy" -> ContainerPath(ContainerSha(Tarball))
                             [] Head(imp.todo) = "rootfs" -> RootfsPath(Tarball.meta)
                             [] Head(imp.todo) = "meta" -> MetadataPath(Tarball.meta), Torn)
      BY <1>5, Zenon DEF WriteBreaksOff
    <2>2. CASE Head(imp.todo) = "copy"
      BY <1>1, <1>4, <1>5, <2>1, <2>2, Zenon
    <2>3. CASE Head(imp.todo) = "rootfs"
      BY <1>1, <1>4, <1>5, <2>1, <2>3, Zenon
    <2>4. CASE Head(imp.todo) = "meta"
      BY <1>1, <1>4, <1>5, <2>1, <2>4, Zenon
    <2> QED  BY <1>5, <2>2, <2>3, <2>4, Zenon
  <1>6. CASE Head(imp.todo) = "index"
    BY <1>1, <1>6, Zenon DEF WriteBreaksOff
  <1>7. CASE Head(imp.todo) = "images"
    BY <1>1, <1>7, Zenon DEF WriteBreaksOff
  <1> QED  BY <1>1, <1>5, <1>6, <1>7, Zenon DEF WriteBreaksOff

-----------------------------------------------------------------------------
\* Types and places are kept

\* A file of the directory is replaced or added.
LEMMA StoredEffect ==
    ASSUME NEW path, NEW bytes, stored' = Stored(path, bytes)
    PROVE  /\ [path |-> path, bytes |-> bytes] \in stored'
           /\ \A f \in stored' : f = [path |-> path, bytes |-> bytes] \/ (f \in stored /\ f.path # path)
           /\ \A f \in stored : f \in stored' \/ f.path = path
  BY Zenon DEF Stored

\* Only a file of the directory, index.json or images.json changes.
LEMMA FilesTyped ==
    ASSUME IndexTypes, StandInv, Write \/ WriteBreaksOff
    PROVE  /\ index' \in [ok : BOOLEAN, products : SUBSET Names]
           /\ catalog' \in [ok : BOOLEAN, items : SUBSET AllItems, aliases : SUBSET AliasRecords]
           /\ \A f \in stored' : f = [path |-> f.path, bytes |-> f.bytes]
  <1>0. imp.index \in SUBSET Names /\ imp.items \in SUBSET AllItems /\ imp.aliases \in SUBSET AliasRecords
    BY Zenon DEF IndexTypes, ImpRecords
  <1>1. index' \in [ok : BOOLEAN, products : SUBSET Names]
    <2>1. \/ index' = index
          \/ index' = [ok |-> TRUE, products |-> imp.index]
          \/ index' = [ok |-> FALSE, products |-> {}]
      BY WriteCases, BreakCases, Zenon DEF CopyImage, WriteRootfs, WriteMetadata, WriteIndex, WriteProducts
    <2>2. [ok |-> TRUE, products |-> imp.index] \in [ok : BOOLEAN, products : SUBSET Names]
      BY <1>0, Zenon
    <2>3. [ok |-> FALSE, products |-> {}] \in [ok : BOOLEAN, products : SUBSET Names]
      BY Zenon
    <2> QED  BY <2>1, <2>2, <2>3, Zenon DEF IndexTypes
  <1>2. catalog' \in [ok : BOOLEAN, items : SUBSET AllItems, aliases : SUBSET AliasRecords]
    <2>1. \/ catalog' = catalog
          \/ catalog' = [ok |-> TRUE, items |-> imp.items, aliases |-> imp.aliases]
          \/ catalog' = [ok |-> FALSE, items |-> {}, aliases |-> {}]
      BY WriteCases, BreakCases, Zenon DEF CopyImage, WriteRootfs, WriteMetadata, WriteIndex, WriteProducts
    <2>2. [ok |-> TRUE, items |-> imp.items, aliases |-> imp.aliases]
             \in [ok : BOOLEAN, items : SUBSET AllItems, aliases : SUBSET AliasRecords]
      BY <1>0, Zenon
    <2>3. [ok |-> FALSE, items |-> {}, aliases |-> {}]
             \in [ok : BOOLEAN, items : SUBSET AllItems, aliases : SUBSET AliasRecords]
      BY Zenon
    <2> QED  BY <2>1, <2>2, <2>3, Zenon DEF IndexTypes
  <1>3. \A f \in stored' : f = [path |-> f.path, bytes |-> f.bytes]
    <2>1. \/ stored' = stored
          \/ \E path, bytes : stored' = Stored(path, bytes)
      BY WriteCases, BreakCases, Zenon DEF CopyImage, WriteRootfs, WriteMetadata, WriteIndex, WriteProducts
    <2>2. CASE \E path, bytes : stored' = Stored(path, bytes)
      <3>1. PICK path, bytes : stored' = Stored(path, bytes)
        BY <2>2, Zenon
      <3>2. \A f \in stored' : f = [path |-> path, bytes |-> bytes] \/ f \in stored
        BY <3>1, StoredEffect, Zenon
      <3> QED  BY <3>2 DEF IndexTypes
    <2> QED  BY <2>1, <2>2, Zenon DEF IndexTypes
  <1> QED  BY <1>1, <1>2, <1>3, Zenon

\* The index keeps its types, and an import stands where it may.
LEMMA IndexTyped ==
    ASSUME IndexTypes, StandInv, IndexNext
    PROVE  IndexTypes' /\ StandInv'
  <1>1. CASE BeginStep
    <2>1. PICK list \in JobLists :
              /\ Begin(list)
              /\ Len(list) = 2 => /\ list[1].type = "container" /\ list[2].type = "virtual-machine"
                                  /\ list[1].alias = list[2].alias
      BY <1>1, Zenon DEF BeginStep
    <2>2. /\ UNCHANGED <<local, index, catalog, stored>> /\ imp' \in ImpRecords
          /\ imp'.past = {} /\ imp'.todo = <<>> /\ imp'.tar = <<>>
          /\ imp'.pc = "failed" \/ (imp'.pc = "import" /\ imp'.jobs = list)
      BY <2>1, BeginEffect, Zenon
    <2> QED  BY <2>1, <2>2, Zenon DEF IndexTypes, StandInv, Imports
  <1>2. CASE FailStep
    <2>1. imp' \in ImpRecords /\ imp'.pc = "failed" /\ imp'.todo = <<>> /\ ~Imports'
      BY <1>2, FailsEffect, Zenon DEF FailStep
    <2> QED  BY <1>2, <2>1, Zenon DEF IndexTypes, StandInv, FailStep
  <1>3. CASE InfoStep
    <2>1. Imports /\ imp.pc = "import" /\ Job.type = "container" /\ UNCHANGED <<local, index, catalog, stored>>
      BY <1>3, Zenon DEF InfoStep, Imports
    <2>2. local[Job.path] \in TarCells /\ local[Job.path] # <<>>
      BY <1>3, <2>1, JobFacts, Zenon DEF InfoStep
    <2>3. /\ imp' \in ImpRecords /\ imp'.pc = "info" /\ imp'.tar = local[Job.path]
          /\ imp'.jobs = imp.jobs /\ imp'.todo = imp.todo /\ imp'.past = imp.past
      BY <1>3, <2>2, InfoEffect, Zenon DEF InfoStep
    <2> QED  BY <2>1, <2>2, <2>3, Zenon DEF IndexTypes, StandInv, Imports, Job
  <1>4. CASE \E tar \in Tarballs : UpdateStep(tar)
    <2>0. PICK tar \in Tarballs : UpdateStep(tar)
      BY <1>4, Zenon
    <2>1. Imports /\ UNCHANGED <<local, index, catalog, stored>>
      BY <2>0, Zenon DEF UpdateStep, Imports
    <2>2. imp.jobs \in JobLists /\ Job.type \in {"container", "virtual-machine"}
      BY <2>1, JobFacts, Zenon
    <2>3. /\ imp' \in ImpRecords /\ imp'.pc = "write" /\ imp'.tar = <<tar>>
          /\ imp'.jobs = imp.jobs /\ imp'.past = imp.past
          /\ imp'.todo = IF Job.type = "container" THEN ToCopy ELSE ToRootfs
      BY <2>0, <2>2, UpdateEffect, Zenon DEF UpdateStep
    <2>4. IndexTypes' /\ Imports' /\ Job' = Job
      BY <2>1, <2>3, Zenon DEF IndexTypes, Imports, Job
    <2> QED  BY <2>1, <2>2, <2>3, <2>4 DEF StandInv
  <1>5. CASE Write
    <2>1. imp.pc = "write" /\ Imports /\ Wrote /\ UNCHANGED local
      BY <1>5, WriteCases, Zenon
    <2>2. IndexTypes'
      BY <1>5, <2>1, FilesTyped, WroteEffect, Zenon DEF IndexTypes
    <2>3. imp.jobs \in JobLists /\ Job.type \in {"container", "virtual-machine"}
      BY <2>1, JobFacts, Zenon
    <2>4. CASE imp.todo # ToImages
      <3>1. /\ imp'.pc = "write" /\ imp'.todo = Tail(imp.todo) /\ imp'.jobs = imp.jobs
            /\ imp'.past = imp.past /\ imp'.tar = imp.tar
        BY <2>1, <2>4, WroteEffect, Zenon
      <3>2. Imports' /\ Job' = Job
        BY <3>1, Zenon DEF Imports, Job
      <3>3. imp'.todo \in IF Job.type = "container" THEN {ToCopy, ToIndex, ToImages}
                                                   ELSE {ToRootfs, ToMeta, ToIndex, ToImages}
        <4>1. CASE imp.todo = ToCopy
          BY <2>1, <3>1, <4>1, TodoFacts, TodosDiffer, Zenon DEF StandInv
        <4>2. CASE imp.todo = ToRootfs
          BY <2>1, <3>1, <4>2, TodoFacts, TodosDiffer, Zenon DEF StandInv
        <4>3. CASE imp.todo = ToMeta
          BY <2>1, <3>1, <4>3, TodoFacts, TodosDiffer, Zenon DEF StandInv
        <4>4. CASE imp.todo = ToIndex
          BY <2>1, <3>1, <4>4, TodoFacts, Zenon DEF StandInv
        <4> QED  BY <2>1, <2>4, <4>1, <4>2, <4>3, <4>4, Zenon DEF StandInv
      <3> QED  BY <2>1, <2>2, <3>1, <3>2, <3>3, Zenon DEF StandInv
    <2>5. CASE imp.todo = ToImages /\ Len(imp.jobs) = 2
      <3>1. /\ imp'.pc = "import" /\ imp'.todo = <<>> /\ imp'.jobs = Tail(imp.jobs)
            /\ imp'.past = imp.past \cup {[job |-> Job, tar |-> Tarball]} /\ imp'.tar = imp.tar
        BY <2>1, <2>5, WroteEffect, Zenon
      <3>2. /\ imp'.jobs \in JobLists /\ Len(imp'.jobs) = 1 /\ Job' = imp.jobs[2] /\ Job = imp.jobs[1]
        BY <2>3, <2>5, <3>1, JobListFacts, Zenon DEF Job
      <3>3. /\ imp.past = {} /\ Job.type = "container" /\ Job'.type = "virtual-machine" /\ Job.alias = Job'.alias
        BY <2>1, <2>5, <3>2, Zenon DEF StandInv
      <3>4. \A p \in imp'.past : p.job.type = "container" /\ p.job.alias = Job'.alias
        BY <3>1, <3>3
      <3> QED  BY <2>2, <3>1, <3>2, <3>3, <3>4, Zenon DEF StandInv
    <2>6. CASE imp.todo = ToImages /\ Len(imp.jobs) # 2
      <3>1. imp'.pc = "done" /\ imp'.todo = <<>>
        BY <2>1, <2>6, WroteEffect, Zenon
      <3> QED  BY <2>2, <3>1, Zenon DEF StandInv, Imports
    <2> QED  BY <2>4, <2>5, <2>6, Zenon
  <1>6. CASE WriteBreaksOff
    <2>1. Fails /\ UNCHANGED local
      BY <1>6, BreakCases, Zenon
    <2>2. imp' \in ImpRecords /\ imp'.pc = "failed" /\ imp'.todo = <<>> /\ ~Imports'
      BY <2>1, FailsEffect, Zenon
    <2> QED  BY <1>6, <2>1, <2>2, FilesTyped, Zenon DEF IndexTypes, StandInv
  <1> QED  BY <1>1, <1>2, <1>3, <1>4, <1>5, <1>6, IndexSteps, Zenon

-----------------------------------------------------------------------------
\* The rows of images.json

\* The rows in memory after a step: as they were, read from images.json, merged
\* with those of an image, or none.
LEMMA ItemsAfter ==
    ASSUME IndexTypes, StandInv, IndexNext
    PROVE  \/ imp'.items = {}
           \/ imp'.items = imp.items /\ Imports
           \/ imp'.items = catalog.items /\ catalog' = catalog
           \/ \E tar \in Tarballs : /\ UpdateStep(tar) /\ Job \in JobRecords /\ catalog' = catalog
                                    /\ imp'.items = Merged(imp.items, NewItems(Job, tar))
  <1>1. CASE BeginStep
    BY <1>1, BeginEffect, Zenon DEF BeginStep
  <1>2. CASE FailStep
    BY <1>2, FailsEffect, Zenon DEF FailStep
  <1>3. CASE InfoStep
    BY <1>3, InfoEffect, JobFacts, Zenon DEF InfoStep, Imports
  <1>4. CASE \E tar \in Tarballs : UpdateStep(tar)
    <2>1. PICK tar \in Tarballs : UpdateStep(tar)
      BY <1>4, Zenon
    <2>2. Imports
      BY <2>1, Zenon DEF UpdateStep, Imports
    <2>3. imp'.items = Merged(imp.items, NewItems(Job, tar)) /\ Job \in JobRecords
      BY <2>1, <2>2, UpdateEffect, JobFacts, Zenon DEF UpdateStep
    <2> QED  BY <2>1, <2>3, Zenon DEF UpdateStep
  <1>5. CASE Write
    BY <1>5, WriteCases, WroteEffect, Zenon
  <1>6. CASE WriteBreaksOff
    BY <1>6, BreakCases, FailsEffect, Zenon
  <1> QED  BY <1>1, <1>2, <1>3, <1>4, <1>5, <1>6, IndexSteps, Zenon

\* images.json after a step.
LEMMA CatalogAfter ==
    ASSUME IndexTypes, StandInv, IndexNext
    PROVE  \/ catalog' = catalog
           \/ catalog' = [ok |-> FALSE, items |-> {}, aliases |-> {}]
           \/ /\ catalog' = [ok |-> TRUE, items |-> imp.items, aliases |-> imp.aliases]
              /\ Write /\ imp.todo = ToImages /\ index' = index /\ stored' = stored
  <1>1. CASE BeginStep
    BY <1>1, BeginEffect, Zenon DEF BeginStep
  <1>2. CASE FailStep \/ InfoStep \/ \E tar \in Tarballs : UpdateStep(tar)
    BY <1>2, Zenon DEF FailStep, InfoStep, UpdateStep
  <1>3. CASE Write
    BY <1>3, WriteCases, Zenon DEF CopyImage, WriteRootfs, WriteMetadata, WriteIndex, WriteProducts
  <1>4. CASE WriteBreaksOff
    BY <1>4, BreakCases, Zenon
  <1> QED  BY <1>1, <1>2, <1>3, <1>4, IndexSteps, Zenon

\* The files of the directory after a step.
LEMMA StoredAfter ==
    ASSUME IndexTypes, StandInv, IndexNext
    PROVE  stored' = stored \/ \E path, bytes : stored' = Stored(path, bytes)
  <1>1. CASE BeginStep
    BY <1>1, BeginEffect, Zenon DEF BeginStep
  <1>2. CASE FailStep \/ InfoStep \/ \E tar \in Tarballs : UpdateStep(tar)
    BY <1>2, Zenon DEF FailStep, InfoStep, UpdateStep
  <1>3. CASE Write
    BY <1>3, WriteCases, Zenon DEF CopyImage, WriteRootfs, WriteMetadata, WriteIndex, WriteProducts
  <1>4. CASE WriteBreaksOff
    BY <1>4, BreakCases, Zenon
  <1> QED  BY <1>1, <1>2, <1>3, <1>4, IndexSteps, Zenon

\* One row for a key, one file for a name.
LEMMA KeysKept ==
    ASSUME IndexTypes, StandInv, KeysInv, IndexNext
    PROVE  KeysInv'
  <1>1. \A x, y \in catalog.items : Key(x) = Key(y) => x = y
    BY Zenon DEF KeysInv
  <1>2. \A x, y \in imp.items : Key(x) = Key(y) => x = y
    BY Zenon DEF KeysInv
  <1>3. \A x, y \in catalog'.items : Key(x) = Key(y) => x = y
    <2>1. catalog'.items \in {catalog.items, {}, imp.items}
      BY CatalogAfter
    <2> QED  BY <1>1, <1>2, <2>1, Zenon
  <1>4. \A x, y \in imp'.items : Key(x) = Key(y) => x = y
    <2>1. ASSUME NEW tar \in Tarballs, Job \in JobRecords, imp'.items = Merged(imp.items, NewItems(Job, tar))
          PROVE  \A x, y \in imp'.items : Key(x) = Key(y) => x = y
      BY <1>2, <2>1, NewItemsKeys, Zenon DEF Merged
    <2> QED  BY <1>1, <1>2, <2>1, ItemsAfter, Zenon
  <1>5. \A f, g \in stored' : f.path = g.path => f = g
    <2>1. ASSUME NEW path, NEW bytes, stored' = Stored(path, bytes)
          PROVE  \A f, g \in stored' : f.path = g.path => f = g
      <3>1. \A f \in stored' : /\ f.path = path => f = [path |-> path, bytes |-> bytes]
                               /\ f.path # path => f \in stored
        <4>1. \A f \in stored' : f = [path |-> path, bytes |-> bytes] \/ (f \in stored /\ f.path # path)
          BY <2>1, StoredEffect, Zenon
        <4> QED  BY <4>1
      <3>2. \A f, g \in stored : f.path = g.path => f = g
        BY Zenon DEF KeysInv
      <3> QED  BY <3>1, <3>2, Zenon
    <2> QED  BY <2>1, StoredAfter, Zenon DEF KeysInv
  <1> QED  BY <1>3, <1>4, <1>5, Zenon DEF KeysInv, Key

\* Merging keeps the metadata beside a rootfs.
LEMMA MergedMeta ==
    ASSUME NEW items, HasMeta(items), NEW job \in JobRecords, NEW t \in Tarballs
    PROVE  HasMeta(Merged(items, NewItems(job, t)))
  <1> DEFINE new == NewItems(job, t)
  <1>1. SUFFICES ASSUME NEW x \in Merged(items, new), x.ftype = "disk"
                 PROVE  \E y \in Merged(items, new) : Key(y) = <<x.product, x.version, x.server, "meta">>
    BY Zenon DEF HasMeta
  <1>2. CASE x \in new
    <2>1. job.type = "virtual-machine"
      BY <1>1, <1>2, NewItemFacts, Zenon DEF JobRecords, ImageTypes
    <2>2. \E y \in new : Key(y) = <<x.product, x.version, x.server, "meta">>
      BY <1>2, <2>1, NewItemFacts, Zenon
    <2> QED  BY <2>2, Zenon DEF Merged
  <1>3. CASE x \in items
    <2>1. PICK y \in items : Key(y) = <<x.product, x.version, x.server, "meta">>
      BY <1>1, <1>3, Zenon DEF HasMeta
    <2> HIDE DEF new
    <2> QED  BY <2>1, Zenon DEF Merged
  <1> QED  BY <1>1, <1>2, <1>3, Zenon DEF Merged

\* index.json does not lag behind images.json.
LEMMA ShowKept ==
    ASSUME IndexTypes, StandInv, ShowInv, IndexNext
    PROVE  ShowInv'
  <1>0. IndexTypes' /\ StandInv'
    BY IndexTyped, Zenon
  <1>1. CASE BeginStep
    <2>1. PICK list \in JobLists : Begin(list)
      BY <1>1, Zenon DEF BeginStep
    <2>2. /\ UNCHANGED <<index, catalog>> /\ imp'.todo = <<>>
          /\ \/ imp'.pc = "failed"
             \/ Readable /\ imp'.index = index.products /\ imp'.items = catalog.items
      BY <2>1, BeginEffect, Zenon
    <2> QED  BY <2>2, TodosDiffer, Zenon DEF ShowInv, HasMeta, Imports, Readable, Key
  <1>2. CASE FailStep
    <2>1. UNCHANGED <<index, catalog>> /\ ~Imports'
      BY <1>2, FailsEffect, Zenon DEF FailStep
    <2> QED  BY <2>1, Zenon DEF ShowInv, HasMeta, Key
  <1>3. CASE InfoStep
    <2>1. Imports /\ UNCHANGED <<index, catalog>>
      BY <1>3, Zenon DEF InfoStep, Imports
    <2>2. imp'.todo = imp.todo /\ imp'.index = imp.index /\ imp'.items = imp.items
      BY <1>3, <2>1, InfoEffect, JobFacts, Zenon DEF InfoStep
    <2> QED  BY <2>1, <2>2, Zenon DEF ShowInv, HasMeta, Readable, Key
  <1>4. CASE \E tar \in Tarballs : UpdateStep(tar)
    <2>1. PICK tar \in Tarballs : UpdateStep(tar)
      BY <1>4, Zenon
    <2>2. Imports /\ UNCHANGED <<index, catalog>>
      BY <2>1, Zenon DEF UpdateStep, Imports
    <2>3. Job \in JobRecords /\ imp.jobs \in JobLists
      BY <2>2, JobFacts, Zenon
    <2>4. /\ imp'.index = imp.index \cup {tar.product} /\ imp'.items = Merged(imp.items, NewItems(Job, tar))
          /\ imp'.todo \in {ToCopy, ToRootfs}
      BY <2>1, <2>3, UpdateEffect, Zenon DEF UpdateStep
    <2>5. HasMeta(Merged(imp.items, NewItems(Job, tar)))
      BY <2>2, <2>3, MergedMeta, Zenon DEF ShowInv
    <2>6. \A x \in imp'.items : x.product \in imp'.index
      BY <2>2, <2>3, <2>4, NewItemFacts DEF ShowInv, Merged
    <2>7. imp'.todo # ToImages
      BY <2>4, TodosDiffer, Zenon
    <2>8. HasMeta(imp'.items) /\ HasMeta(catalog'.items)
      BY <2>2, <2>4, <2>5, Zenon DEF ShowInv
    <2>9. /\ Readable' /\ (index'.ok => \A x \in catalog'.items : x.product \in index'.products)
          /\ index'.products \subseteq imp'.index
      BY <2>2, <2>4, Zenon DEF ShowInv, Readable
    <2> QED  BY <2>6, <2>7, <2>8, <2>9, Zenon DEF ShowInv, HasMeta, Key
  <1>5. CASE Write
    <2>1. imp.pc = "write" /\ Imports /\ Wrote
      BY <1>5, WriteCases, Zenon
    <2>2. /\ Readable /\ index.ok /\ catalog.ok /\ HasMeta(catalog.items) /\ HasMeta(imp.items)
          /\ \A x \in catalog.items : x.product \in index.products
          /\ \A x \in imp.items : x.product \in imp.index
          /\ index.products \subseteq imp.index
      BY <2>1, Zenon DEF ShowInv, Readable
    <2>3. CASE imp.todo \in {ToCopy, ToRootfs, ToMeta}
      <3>1. UNCHANGED <<index, catalog>>
        BY <1>5, <2>3, WriteCases, TodosDiffer, Zenon DEF CopyImage, WriteRootfs, WriteMetadata
      <3>2. imp.todo # ToImages
        BY <2>3, TodosDiffer, Zenon
      <3>3. imp'.todo = Tail(imp.todo) /\ imp'.index = imp.index /\ imp'.items = imp.items
        BY <2>1, <3>2, WroteEffect, Zenon
      <3>4. imp'.todo # ToImages
        BY <2>3, <3>3, TodoFacts, TodosDiffer, Zenon
      <3> QED  BY <2>2, <3>1, <3>3, <3>4, Zenon DEF ShowInv, Readable, HasMeta, Key
    <2>4. CASE imp.todo = ToIndex
      <3>1. index' = [ok |-> TRUE, products |-> imp.index] /\ UNCHANGED catalog
        BY <1>5, <2>4, WriteCases, TodosDiffer, Zenon DEF WriteIndex
      <3>2. imp'.index = imp.index /\ imp'.items = imp.items
        BY <2>1, <2>4, WroteEffect, TodosDiffer, Zenon
      <3> QED  BY <2>2, <3>1, <3>2, Zenon DEF ShowInv, Readable, HasMeta, Key
    <2>5. CASE imp.todo = ToImages
      <3>1. catalog' = [ok |-> TRUE, items |-> imp.items, aliases |-> imp.aliases] /\ UNCHANGED index
        BY <1>5, <2>5, WriteCases, TodosDiffer, Zenon DEF WriteProducts
      <3>2. catalog'.ok /\ catalog'.items = imp.items /\ index.products = imp.index
        BY <2>1, <2>5, <3>1, Zenon DEF ShowInv
      <3>3. \/ imp'.pc = "done"
            \/ imp'.todo = <<>> /\ imp'.index = imp.index /\ imp'.items = imp.items
        BY <2>1, <2>5, WroteEffect, Zenon
      <3>4. <<>> # ToImages
        BY TodosDiffer, Zenon
      <3> QED  BY <2>2, <3>1, <3>2, <3>3, <3>4, SMTT(30) DEF ShowInv, Readable, HasMeta, Key, Imports
    <2> QED  BY <2>1, <2>3, <2>4, <2>5, Zenon DEF StandInv
  <1>6. CASE WriteBreaksOff
    <2>1. ~Imports'
      BY <1>6, BreakCases, FailsEffect, Zenon
    <2>2. \/ UNCHANGED <<index, catalog>>
          \/ index' = [ok |-> FALSE, products |-> {}] /\ UNCHANGED catalog
          \/ catalog' = [ok |-> FALSE, items |-> {}, aliases |-> {}] /\ UNCHANGED index
      BY <1>6, BreakCases, Zenon
    <2> QED  BY <2>1, <2>2, SMTT(30) DEF ShowInv, HasMeta, Key
  <1> QED  BY <1>1, <1>2, <1>3, <1>4, <1>5, <1>6, IndexSteps, Zenon

\* The rows of other products and versions stay.
LEMMA OthersKept ==
    ASSUME IndexTypes, StandInv, OthersInv, IndexNext
    PROVE  OthersInv'
  <1>1. CASE BeginStep
    <2>1. PICK list \in JobLists : Begin(list)
      BY <1>1, Zenon DEF BeginStep
    <2>2. /\ UNCHANGED catalog
          /\ \/ imp'.pc = "failed"
             \/ imp'.pc = "import" /\ imp'.items = catalog.items
      BY <2>1, BeginEffect, Zenon
    <2> QED  BY <2>2, Zenon DEF OthersInv
  <1>2. CASE FailStep
    <2>1. imp'.pc = "failed"
      BY <1>2, FailsEffect, Zenon DEF FailStep
    <2> QED  BY <2>1, Zenon DEF OthersInv
  <1>3. CASE InfoStep
    <2>1. Imports /\ imp.pc = "import" /\ UNCHANGED catalog
      BY <1>3, Zenon DEF InfoStep, Imports
    <2>2. imp'.pc = "info" /\ imp'.items = imp.items
      BY <1>3, <2>1, InfoEffect, JobFacts, Zenon DEF InfoStep
    <2> QED  BY <2>1, <2>2, Zenon DEF OthersInv
  <1>4. CASE \E tar \in Tarballs : UpdateStep(tar)
    <2>1. PICK tar \in Tarballs : UpdateStep(tar)
      BY <1>4, Zenon
    <2>2. Imports /\ UNCHANGED catalog /\ imp.pc \in {"import", "info"}
      BY <2>1, Zenon DEF UpdateStep, Imports
    <2>3. Job \in JobRecords /\ imp.jobs \in JobLists
      BY <2>2, JobFacts, Zenon
    <2>4. imp'.pc = "write" /\ imp'.tar = <<tar>> /\ imp'.items = Merged(imp.items, NewItems(Job, tar))
      BY <2>1, <2>3, UpdateEffect, Zenon DEF UpdateStep
    <2>5. Tarball' = tar /\ imp.items = catalog.items
      BY <2>2, <2>4 DEF Tarball, OthersInv
    <2>6. ASSUME NEW x \in catalog.items
          PROVE  \/ x \in imp'.items
                 \/ /\ x.product = tar.product /\ x.version = tar.version
                    /\ \E y \in imp'.items : Key(y) = Key(x)
      <3>1. CASE \A y \in NewItems(Job, tar) : Key(x) # Key(y)
        BY <2>4, <2>5, <3>1, Zenon DEF Merged
      <3>2. CASE \E y \in NewItems(Job, tar) : Key(x) = Key(y)
        <4>1. PICK y \in NewItems(Job, tar) : Key(x) = Key(y)
          BY <3>2, Zenon
        <4>2. y.product = tar.product /\ y.version = tar.version
          BY <2>3, NewItemFacts, Zenon
        <4>3. y \in imp'.items
          BY <2>4, <4>1, Zenon DEF Merged
        <4>4. x.product = y.product /\ x.version = y.version
          BY <4>1, Zenon DEF Key
        <4> QED  BY <4>1, <4>2, <4>3, <4>4, Zenon
      <3> QED  BY <3>1, <3>2, Zenon
    <2> QED  BY <2>2, <2>4, <2>5, <2>6, Zenon DEF OthersInv
  <1>5. CASE Write
    <2>1. imp.pc = "write" /\ Imports /\ Wrote
      BY <1>5, WriteCases, Zenon
    <2>2. CASE imp.todo # ToImages
      <3>1. imp'.pc = "write" /\ imp'.tar = imp.tar /\ imp'.items = imp.items
        BY <2>1, <2>2, WroteEffect, Zenon
      <3>2. UNCHANGED catalog
        BY <1>5, <2>2, WriteCases, Zenon DEF CopyImage, WriteRootfs, WriteMetadata, WriteIndex
      <3> QED  BY <2>1, <3>1, <3>2, Zenon DEF OthersInv, Tarball
    <2>3. CASE imp.todo = ToImages
      <3>1. catalog' = [ok |-> TRUE, items |-> imp.items, aliases |-> imp.aliases]
        BY <1>5, <2>3, WriteCases, TodosDiffer, Zenon DEF WriteProducts
      <3>2. imp'.pc = "done" \/ (imp'.pc = "import" /\ imp'.items = imp.items)
        BY <2>1, <2>3, WroteEffect, Zenon
      <3> QED  BY <3>1, <3>2, Zenon DEF OthersInv
    <2> QED  BY <2>2, <2>3, Zenon
  <1>6. CASE WriteBreaksOff
    <2>1. imp'.pc = "failed"
      BY <1>6, BreakCases, FailsEffect, Zenon
    <2> QED  BY <2>1, Zenon DEF OthersInv
  <1> QED  BY <1>1, <1>2, <1>3, <1>4, <1>5, <1>6, IndexSteps, Zenon

\* An import that has not raced reads the same bytes again.
LEMMA RereadKept ==
    ASSUME IndexTypes, StandInv, RereadInv, IndexNext, raced => raced'
    PROVE  RereadInv'
  <1>1. CASE BeginStep
    <2>1. PICK list \in JobLists : Begin(list)
      BY <1>1, Zenon DEF BeginStep
    <2>2. imp'.pc \in {"failed", "import"}
      BY <2>1, BeginEffect, Zenon
    <2> QED  BY <2>2, Zenon DEF RereadInv
  <1>2. CASE FailStep
    <2>1. imp'.pc = "failed"
      BY <1>2, FailsEffect, Zenon DEF FailStep
    <2> QED  BY <2>1, Zenon DEF RereadInv
  <1>3. CASE InfoStep
    <2>1. Imports /\ UNCHANGED local
      BY <1>3, Zenon DEF InfoStep, Imports
    <2>2. imp'.pc = "info" /\ imp'.tar = local[Job.path] /\ imp'.jobs = imp.jobs
      BY <1>3, <2>1, InfoEffect, JobFacts, Zenon DEF InfoStep
    <2> QED  BY <2>1, <2>2, Zenon DEF RereadInv, Job
  <1>4. CASE \E tar \in Tarballs : UpdateStep(tar)
    <2>1. PICK tar \in Tarballs : UpdateStep(tar)
      BY <1>4, Zenon
    <2>2. Imports /\ UNCHANGED local /\ local[Job.path] # <<>>
      BY <2>1, Zenon DEF UpdateStep, Imports
    <2>3. imp.jobs \in JobLists /\ local[Job.path][1] \in Tarballs
      BY <2>2, JobFacts, Zenon
    <2>4. imp'.pc = "write" /\ imp'.tar = <<tar>> /\ imp'.jobs = imp.jobs
      BY <2>1, <2>3, UpdateEffect, Zenon DEF UpdateStep
    <2>5. Tarball' = tar /\ Job' = Job
      BY <2>4 DEF Tarball, Job
    <2>6. ContainerSha(tar) = ContainerSha(local[Job.path][1])
      <3>1. /\ tar.meta = local[Job.path][1].meta /\ tar.root = local[Job.path][1].root
            /\ tar.whole = local[Job.path][1].whole
        BY <2>1, <2>3, Zenon DEF UpdateStep, Tarballs
      <3> QED  BY <3>1, Zenon DEF ContainerSha
    <2> QED  BY <2>2, <2>4, <2>5, <2>6, Zenon DEF RereadInv, ContainerSha
  <1>5. CASE Write
    <2>1. imp.pc = "write" /\ Imports /\ Wrote /\ UNCHANGED local
      BY <1>5, WriteCases, Zenon
    <2>2. \/ imp'.pc \in {"import", "done"}
          \/ imp'.pc = "write" /\ imp'.tar = imp.tar /\ imp'.jobs = imp.jobs
      BY <2>1, WroteEffect, Zenon
    <2> QED  BY <2>1, <2>2, Zenon DEF RereadInv, Job, Tarball, ContainerSha
  <1>6. CASE WriteBreaksOff
    <2>1. imp'.pc = "failed"
      BY <1>6, BreakCases, FailsEffect, Zenon
    <2> QED  BY <2>1, Zenon DEF RereadInv
  <1> QED  BY <1>1, <1>2, <1>3, <1>4, <1>5, <1>6, IndexSteps, Zenon

\* What is hashed is whole, but for an export that raced or broke off.
LEMMA WholeKept ==
    ASSUME IndexTypes, StandInv, OthersInv, WholeInv, LocalInv, RaceInv, OutputWholeOrGone, IndexNext,
           raced => raced', UNCHANGED residue
    PROVE  WholeInv'
  <1>1. ASSUME NEW tar \in Tarballs, UpdateStep(tar), NEW x \in NewItems(Job, tar), x.ftype = "combined"
        PROVE  x.sha[3] \/ raced \/ ("output" \in residue /\ Shared)
    <2>1. Imports /\ local[Job.path] # <<>>
      BY <1>1, Zenon DEF UpdateStep, Imports
    <2>2. Job \in JobRecords /\ imp.jobs \in JobLists /\ Job.path \in Paths /\ local[Job.path][1] \in Tarballs
      BY <2>1, JobFacts, Zenon
    <2>3. x.sha[3] = tar.whole
      <3>1. x.sha = ContainerSha(tar)
        BY <1>1, <2>2, NewItemFacts, Zenon DEF JobRecords, ImageTypes
      <3>2. ContainerSha(tar)[3] = tar.whole
        BY Zenon DEF ContainerSha
      <3> QED  BY <3>1, <3>2, Zenon
    <2>4. tar.whole = local[Job.path][1].whole
      BY <1>1, <2>2, Zenon DEF UpdateStep, Tarballs
    <2>5. CASE Job.path # Output
      <3>1. local[Job.path] = Artifacts[Job.path]
        BY <2>2, <2>5, Zenon DEF LocalInv
      <3>2. local[Job.path][1].whole
        BY <2>1, <2>2, <3>1, ArtifactsAssumption, Zenon DEF Given
      <3> QED  BY <2>3, <2>4, <3>2, Zenon
    <2>6. CASE Job.path = Output
      <3>1. Shared
        BY <2>2, <2>6, JobListFacts, Zenon DEF Shared, Job
      <3> QED  BY <2>1, <2>3, <2>4, <2>6, <3>1, Zenon DEF RaceInv, OutputWholeOrGone
    <2> QED  BY <2>5, <2>6, Zenon
  <1>2. CASE BeginStep
    <2>1. PICK list \in JobLists : Begin(list)
      BY <1>2, Zenon DEF BeginStep
    <2>2. UNCHANGED catalog /\ imp'.items \in {{}, catalog.items}
      BY <2>1, BeginEffect, Zenon
    <2> QED  BY <2>2, Zenon DEF WholeInv
  <1>3. CASE FailStep \/ WriteBreaksOff
    <2>1. imp'.items = {}
      BY <1>3, FailsEffect, BreakCases, Zenon DEF FailStep
    <2> QED  BY <2>1, Zenon DEF WholeInv
  <1>4. CASE InfoStep
    <2>1. Imports /\ imp.pc = "import" /\ UNCHANGED catalog
      BY <1>4, Zenon DEF InfoStep, Imports
    <2>2. imp'.items = catalog'.items
      BY <1>4, <2>1, InfoEffect, JobFacts, Zenon DEF InfoStep, OthersInv
    <2> QED  BY <2>2, Zenon DEF WholeInv
  <1>5. CASE \E tar \in Tarballs : UpdateStep(tar)
    <2>1. PICK tar \in Tarballs : UpdateStep(tar)
      BY <1>5, Zenon
    <2>2. Imports /\ UNCHANGED catalog /\ imp.items = catalog.items
      BY <2>1, Zenon DEF UpdateStep, Imports, OthersInv
    <2>3. imp'.pc = "write" /\ imp'.jobs = imp.jobs /\ imp'.items = Merged(imp.items, NewItems(Job, tar))
      BY <2>1, <2>2, JobFacts, UpdateEffect, Zenon DEF UpdateStep
    <2>4. Imports' /\ Shared' = Shared
      BY <2>3, Zenon DEF Imports, Shared
    <2>5. imp'.items \ catalog'.items \subseteq NewItems(Job, tar)
      BY <2>2, <2>3, Zenon DEF Merged
    <2> QED  BY <1>1, <2>1, <2>4, <2>5, Zenon DEF WholeInv
  <1>6. CASE Write
    <2>1. imp.pc = "write" /\ Imports /\ Wrote
      BY <1>6, WriteCases, Zenon
    <2>2. CASE imp.todo # ToImages
      <3>1. imp'.pc = "write" /\ imp'.jobs = imp.jobs /\ imp'.items = imp.items
        BY <2>1, <2>2, WroteEffect, Zenon
      <3>2. UNCHANGED catalog
        BY <1>6, <2>2, WriteCases, Zenon DEF CopyImage, WriteRootfs, WriteMetadata, WriteIndex
      <3>3. Imports' /\ Shared' = Shared
        BY <3>1, Zenon DEF Imports, Shared
      <3> QED  BY <3>1, <3>2, <3>3, Zenon DEF WholeInv
    <2>3. CASE imp.todo = ToImages
      <3>1. catalog' = [ok |-> TRUE, items |-> imp.items, aliases |-> imp.aliases]
        BY <1>6, <2>3, WriteCases, TodosDiffer, Zenon DEF WriteProducts
      <3>2. imp'.items \in {{}, imp.items}
        BY <2>1, <2>3, WroteEffect, Zenon
      <3> QED  BY <3>1, <3>2, Zenon DEF WholeInv
    <2> QED  BY <2>2, <2>3, Zenon
  <1> QED  BY <1>2, <1>3, <1>4, <1>5, <1>6, IndexSteps, Zenon

-----------------------------------------------------------------------------
\* The files of the directory

\* The bytes under a name after a write.
LEMMA ContentAfter ==
    ASSUME NEW path, NEW bytes, stored' = Stored(path, bytes)
    PROVE  /\ Content(path)' = {bytes}
           /\ \A q : q # path => Content(q)' = Content(q)
  <1>1. \A f \in stored' : f = [path |-> path, bytes |-> bytes] \/ (f \in stored /\ f.path # path)
    BY StoredEffect, Zenon
  <1>2. [path |-> path, bytes |-> bytes] \in stored'
    BY StoredEffect, Zenon
  <1>3. \A f \in stored : f \in stored' \/ f.path = path
    BY StoredEffect, Zenon
  <1>4. \A f \in stored' : f.path = path => f.bytes = bytes
    BY <1>1
  <1>5. \A q : q # path => {g \in stored' : g.path = q} = {g \in stored : g.path = q}
    BY <1>1, <1>3
  <1>6. {g \in stored' : g.path = path} = {[path |-> path, bytes |-> bytes]}
    BY <1>1, <1>2
  <1>7. Content(path)' = {bytes}
    <2>1. Content(path)' = {f.bytes : f \in {[path |-> path, bytes |-> bytes]}}
      BY <1>6, Zenon DEF Content
    <2> QED  BY <2>1, Zenon
  <1>8. ASSUME NEW q, q # path PROVE Content(q)' = Content(q)
    <2>1. {g \in stored' : g.path = q} = {g \in stored : g.path = q}
      BY <1>5, <1>8, Zenon
    <2> QED  BY <2>1, Zenon DEF Content
  <1> QED  BY <1>7, <1>8, Zenon

\* A file that is there stays there.
LEMMA PresentGrows ==
    ASSUME IndexTypes, StandInv, IndexNext
    PROVE  \A x : Present(x) => Present(x)'
  <1>1. ASSUME NEW path, NEW bytes, stored' = Stored(path, bytes), NEW x, Present(x)
        PROVE  Present(x)'
    <2>1. PICK f \in stored : f.path = x.path
      BY <1>1, Zenon DEF Present
    <2>2. [path |-> path, bytes |-> bytes] \in stored' /\ (f \in stored' \/ f.path = path)
      BY <1>1, StoredEffect, Zenon
    <2> QED  BY <2>1, <2>2, Zenon DEF Present
  <1>2. stored' = stored => \A x : Present(x) => Present(x)'
    BY Zenon DEF Present
  <1> QED  BY <1>1, <1>2, StoredAfter, Zenon

\* The rows of an image that is about to be written have no file yet.
LEMMA NewNotYet ==
    ASSUME NEW job \in JobRecords, NEW t \in Tarballs, NEW x \in NewItems(job, t),
           imp'.todo = IF job.type = "container" THEN ToCopy ELSE ToRootfs
    PROVE  NotYet(x)'
  BY NewItemFacts, Zenon DEF NotYet, JobRecords, ImageTypes

\* Every row has its file.
LEMMA PresentKept ==
    ASSUME IndexTypes, StandInv, PresentInv, IndexNext
    PROVE  PresentInv'
  <1>0. \A x : Present(x) => Present(x)'
    BY PresentGrows, Zenon
  <1>1. CASE BeginStep
    <2>1. PICK list \in JobLists : Begin(list)
      BY <1>1, Zenon DEF BeginStep
    <2>2. UNCHANGED catalog /\ imp'.items \in {{}, catalog.items}
      BY <2>1, BeginEffect, Zenon
    <2> QED  BY <1>0, <2>2, Zenon DEF PresentInv
  <1>2. CASE FailStep
    <2>1. UNCHANGED catalog /\ ~Imports'
      BY <1>2, FailsEffect, Zenon DEF FailStep
    <2> QED  BY <1>0, <2>1, Zenon DEF PresentInv
  <1>3. CASE InfoStep
    <2>1. Imports /\ imp.pc = "import" /\ UNCHANGED catalog
      BY <1>3, Zenon DEF InfoStep, Imports
    <2>2. imp'.items = imp.items
      BY <1>3, <2>1, InfoEffect, JobFacts, Zenon DEF InfoStep
    <2> QED  BY <1>0, <2>1, <2>2, Zenon DEF PresentInv
  <1>4. CASE \E tar \in Tarballs : UpdateStep(tar)
    <2>1. PICK tar \in Tarballs : UpdateStep(tar)
      BY <1>4, Zenon
    <2>2. Imports /\ imp.pc # "write" /\ UNCHANGED catalog
      BY <2>1, Zenon DEF UpdateStep, Imports
    <2>3. Job \in JobRecords /\ imp.jobs \in JobLists
      BY <2>2, JobFacts, Zenon
    <2>4. /\ imp'.pc = "write" /\ imp'.tar = <<tar>> /\ imp'.jobs = imp.jobs
          /\ imp'.todo = IF Job.type = "container" THEN ToCopy ELSE ToRootfs
          /\ imp'.items = Merged(imp.items, NewItems(Job, tar))
      BY <2>1, <2>3, UpdateEffect, Zenon DEF UpdateStep
    <2>5. Job' = Job /\ Tarball' = tar
      BY <2>4 DEF Job, Tarball
    <2>6. NewItems(Job, Tarball)' = NewItems(Job, tar)
      BY <2>5, Zenon DEF NewItems, Servers
    <2>7. \A x \in NewItems(Job, tar) : NotYet(x)'
      BY <2>3, <2>4, NewNotYet, Zenon
    <2>8. \A x \in imp'.items : x \in NewItems(Job, tar) \/ Present(x)'
      BY <1>0, <2>2, <2>4, Zenon DEF PresentInv, Merged
    <2> QED  BY <1>0, <2>2, <2>4, <2>6, <2>7, <2>8, Zenon DEF PresentInv
  <1>5. CASE Write
    <2>1. imp.pc = "write" /\ Imports /\ Wrote
      BY <1>5, WriteCases, Zenon
    <2>2. Job \in JobRecords /\ Tarball \in Tarballs
      BY <2>1, JobFacts, Zenon DEF StandInv
    <2>3. \A x \in imp.items : Present(x)' \/ (x \in NewItems(Job, Tarball) /\ NotYet(x))
      BY <1>0, <2>1, Zenon DEF PresentInv
    <2>4. ASSUME NEW path, NEW bytes, stored' = Stored(path, bytes), NEW x, x.path = path
          PROVE  Present(x)'
      <3>1. [path |-> path, bytes |-> bytes] \in stored'
        BY <2>4, StoredEffect, Zenon
      <3> QED  BY <2>4, <3>1, Zenon DEF Present
    <2>5. CASE imp.todo \in {ToCopy, ToRootfs, ToMeta, ToIndex}
      <3>1. imp.todo # ToImages
        BY <2>5, TodosDiffer, Zenon
      <3>2. /\ UNCHANGED catalog /\ imp'.pc = "write" /\ imp'.todo = Tail(imp.todo)
            /\ imp'.jobs = imp.jobs /\ imp'.tar = imp.tar /\ imp'.items = imp.items
        BY <1>5, <2>1, <3>1, WriteCases, WroteEffect, Zenon DEF CopyImage, WriteRootfs, WriteMetadata, WriteIndex
      <3>3. NewItems(Job, Tarball)' = NewItems(Job, Tarball)
        BY <3>2, Zenon DEF NewItems, Servers, Job, Tarball
      <3>4. ASSUME NEW x \in NewItems(Job, Tarball), NotYet(x) PROVE Present(x)' \/ NotYet(x)'
        <4>1. CASE x.ftype = "combined"
          <5>1. imp.todo = ToCopy /\ stored' = Stored(ContainerPath(ContainerSha(Tarball)), ContainerSha(local[Job.path][1]))
            BY <1>5, <3>4, <4>1, WriteCases, TodosDiffer, Zenon DEF NotYet, CopyImage
          <5>2. x.path = ContainerPath(ContainerSha(Tarball))
            BY <2>2, <4>1, NewItemFacts, Zenon DEF JobRecords, ImageTypes
          <5> QED  BY <2>4, <5>1, <5>2, Zenon
        <4>2. CASE x.ftype = "disk"
          <5>1. imp.todo = ToRootfs /\ stored' = Stored(RootfsPath(Tarball.meta), RootSha(Tarball))
            BY <1>5, <3>4, <4>2, WriteCases, TodosDiffer, Zenon DEF NotYet, WriteRootfs
          <5>2. x.path = RootfsPath(Tarball.meta)
            BY <2>2, <4>2, NewItemFacts, Zenon DEF JobRecords, ImageTypes
          <5> QED  BY <2>4, <5>1, <5>2, Zenon
        <4>3. CASE x.ftype = "meta" /\ imp.todo = ToMeta
          <5>1. stored' = Stored(MetadataPath(Tarball.meta), MetaSha(Tarball))
            BY <1>5, <4>3, WriteCases, TodosDiffer, Zenon DEF WriteMetadata
          <5>2. x.path = MetadataPath(Tarball.meta)
            BY <2>2, <4>3, NewItemFacts, Zenon DEF JobRecords, ImageTypes
          <5> QED  BY <2>4, <5>1, <5>2, Zenon
        <4>4. CASE x.ftype = "meta" /\ imp.todo = ToRootfs
          BY <3>2, <4>4, TodoFacts, Zenon DEF NotYet
        <4> QED  BY <3>4, <4>1, <4>2, <4>3, <4>4, Zenon DEF NotYet
      <3> QED  BY <1>0, <2>3, <3>2, <3>3, <3>4, Zenon DEF PresentInv
    <2>6. CASE imp.todo = ToImages
      <3>1. \A x : ~NotYet(x)
        BY <2>6, TodosDiffer, Zenon DEF NotYet
      <3>2. catalog'.items = imp.items
        BY <1>5, <2>6, WriteCases, TodosDiffer DEF WriteProducts
      <3>3. imp'.items \in {{}, imp.items}
        BY <2>1, <2>6, WroteEffect, Zenon
      <3> QED  BY <2>3, <3>1, <3>2, <3>3, Zenon DEF PresentInv
    <2> QED  BY <2>1, <2>5, <2>6, Zenon DEF StandInv
  <1>6. CASE WriteBreaksOff
    <2>1. ~Imports'
      BY <1>6, BreakCases, FailsEffect, Zenon
    <2>2. catalog'.items \in {{}, catalog.items}
      BY <1>6, BreakCases
    <2> QED  BY <1>0, <2>1, <2>2, Zenon DEF PresentInv
  <1> QED  BY <1>1, <1>2, <1>3, <1>4, <1>5, <1>6, IndexSteps, Zenon

\* The aliases after a product is given one.
SetAlias(aliases, product, alias) ==
    {a \in aliases : a.product # product} \cup {[product |-> product, alias |-> alias]}
LEMMA AliasSet ==
    ASSUME NEW aliases, NEW product, NEW alias
    PROVE  /\ [product |-> product, alias |-> alias] \in SetAlias(aliases, product, alias)
           /\ \A a \in SetAlias(aliases, product, alias) :
                 /\ a.product = product => a.alias = alias
                 /\ a \in aliases \/ (a.product = product /\ a.alias = alias)
           /\ \A a \in aliases : a.product # product => a \in SetAlias(aliases, product, alias)
  <1>1. PICK own : own = [product |-> product, alias |-> alias]
    BY Zenon
  <1>2. own.product = product /\ own.alias = alias
    BY <1>1, Zenon
  <1> QED  BY <1>1, <1>2, Zenon DEF SetAlias

\* What an import lists stays listed when the next image of its release is
\* merged.
LEMMA ListedStays ==
    ASSUME NEW p \in [job : JobRecords, tar : Tarballs], p.job.type = "container",
           NEW job \in JobRecords, job.type = "virtual-machine", p.job.alias = job.alias,
           NEW t \in Tarballs, NEW products, NEW aliases, NEW items, Listed(p, products, aliases, items)
    PROVE  Listed(p, products \cup {t.product},
                  IF job.alias = Unset THEN aliases
                  ELSE {a \in aliases : a.product # t.product} \cup {[product |-> t.product, alias |-> job.alias]},
                  Merged(items, NewItems(job, t)))
  <1> DEFINE al == IF job.alias = Unset THEN aliases
                   ELSE {a \in aliases : a.product # t.product}
                        \cup {[product |-> t.product, alias |-> job.alias]}
  <1>1. p.job \in JobRecords /\ p.tar \in Tarballs
    BY Zenon
  <1>2. ASSUME NEW x \in NewItems(p.job, p.tar)
        PROVE  x \in Merged(items, NewItems(job, t))
    <2>1. x \in items /\ x.ftype = "combined"
      BY <1>1, NewItemFacts, Zenon DEF Listed
    <2>2. \A y \in NewItems(job, t) : y.ftype # "combined"
      BY NewItemFacts, Zenon
    <2>3. \A y \in NewItems(job, t) : Key(x) # Key(y)
      BY <2>1, <2>2, Zenon DEF Key
    <2> QED  BY <2>1, <2>3, Zenon DEF Merged
  <1>3. p.job.alias # Unset =>
            /\ [product |-> p.tar.product, alias |-> p.job.alias] \in al
            /\ \A a \in al : a.product = p.tar.product => a.alias = p.job.alias
    <2>1. CASE job.alias = Unset
      BY <2>1, Zenon DEF Listed
    <2>2. CASE job.alias # Unset
      <3>1. PICK all : all = SetAlias(aliases, t.product, job.alias)
        BY Zenon
      <3>2. /\ [product |-> t.product, alias |-> job.alias] \in all
            /\ \A a \in all : a \in aliases \/ (a.product = t.product /\ a.alias = job.alias)
            /\ \A a \in aliases : a.product # t.product => a \in all
        <4>1. /\ [product |-> t.product, alias |-> job.alias] \in SetAlias(aliases, t.product, job.alias)
              /\ \A a \in SetAlias(aliases, t.product, job.alias) :
                    /\ a.product = t.product => a.alias = job.alias
                    /\ a \in aliases \/ (a.product = t.product /\ a.alias = job.alias)
              /\ \A a \in aliases : a.product # t.product => a \in SetAlias(aliases, t.product, job.alias)
          BY AliasSet, Zenon
        <4> QED  BY <3>1, <4>1, Zenon
      <3>3. al = all
        BY <2>2, <3>1, Zenon DEF SetAlias
      <3>4. PICK own : own = [product |-> p.tar.product, alias |-> p.job.alias]
        BY Zenon
      <3>5. own.product = p.tar.product
        BY <3>4, Zenon
      <3>6. own \in all
        BY <2>2, <3>2, <3>4, <3>5, Zenon DEF Listed
      <3> HIDE DEF al
      <3>7. \A a \in all : a.product = p.tar.product => a.alias = p.job.alias
        BY <2>2, <3>2, Zenon DEF Listed
      <3> QED  BY <3>3, <3>4, <3>6, <3>7, Zenon
    <2> QED  BY <2>1, <2>2, Zenon
  <1> QED  BY <1>2, <1>3, Zenon DEF Listed

\* Writing one of an image's files leaves the others as they are.
LEMMA WrittenHeld ==
    ASSUME IndexTypes, StandInv, RereadInv, ~raced, Write, imp.todo # ToImages,
           \A p \in imp.past : \A x \in NewItems(p.job, p.tar) : Content(x.path) = {x.sha},
           \A x \in NewItems(Job, Tarball) : Content(x.path) = {x.sha} \/ NotYet(x)
    PROVE  /\ \A p \in imp.past : \A x \in NewItems(p.job, p.tar) : Content(x.path)' = {x.sha}
           /\ \A x \in NewItems(Job, Tarball) : Content(x.path)' = {x.sha} \/ NotYet(x)'
  <1>1. imp.pc = "write" /\ Imports /\ Wrote
    BY WriteCases, Zenon
  <1>2. Job \in JobRecords /\ Tarball \in Tarballs /\ imp \in ImpRecords
    BY <1>1, JobFacts, Zenon DEF StandInv
  <1>3. imp'.todo = Tail(imp.todo)
    BY <1>1, WroteEffect, Zenon
  <1>4. ASSUME NEW p \in imp.past, NEW x \in NewItems(p.job, p.tar)
        PROVE  Job.type = "virtual-machine" /\ x.path.kind = "combined"
    <2>1. /\ p.job \in JobRecords /\ p.tar \in Tarballs /\ p.job.type = "container"
          /\ Job.type = "virtual-machine"
      BY <1>1, <1>2, <1>4, Zenon DEF StandInv, ImpRecords
    <2>2. x.path = ContainerPath(ContainerSha(p.tar))
      BY <1>4, <2>1, NewItemFacts, Zenon
    <2> QED  BY <2>1, <2>2, SMTT(30) DEF ContainerPath
  <1>5. CASE imp.todo = ToCopy
    <2>1. /\ Job.type = "container"
          /\ stored' = Stored(ContainerPath(ContainerSha(Tarball)), ContainerSha(local[Job.path][1]))
      BY <1>5, WriteCases, TodosDiffer, Zenon DEF CopyImage
    <2>2. ContainerSha(local[Job.path][1]) = ContainerSha(Tarball)
      BY <1>1, <2>1, Zenon DEF RereadInv
    <2>3. PICK path, bytes : /\ path = ContainerPath(ContainerSha(Tarball)) /\ bytes = ContainerSha(Tarball)
                             /\ stored' = Stored(path, bytes)
      BY <2>1, <2>2, Zenon
    <2>4. \A x \in NewItems(Job, Tarball) : x.path = path /\ x.sha = bytes
      BY <1>2, <2>1, <2>3, NewItemFacts, Zenon
    <2>5. Content(path)' = {bytes}
      BY <2>3, ContentAfter, Zenon
    <2>6. \A x \in NewItems(Job, Tarball) : Content(x.path)' = {x.sha}
      BY <2>4, <2>5, Zenon
    <2> QED  BY <1>4, <2>1, <2>6, Zenon
  <1>6. CASE imp.todo = ToRootfs
    <2>1. Job.type = "virtual-machine" /\ stored' = Stored(RootfsPath(Tarball.meta), RootSha(Tarball))
      BY <1>6, WriteCases, TodosDiffer, Zenon DEF WriteRootfs
    <2>0. PICK path, bytes : /\ path = RootfsPath(Tarball.meta) /\ bytes = RootSha(Tarball)
                             /\ stored' = Stored(path, bytes)
      BY <2>1, Zenon
    <2>2. Content(path)' = {bytes} /\ \A q : q # path => Content(q)' = Content(q)
      BY <2>0, ContentAfter, Zenon
    <2>3. \A p \in imp.past : \A x \in NewItems(p.job, p.tar) : x.path # path
      BY <1>4, <2>0, SMTT(30) DEF RootfsPath
    <2>4. ASSUME NEW x \in NewItems(Job, Tarball) PROVE Content(x.path)' = {x.sha} \/ NotYet(x)'
      <3>1. \/ x.ftype = "disk" /\ x.path = RootfsPath(Tarball.meta) /\ x.sha = RootSha(Tarball)
            \/ x.ftype = "meta"
        BY <1>2, <2>1, NewItemFacts, Zenon
      <3>2. x.ftype = "meta" => NotYet(x)'
        BY <1>3, <1>6, TodoFacts, Zenon DEF NotYet
      <3> QED  BY <2>2, <2>0, <3>1, <3>2, Zenon
    <2> QED  BY <2>2, <2>3, <2>4, Zenon
  <1>7. CASE imp.todo = ToMeta
    <2>1. Job.type = "virtual-machine" /\ stored' = Stored(MetadataPath(Tarball.meta), MetaSha(Tarball))
      BY <1>7, WriteCases, TodosDiffer, Zenon DEF WriteMetadata
    <2>0. PICK path, bytes : /\ path = MetadataPath(Tarball.meta) /\ bytes = MetaSha(Tarball)
                             /\ stored' = Stored(path, bytes)
      BY <2>1, Zenon
    <2>2. Content(path)' = {bytes} /\ \A q : q # path => Content(q)' = Content(q)
      BY <2>0, ContentAfter, Zenon
    <2>3. \A p \in imp.past : \A x \in NewItems(p.job, p.tar) : x.path # path
      BY <1>4, <2>0, SMTT(30) DEF MetadataPath
    <2>4. ASSUME NEW x \in NewItems(Job, Tarball) PROVE Content(x.path)' = {x.sha}
      <3>1. \/ x.ftype = "disk" /\ x.path = RootfsPath(Tarball.meta)
            \/ x.path = MetadataPath(Tarball.meta) /\ x.sha = MetaSha(Tarball)
        BY <1>2, <2>1, NewItemFacts, Zenon
      <3>2. x.ftype = "disk" => ~NotYet(x)
        BY <1>7, TodosDiffer, Zenon DEF NotYet
      <3>3. RootfsPath(Tarball.meta) # MetadataPath(Tarball.meta)
        BY Zenon DEF RootfsPath, MetadataPath
      <3> QED  BY <2>2, <2>0, <3>1, <3>2, <3>3, Zenon
    <2> QED  BY <2>2, <2>3, <2>4, Zenon
  <1>8. CASE imp.todo = ToIndex
    <2>1. UNCHANGED stored
      BY <1>8, WriteCases, TodosDiffer, Zenon DEF WriteIndex
    <2>2. \A q : Content(q)' = Content(q)
      BY <2>1, Zenon DEF Content
    <2>3. \A x : ~NotYet(x)
      BY <1>8, TodosDiffer, Zenon DEF NotYet
    <2> QED  BY <2>2, <2>3, Zenon
  <1> QED  BY <1>1, <1>5, <1>6, <1>7, <1>8, Zenon DEF StandInv

\* An import that has not raced lists and stores what it should.
LEMMA DoneKept ==
    ASSUME IndexTypes, StandInv, ShowInv, RereadInv, DoneInv, IndexNext, raced => raced'
    PROVE  DoneInv'
  <1>0. SUFFICES ASSUME ~raced' PROVE DoneInv'
    BY Zenon DEF DoneInv
  <1> DEFINE Held(p) == \A x \in NewItems(p.job, p.tar) : Content(x.path) = {x.sha}
  <1>1. /\ Imports => \A p \in imp.past : Listed(p, imp.index, imp.aliases, imp.items) /\ Held(p)
        /\ imp.pc = "write" =>
              /\ Listed([job |-> Job, tar |-> Tarball], imp.index, imp.aliases, imp.items)
              /\ \A x \in NewItems(Job, Tarball) : Content(x.path) = {x.sha} \/ NotYet(x)
    BY <1>0, Zenon DEF DoneInv
  <1>2. CASE BeginStep
    <2>1. PICK list \in JobLists : Begin(list)
      BY <1>2, Zenon DEF BeginStep
    <2>2. imp'.pc \in {"failed", "import"} /\ imp'.past = {}
      BY <2>1, BeginEffect, Zenon
    <2> QED  BY <2>2, Zenon DEF DoneInv
  <1>3. CASE FailStep \/ WriteBreaksOff
    <2>1. imp'.pc = "failed" /\ ~Imports'
      BY <1>3, FailsEffect, BreakCases, Zenon DEF FailStep
    <2> QED  BY <2>1, Zenon DEF DoneInv
  <1>4. CASE InfoStep
    <2>1. Imports /\ UNCHANGED stored
      BY <1>4, Zenon DEF InfoStep, Imports
    <2>2. /\ imp'.pc = "info" /\ imp'.past = imp.past /\ imp'.index = imp.index /\ imp'.items = imp.items
          /\ imp'.aliases = imp.aliases
      BY <1>4, <2>1, InfoEffect, JobFacts, Zenon DEF InfoStep
    <2>3. \A q : Content(q)' = Content(q)
      BY <2>1, Zenon DEF Content
    <2> QED  BY <1>1, <2>1, <2>2, <2>3, Zenon DEF DoneInv
  <1>5. CASE \E tar \in Tarballs : UpdateStep(tar)
    <2>1. PICK tar \in Tarballs : UpdateStep(tar)
      BY <1>5, Zenon
    <2>2. Imports /\ UNCHANGED stored
      BY <2>1, Zenon DEF UpdateStep, Imports
    <2>3. Job \in JobRecords /\ imp.jobs \in JobLists /\ imp \in ImpRecords
      BY <2>2, JobFacts, Zenon
    <2> DEFINE al == IF Job.alias = Unset THEN imp.aliases
                     ELSE {a \in imp.aliases : a.product # tar.product}
                          \cup {[product |-> tar.product, alias |-> Job.alias]}
    <2>4. /\ imp'.pc = "write" /\ imp'.tar = <<tar>> /\ imp'.jobs = imp.jobs /\ imp'.past = imp.past
          /\ imp'.todo = IF Job.type = "container" THEN ToCopy ELSE ToRootfs
          /\ imp'.items = Merged(imp.items, NewItems(Job, tar)) /\ imp'.index = imp.index \cup {tar.product}
          /\ imp'.aliases = al
      BY <2>1, <2>3, UpdateEffect, Zenon DEF UpdateStep
    <2>5. Job' = Job /\ Tarball' = tar
      BY <2>4, SMTT(30) DEF Job, Tarball
    <2>6. \A q : Content(q)' = Content(q)
      BY <2>2, Zenon DEF Content
    <2>7. ASSUME NEW p \in imp.past
          PROVE  Listed(p, imp'.index, imp'.aliases, imp'.items)
      <3>1. /\ p \in [job : JobRecords, tar : Tarballs] /\ p.job.type = "container"
            /\ Job.type = "virtual-machine" /\ p.job.alias = Job.alias
        BY <2>2, <2>3, <2>7, Zenon DEF StandInv, ImpRecords
      <3>2. Listed(p, imp.index, imp.aliases, imp.items)
        BY <1>1, <2>2, <2>7, Zenon
      <3>3. Listed(p, imp.index \cup {tar.product}, al, Merged(imp.items, NewItems(Job, tar)))
        BY <2>3, <3>1, <3>2, ListedStays, Zenon
      <3> QED  BY <2>4, <3>3, Zenon
    <2>8. Listed([job |-> Job, tar |-> tar], imp'.index, imp'.aliases, imp'.items)
      <3>1. Job.alias # Unset =>
                /\ [product |-> tar.product, alias |-> Job.alias] \in al
                /\ \A a \in al : a.product = tar.product => a.alias = Job.alias
        <4>1. PICK all : all = SetAlias(imp.aliases, tar.product, Job.alias)
          BY Zenon
        <4>2. /\ [product |-> tar.product, alias |-> Job.alias] \in all
              /\ \A a \in all : a.product = tar.product => a.alias = Job.alias
          <5>1. /\ [product |-> tar.product, alias |-> Job.alias] \in SetAlias(imp.aliases, tar.product, Job.alias)
                /\ \A a \in SetAlias(imp.aliases, tar.product, Job.alias) :
                      /\ a.product = tar.product => a.alias = Job.alias
                      /\ a \in imp.aliases \/ (a.product = tar.product /\ a.alias = Job.alias)
                /\ \A a \in imp.aliases :
                      a.product # tar.product => a \in SetAlias(imp.aliases, tar.product, Job.alias)
            BY AliasSet, Zenon
          <5> QED  BY <4>1, <5>1, Zenon
        <4> QED  BY <4>1, <4>2, Zenon DEF SetAlias
      <3> HIDE DEF al
      <3> QED  BY <2>4, <3>1, Zenon DEF Listed, Merged
    <2>9. \A x \in NewItems(Job, tar) : NotYet(x)'
      BY <2>3, <2>4, NewNotYet, Zenon
    <2>10. \A p \in imp'.past : /\ Listed(p, imp'.index, imp'.aliases, imp'.items)
                                /\ \A x \in NewItems(p.job, p.tar) : Content(x.path)' = {x.sha}
      BY <1>1, <2>2, <2>4, <2>6, <2>7, Zenon
    <2>11. imp'.pc # "done"
      BY <2>4, Zenon
    <2> QED  BY <2>5, <2>8, <2>9, <2>10, <2>11, Zenon DEF DoneInv
  <1>6. CASE Write
    <2>1. imp.pc = "write" /\ Imports /\ Wrote
      BY <1>6, WriteCases, Zenon
    <2>2. Job \in JobRecords /\ Tarball \in Tarballs /\ imp \in ImpRecords
      BY <2>1, JobFacts, Zenon DEF StandInv
    <2>3. CASE imp.todo # ToImages
      <3>1. /\ imp'.pc = "write" /\ imp'.todo = Tail(imp.todo) /\ imp'.jobs = imp.jobs /\ imp'.tar = imp.tar
            /\ imp'.past = imp.past /\ imp'.index = imp.index /\ imp'.items = imp.items
            /\ imp'.aliases = imp.aliases
        BY <2>1, <2>3, WroteEffect, Zenon
      <3>2. Job' = Job /\ Tarball' = Tarball
        BY <3>1, Zenon DEF Job, Tarball
      <3>3. /\ \A p \in imp.past : \A x \in NewItems(p.job, p.tar) : Content(x.path)' = {x.sha}
            /\ \A x \in NewItems(Job, Tarball) : Content(x.path)' = {x.sha} \/ NotYet(x)'
        BY <1>0, <1>1, <1>6, <2>1, <2>2, <2>3, WrittenHeld, Zenon
      <3> QED  BY <1>1, <2>1, <3>1, <3>2, <3>3, Zenon DEF DoneInv
    <2>4. CASE imp.todo = ToImages
      <3>1. \A x : ~NotYet(x)
        BY <2>4, TodosDiffer, Zenon DEF NotYet
      <3>2. /\ catalog' = [ok |-> TRUE, items |-> imp.items, aliases |-> imp.aliases]
            /\ UNCHANGED <<index, stored>>
        BY <1>6, <2>4, WriteCases, TodosDiffer, Zenon DEF WriteProducts
      <3>3. index'.products = imp.index /\ catalog'.items = imp.items /\ catalog'.aliases = imp.aliases
        BY <2>1, <2>4, <3>2, Zenon DEF ShowInv
      <3>4. \A q : Content(q)' = Content(q)
        BY <3>2, Zenon DEF Content
      <3> DEFINE own == [job |-> Job, tar |-> Tarball]
      <3>5. own.job = Job /\ own.tar = Tarball
        BY Zenon
      <3>6. Listed(own, imp.index, imp.aliases, imp.items)
        BY <1>1, <2>1, Zenon
      <3> HIDE DEF own
      <3>7. \A x \in NewItems(own.job, own.tar) : Content(x.path)' = {x.sha}
        BY <1>1, <2>1, <3>1, <3>4, <3>5, Zenon
      <3>8. \A p \in imp.past \cup {own} : /\ Listed(p, imp.index, imp.aliases, imp.items)
                                          /\ \A x \in NewItems(p.job, p.tar) : Content(x.path)' = {x.sha}
        BY <1>1, <2>1, <3>4, <3>6, <3>7, Zenon
      <3>9. /\ imp'.past = imp.past \cup {own}
            /\ \/ imp'.pc = "done"
               \/ imp'.pc = "import" /\ imp'.index = imp.index /\ imp'.items = imp.items
                  /\ imp'.aliases = imp.aliases
        BY <2>1, <2>4, WroteEffect, Zenon DEF own
      <3> QED  BY <3>3, <3>8, <3>9, Zenon DEF DoneInv, Imports
    <2> QED  BY <2>3, <2>4, Zenon
  <1> QED  BY <1>2, <1>3, <1>4, <1>5, <1>6, IndexSteps, Zenon
=============================================================================
