------------------------- MODULE SimplestreamsIndex -------------------------
(***************************************************************************)
(* internal/exp/simplestreams/index and cmd/exp/simplestreams: importing   *)
(* unified image tarballs into a simplestreams directory, and listing it.  *)
(*                                                                         *)
(* One command runs at a time; every write to the directory is a step, at  *)
(* which the command may fail or be killed and leave the file truncated.   *)
(* An index.json or images.json that does not exist yet is read as an      *)
(* empty one.                                                              *)
(***************************************************************************)
EXTENDS ImageFiles

CONSTANTS Paths,        \* the image files a command can name
          Aliases,      \* the values of --image-alias
          MaxImports    \* bound on the commands started

\* The value of a flag that is left out.
Unset == ""

VARIABLES index, catalog, stored, imp, imports

indexVars == <<index, catalog, stored, imp, imports>>

\* A file of the directory is named after a hash: the whole tarball of a
\* container (info.Sha256), the metadata of a virtual machine for its metadata
\* and for its rootfs (info.MetaSha256 in both names).
ContainerPath(sha) == [kind |-> "combined", of |-> sha]
MetadataPath(meta) == [kind |-> "metadata", of |-> <<meta>>]
RootfsPath(meta) == [kind |-> "rootfs", of |-> <<meta>>]

\* getContainerImageInfo, getVirtualMachineImageInfo: a hash stands for the
\* bytes it is computed from.
ContainerSha(tar) == <<tar.meta, tar.root, tar.whole>>
MetaSha(tar) == <<{tar.meta}>>
RootSha(tar) == <<tar.root>>

Content(path) == {f.bytes : f \in {g \in stored : g.path = path}}
Stored(path, bytes) == {g \in stored : g.path # path} \cup {[path |-> path, bytes |-> bytes]}
Torn == <<>>

\* GetOrCreateIndex: refuses a file that does not parse.
Readable == index.ok /\ catalog.ok

\* No command, or one that has ended; past is what it imported.
Ended(pc, past) ==
    [pc |-> pc, jobs |-> <<>>, todo |-> <<>>, past |-> past, tar |-> <<>>,
     index |-> {}, items |-> {}, aliases |-> {}]

IndexInit ==
    /\ index = [ok |-> TRUE, products |-> {}]
    /\ catalog = [ok |-> TRUE, items |-> {}, aliases |-> {}]
    /\ stored = {}
    /\ imp = Ended("idle", {})
    /\ imports = 0

Job == Head(imp.jobs)
Imports == imp.pc \notin {"idle", "done", "failed"}
Tarball == Head(imp.tar)

\* ImportImage's commands: --incus, --lxd and --image-type are checked first.
Jobs(type, path, alias, incus, lxd) ==
    IF incus \/ lxd
    THEN <<[type |-> type, path |-> path, alias |-> alias, incus |-> incus, lxd |-> lxd]>>
    ELSE <<>>

\* import release: the container image, then the virtual machine image, each
\* for both servers; a path left out is no import.
ReleaseJobs(container, vm, alias) ==
    (IF container = Unset THEN <<>> ELSE Jobs("container", container, alias, TRUE, TRUE))
    \o (IF vm = Unset THEN <<>> ELSE Jobs("virtual-machine", vm, alias, TRUE, TRUE))

Begin(jobs) ==
    /\ ~Imports
    /\ imports < MaxImports
    /\ jobs # <<>>
    /\ imports' = imports + 1
    /\ imp' = IF Readable
              THEN [Ended("import", {}) EXCEPT !.jobs = jobs, !.index = index.products,
                        !.items = catalog.items, !.aliases = catalog.aliases]
              ELSE Ended("failed", {})
    /\ UNCHANGED <<local, index, catalog, stored>>

ImportImageCmd ==
    \E type \in ImageTypes, path \in Paths, alias \in Aliases, incus, lxd \in BOOLEAN :
        Begin(Jobs(type, path, alias, incus, lxd))

ImportReleaseCmd ==
    \E container, vm \in Paths \cup {Unset}, alias \in Aliases :
        Begin(ReleaseJobs(container, vm, alias))

Fails == imp' = Ended("failed", {})

\* The items an import adds: a VM's rootfs and metadata, or the one tarball,
\* for each server asked for.
Item(tar, server, ftype, path, sha) ==
    [product |-> tar.product, version |-> tar.version, server |-> server,
     ftype |-> ftype, path |-> path, sha |-> sha]

Servers(job) == {s \in {"incus", "lxd"} : IF s = "incus" THEN job.incus ELSE job.lxd}

ContainerItems(tar, s) ==
    {Item(tar, s, "combined", ContainerPath(ContainerSha(tar)), ContainerSha(tar))}
VirtualMachineItems(tar, s) ==
    {Item(tar, s, "disk", RootfsPath(tar.meta), RootSha(tar)),
     Item(tar, s, "meta", MetadataPath(tar.meta), MetaSha(tar))}

NewItems(job, tar) ==
    UNION {IF job.type = "container" THEN ContainerItems(tar, s) ELSE VirtualMachineItems(tar, s)
           : s \in Servers(job)}

Key(item) == <<item.product, item.version, item.server, item.ftype>>

\* As if the product of the image had not been there before.
MergedFresh(items, new) == {x \in items : \A y \in new : x.product # y.product} \cup new
MergedKept(items, new) == items \cup new

Merged(items, new) == {x \in items : \A y \in new : Key(x) # Key(y)} \cup new

\* The files an import writes, in the order it writes them.
OrderImagesFirst(type) ==
    (IF type = "container" THEN <<"copy">> ELSE <<"rootfs", "meta">>) \o <<"images", "index">>
OrderImageLast(type) ==
    <<"index", "images">> \o (IF type = "container" THEN <<"copy">> ELSE <<"rootfs", "meta">>)
OrderOnlyRootfs(type) ==
    (IF type = "container" THEN <<"copy">> ELSE <<"rootfs">>) \o <<"index", "images">>
Order(type) ==
    IF type = "container" THEN <<"copy", "index", "images">> ELSE <<"rootfs", "meta", "index", "images">>

\* "update index" and "update product versions", in memory.
Update(job, tar) ==
    imp' = [imp EXCEPT !.pc = "write", !.todo = Order(job.type), !.tar = <<tar>>,
                       !.index = @ \cup {tar.product},
                       !.items = Merged(@, NewItems(job, tar)),
                       !.aliases = IF job.alias = Unset THEN @
                                   ELSE {a \in @ : a.product # tar.product}
                                        \cup {[product |-> tar.product, alias |-> job.alias]}]

\* maybeExtractUnifiedTarballFromZIP, and opening the archive: a .zip with a
\* single tarball is that tarball.
Opens(path) == local[path] # <<>> /\ local[path][1].form \in {"tar", "zip"}

\* The loop over the archive.  A container's ends at metadata.yaml, so it may
\* not reach the place where a truncated archive breaks off ...
ParseContainer(path) ==
    /\ Job.type = "container"
    /\ \/ /\ Opens(path)
          /\ imp' = [imp EXCEPT !.pc = "info", !.tar = local[path]]
       \/ /\ Opens(path) => ~local[path][1].whole
          /\ Fails

\* ... a virtual machine's reads all of it, and needs the rootfs.img only a
\* virtual machine image has.
ParseVirtualMachine(path) ==
    LET complete == /\ Opens(path)
                    /\ local[path][1].whole
                    /\ local[path][1].type = "virtual-machine"
    IN  /\ Job.type = "virtual-machine"
        /\ IF complete THEN Update(Job, local[path][1]) ELSE Fails

Parse ==
    /\ imp.pc = "import"
    /\ ParseContainer(Job.path) \/ ParseVirtualMachine(Job.path)
    /\ UNCHANGED <<local, index, catalog, stored, imports>>

\* getContainerImageInfo reads the file a second time; the product and the
\* version are those of the metadata read first.
ContainerInfo ==
    /\ imp.pc = "info"
    /\ IF local[Job.path] = <<>>
       THEN Fails
       ELSE Update(Job, [local[Job.path][1] EXCEPT !.product = Tarball.product,
                                                   !.version = Tarball.version])
    /\ UNCHANGED <<local, index, catalog, stored, imports>>

\* After the last file: the next image of the release, or the end.
Wrote ==
    LET past == imp.past \cup {[job |-> Job, tar |-> Tarball]} IN
    imp' = CASE Len(imp.todo) > 1 -> [imp EXCEPT !.todo = Tail(@)]
             [] Len(imp.todo) = 1 /\ Len(imp.jobs) > 1 ->
                  [imp EXCEPT !.pc = "import", !.todo = <<>>, !.jobs = Tail(@), !.past = past]
             [] OTHER -> Ended("done", past)

\* copyFile reads the image a third time; the other files are written from
\* memory.
CopyImage ==
    /\ local[Job.path] # <<>>
    /\ stored' = Stored(ContainerPath(ContainerSha(Tarball)), ContainerSha(local[Job.path][1]))
    /\ UNCHANGED <<index, catalog>>

WriteRootfs == stored' = Stored(RootfsPath(Tarball.meta), RootSha(Tarball)) /\ UNCHANGED <<index, catalog>>
WriteMetadata == stored' = Stored(MetadataPath(Tarball.meta), MetaSha(Tarball)) /\ UNCHANGED <<index, catalog>>
WriteIndex == index' = [ok |-> TRUE, products |-> imp.index] /\ UNCHANGED <<catalog, stored>>

WriteProducts ==
    /\ catalog' = [ok |-> TRUE, items |-> imp.items, aliases |-> imp.aliases]
    /\ UNCHANGED <<index, stored>>

Write ==
    /\ imp.pc = "write"
    /\ LET w == Head(imp.todo) IN
       \/ w = "copy" /\ CopyImage
       \/ w = "rootfs" /\ WriteRootfs
       \/ w = "meta" /\ WriteMetadata
       \/ w = "index" /\ WriteIndex
       \/ w = "images" /\ WriteProducts
    /\ Wrote
    /\ UNCHANGED <<local, imports>>

\* A step that does not complete leaves the file as it was or torn, and ends
\* the command: a write fails, or the process is killed.
WriteBreaksOff ==
    /\ imp.pc = "write"
    /\ LET w == Head(imp.todo) IN
       \/ /\ w \in {"copy", "rootfs", "meta"}
          /\ stored' \in {stored, Stored(CASE w = "copy" -> ContainerPath(ContainerSha(Tarball))
                                           [] w = "rootfs" -> RootfsPath(Tarball.meta)
                                           [] w = "meta" -> MetadataPath(Tarball.meta), Torn)}
          /\ UNCHANGED <<index, catalog>>
       \/ /\ w = "index"
          /\ index' \in {index, [ok |-> FALSE, products |-> {}]}
          /\ UNCHANGED <<catalog, stored>>
       \/ /\ w = "images"
          /\ catalog' \in {catalog, [ok |-> FALSE, items |-> {}, aliases |-> {}]}
          /\ UNCHANGED <<index, stored>>
    /\ Fails
    /\ UNCHANGED <<local, imports>>

IndexNext == ImportImageCmd \/ ImportReleaseCmd \/ Parse \/ ContainerInfo \/ Write \/ WriteBreaksOff

-----------------------------------------------------------------------------
\* show --output pretty: the products of index.json, filtered by server and
\* by type; the metadata of a virtual machine is not a row of its own, and a
\* rootfs is one only beside its metadata.
Shown(incus, lxd, type) ==
    {x \in catalog.items :
        /\ x.product \in index.products
        /\ x.server = "incus" => incus \/ ~lxd
        /\ x.server = "lxd" => lxd \/ ~incus
        /\ \/ x.ftype = "combined" /\ type # "virtual-machine"
           \/ /\ x.ftype = "disk" /\ type # "container"
              /\ \E y \in catalog.items : Key(y) = <<x.product, x.version, x.server, "meta">>}

IndexTypeOK ==
    /\ index.ok \in BOOLEAN /\ catalog.ok \in BOOLEAN
    /\ imp.pc \in {"idle", "import", "info", "write", "done", "failed"}
    /\ (imp.pc = "write") = (imp.todo # <<>> /\ Imports)
    /\ \A x, y \in catalog.items : Key(x) = Key(y) => x = y
    /\ \A f, g \in stored : f.path = g.path => f = g

\* A row of images.json never points at a file that is missing or that holds
\* other bytes than the recorded hash: the files are written before images.json
\* (import_container.go, import_virtual_machine.go).  A file can be torn, after an interrupted
\* import of the same image.  Two images with the same metadata share the
\* name of their rootfs, and an image file that is rewritten during the import
\* is read three times: those two are excepted.
ItemsServed ==
    \A x \in catalog.items :
        \/ Content(x.path) \in {{x.sha}, {Torn}}
        \/ /\ x.ftype = "disk"
           /\ \E p \in Paths : /\ local[p] # <<>>
                               /\ RootfsPath(local[p][1].meta) = x.path
                               /\ Content(x.path) = {RootSha(local[p][1])}
        \/ raced

\* An import that reports success has published what it was asked to, whatever
\* interrupted imports came before it: its product is listed, its rows for the
\* servers asked for are in images.json, and the files they name have the recorded
\* hash.  The alias replaces those the product had (import_container.go:105,
\* import_virtual_machine.go:156).  The help of --image-alias has it the other way,
\* "This is ignored if the product exists already" (cmd_import_image.go:60): the two
\* disagree, and this states what the code does.
ImportedIsServed ==
    imp.pc = "done" /\ ~raced =>
        \A p \in imp.past :
            /\ p.tar.product \in index.products
            /\ p.job.alias # Unset =>
                  /\ [product |-> p.tar.product, alias |-> p.job.alias] \in catalog.aliases
                  /\ \A a \in catalog.aliases : a.product = p.tar.product => a.alias = p.job.alias
            /\ \A x \in NewItems(p.job, p.tar) :
                  x \in catalog.items /\ Content(x.path) = {x.sha}

\* index.json never lags behind images.json, and a rootfs is never without its
\* metadata, so show lists every image: with any flags its rows are the container
\* tarballs and the rootfs images of the server and the type asked for.
ShowsEveryImage ==
    Readable =>
        \A incus, lxd \in BOOLEAN, type \in {Unset} \cup ImageTypes :
            Shown(incus, lxd, type) =
                {x \in catalog.items :
                    /\ x.ftype # "meta"
                    /\ incus = lxd \/ x.server = IF incus THEN "incus" ELSE "lxd"
                    /\ type \in {Unset, IF x.ftype = "combined" THEN "container" ELSE "virtual-machine"}}

\* An import replaces rows of its own product and version, each by one of the same
\* server and file type, and no other: whatever else images.json listed, and what it
\* listed for the other server, is still listed.
OthersStay ==
    [][catalog.ok /\ catalog'.ok =>
        \A x \in catalog.items :
            \/ x \in catalog'.items
            \/ /\ imp.tar # <<>>
               /\ <<x.product, x.version>> = <<Tarball.product, Tarball.version>>
               /\ \E y \in catalog'.items : Key(y) = Key(x)]_indexVars
=============================================================================
