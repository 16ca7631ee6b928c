---------------------------- MODULE ImageBuilder ----------------------------
(***************************************************************************)
(* internal/exp/image-builder and cmd/exp/image-builder: the haproxy and   *)
(* kubeadm commands build an image in a builder instance, publish it under *)
(* an alias, export it to a file and, for kubeadm, validate it.            *)
(*                                                                         *)
(* One command runs at a time, and all of them use the builder instance    *)
(* and the output file the flags default to.  Commands are numbered;       *)
(* software is identified by the number of the command that installed it,  *)
(* so an image is the set of the commands that put something in it.        *)
(***************************************************************************)
EXTENDS ImageFiles

CONSTANTS Builds,      \* the commands: "haproxy", "kubeadm", "kubeadm-vm"
          Flags,       \* records [skip, only, dryRun] of the values of the flags
          IncusServer, \* the server is Incus, not Canonical LXD
          Minutes,     \* the creation times of images, as versions of a product
          MaxRuns,     \* bound on the commands started
          Output       \* the path of --output

ASSUME BuilderAssumption == Builds # {} /\ Minutes \subseteq Int /\ MaxRuns \in Nat

Type(b) == IF b = "kubeadm-vm" THEN "virtual-machine" ELSE "container"
Product(b) == IF b = "haproxy" THEN "haproxy" ELSE "kubeadm"

VARIABLES builder,    \* the instance --instance-name
          validator,  \* the instance --validation-instance-name
          published,  \* the image under the alias of each build: <<>> or <<image>>
          newer,      \* the builds whose image was created after the builder last started
          run,        \* the command in progress, or how the last one ended
          residue     \* what commands that did not complete may have left behind

builderVars == <<builder, validator, published, newer, run, residue>>

Gone == [state |-> "absent", type |-> "container", soft |-> {}]

BuilderInit ==
    /\ builder = Gone
    /\ validator = Gone
    /\ published = [b \in Builds |-> <<>>]
    /\ newer = {}
    /\ run = [id |-> 0, build |-> CHOOSE b \in Builds : TRUE, todo |-> {}, full |-> FALSE,
              st |-> "idle", at |-> "start", checked |-> {}, left |-> {}]
    /\ residue = {}

\* The stages of cmd_haproxy.go and cmd_kubeadm.go.  validate-image is a Chain
\* of three actions.
HaproxyStages ==
    <<"create-instance", "install", "prepare-instance", "stop-instance",
      "publish-image", "export-image", "delete-instance">>
KubeadmStages ==
    <<"create-instance", "install", "pull-extra-images", "generate-manifest",
      "export-manifest", "prepare-instance", "stop-grace-period", "stop-instance",
      "publish-image", "export-image", "delete-instance", "validate-image">>
Stages(b) == IF b = "haproxy" THEN HaproxyStages ELSE KubeadmStages

\* stage.Run: the stages the flags leave, by their place in the list.
Selected(b, f) ==
    {i \in DOMAIN Stages(b) :
        /\ ~f.dryRun
        /\ Stages(b)[i] \notin f.skip
        /\ f.only = {} \/ Stages(b)[i] \in f.only}

Start ==
    /\ run.st # "running"
    /\ run.id < MaxRuns
    /\ \E b \in Builds, f \in Flags :
          run' = [id |-> run.id + 1, build |-> b, todo |-> Selected(b, f),
                  full |-> Selected(b, f) = DOMAIN Stages(b), st |-> "running", at |-> "start",
                  checked |-> {}, left |-> residue]
    /\ UNCHANGED <<local, builder, validator, published, newer, residue>>

Running == run.st = "running"
Reached(stage) ==
    /\ Running
    /\ \E i \in run.todo : Stages(run.build)[i] = stage /\ \A j \in run.todo : i <= j
At(stage, at) == Reached(stage) /\ run.at = at
Goto(at) == run' = [run EXCEPT !.at = at]
StageDone == run' = [run EXCEPT !.todo = {j \in @ : \E i \in @ : i < j}, !.at = "start"]

\* LaunchInstance: WaitForLaunchInstance keeps an instance of that name that
\* exists already, and starts it.
Launched(i, type, soft) ==
    IF i.state = "absent" THEN [state |-> "running", type |-> type, soft |-> soft]
                          ELSE [i EXCEPT !.state = "running"]

CreateInstance ==
    /\ At("create-instance", "start")
    /\ builder' = Launched(builder, Type(run.build), {})
    /\ newer' = IF builder.state = "running" THEN newer ELSE {}
    /\ StageDone
    /\ UNCHANGED <<local, validator, published, residue>>

\* ExecInstance, CopyInstanceFile and Wait.  A script needs a running instance.
ExecInstance ==
    /\ \E s \in {"install", "pull-extra-images", "generate-manifest", "prepare-instance"} : At(s, "start")
    /\ builder.state = "running"
    /\ builder' = [builder EXCEPT !.soft = IF Reached("install") THEN @ \cup {run.id} ELSE @]
    /\ StageDone
    /\ UNCHANGED <<local, validator, published, newer, residue>>

CopyInstanceFile ==
    /\ At("export-manifest", "start")
    /\ builder.state # "absent"
    /\ StageDone
    /\ UNCHANGED <<local, builder, validator, published, newer, residue>>

Wait ==
    /\ At("stop-grace-period", "start")
    /\ StageDone
    /\ UNCHANGED <<local, builder, validator, published, newer, residue>>

StopInstance ==
    /\ At("stop-instance", "start")
    /\ builder.state # "absent"
    /\ builder' = [builder EXCEPT !.state = "stopped"]
    /\ StageDone
    /\ UNCHANGED <<local, validator, published, newer, residue>>

\* PublishImage.  An image newer than the last start of the builder is kept, if
\* it can be looked up; any other loses its alias before the new one is created.
PublishedBefore(b) == published[b] # <<>>
PublishedAlready(b) == published[b] # <<>> /\ b \in newer

PublishAlias ==
    /\ At("publish-image", "start")
    /\ builder.state # "absent"
    /\ LET b == run.build IN
       \/ PublishedAlready(b) /\ StageDone /\ UNCHANGED published
       \/ PublishedAlready(b) /\ published' = [published EXCEPT ![b] = <<>>] /\ Goto("create")  \* GetImage fails
       \/ ~PublishedAlready(b) /\ published' = [published EXCEPT ![b] = <<>>] /\ Goto("create")
    /\ UNCHANGED <<local, builder, validator, newer, residue>>

\* The server refuses to publish an instance that is running.
PublishImage ==
    /\ At("publish-image", "create")
    /\ builder.state = "stopped"
    /\ \E m \in Minutes :
          published' = [published EXCEPT ![run.build] =
                           <<[type |-> builder.type, soft |-> builder.soft, id |-> run.id, minute |-> m]>>]
    /\ newer' = newer \cup {run.build}
    /\ StageDone
    /\ UNCHANGED <<local, builder, validator, residue>>

\* ExportImage truncates the output file, downloads the image into it and, for
\* a virtual machine image of Incus, replaces it by a tarball with a compressed
\* rootfs.  That one is renamed into place before the deferred Close calls
\* write its last bytes, and their errors are ignored.
Exported(img, whole) ==
    [type |-> img.type, product |-> Product(run.build), version |-> img.minute,
     meta |-> img.id, root |-> img.soft, whole |-> whole, form |-> "tar"]

ExportPcs == {"download", "compress", "close"}
Exporting == Running /\ run.at \in ExportPcs
Saves(whole) == local' = [local EXCEPT ![Output] = <<Exported(published[run.build][1], whole)>>]

ExportImage ==
    /\ At("export-image", "start")
    /\ published[run.build] # <<>>
    /\ Saves(FALSE)
    /\ Goto("download")
    /\ residue' = residue \ {"output"}
    /\ UNCHANGED <<builder, validator, published, newer>>

Download ==
    /\ At("export-image", "download")
    /\ Saves(TRUE)
    /\ IF IncusServer /\ published[run.build][1].type = "virtual-machine"
       THEN Goto("compress") ELSE StageDone
    /\ UNCHANGED <<builder, validator, published, newer, residue>>

CompressRootfs ==
    /\ At("export-image", "compress")
    /\ Saves(FALSE)
    /\ Goto("close")
    /\ UNCHANGED <<builder, validator, published, newer, residue>>

CloseOutput ==
    /\ At("export-image", "close")
    /\ \/ Saves(TRUE) /\ UNCHANGED residue
       \/ UNCHANGED local /\ residue' = residue \cup {"output"}
    /\ StageDone
    /\ UNCHANGED <<builder, validator, published, newer>>

DeleteInstance ==
    /\ At("delete-instance", "start")
    /\ builder' = Gone
    /\ StageDone
    /\ UNCHANGED <<local, validator, published, newer, residue>>

\* validate-image: launch the validator from the alias, run the validation
\* script in it, delete it.
ValidateLaunch ==
    /\ At("validate-image", "start")
    /\ validator.state # "absent" \/ published[run.build] # <<>>
    /\ validator' = IF validator.state = "absent"
                    THEN Launched(validator, Type(run.build), {published[run.build][1].id})
                    ELSE Launched(validator, Type(run.build), {})
    /\ Goto("exec")
    /\ UNCHANGED <<local, builder, published, newer, residue>>

\* As if the script were run in the instance --instance-name.
ValidateExecBuilder ==
    /\ At("validate-image", "exec")
    /\ run' = [run EXCEPT !.at = "delete", !.checked = builder.soft]
    /\ UNCHANGED <<local, builder, validator, published, newer, residue>>

ValidateExec ==
    /\ At("validate-image", "exec")
    /\ run' = [run EXCEPT !.at = "delete", !.checked = validator.soft]
    /\ UNCHANGED <<local, builder, validator, published, newer, residue>>

ValidateDelete ==
    /\ At("validate-image", "delete")
    /\ validator' = Gone
    /\ StageDone
    /\ UNCHANGED <<local, builder, published, newer, residue>>

Ends(st) ==
    run' = [run EXCEPT !.st = st, !.todo = {}, !.at = "start",
                       !.checked = IF st = "ok" THEN @ ELSE {},
                       !.left = IF st = "ok" THEN @ ELSE {}]

\* What a command may leave: a builder it does not delete, a validator.
Leaves == {"builder"} \cup (IF run.build = "haproxy" THEN {} ELSE {"validator"})

Finish ==
    /\ Running
    /\ run.todo = {}
    /\ Ends("ok")
    /\ residue' = IF run.full THEN residue \ Leaves ELSE residue \cup {"builder"}
    /\ UNCHANGED <<local, builder, validator, published, newer>>

\* A stage fails, before or after it took effect, and Run returns; a failed
\* export removes the output file.
FailKeepsOutput ==
    /\ Running
    /\ Ends("failed")
    /\ residue' = residue \cup Leaves
    /\ UNCHANGED <<local, builder, validator, published, newer>>

Fail ==
    /\ Running
    /\ run.at # "close"
    /\ Ends("failed")
    /\ residue' = residue \cup Leaves
    /\ local' = IF Exporting THEN [local EXCEPT ![Output] = <<>>] ELSE local
    /\ UNCHANGED <<builder, validator, published, newer>>

\* The process is killed: nothing is cleaned up, neither an export that had begun.
Kill ==
    /\ Running
    /\ Ends("killed")
    /\ residue' = residue \cup Leaves \cup (IF Exporting THEN {"output"} ELSE {})
    /\ UNCHANGED <<local, builder, validator, published, newer>>

BuilderNext ==
    \/ Start \/ CreateInstance \/ ExecInstance \/ CopyInstanceFile \/ Wait \/ StopInstance
    \/ PublishAlias \/ PublishImage \/ ExportImage \/ Download \/ CompressRootfs \/ CloseOutput
    \/ DeleteInstance \/ ValidateLaunch \/ ValidateExec \/ ValidateDelete
    \/ Finish \/ Fail \/ Kill

-----------------------------------------------------------------------------
\* A complete run of all the stages exports what it built: the image under the
\* alias holds the software this command installed, also when an image was
\* published before (action_image_publish.go:36), and the output file is that
\* image, unless the last bytes could not be written.  If the command found no
\* builder left by an earlier one, the image holds nothing else and is of the type
\* asked for.
BuildIsExported ==
    run.st = "ok" /\ run.full =>
        /\ published[run.build] # <<>>
        /\ LET img == published[run.build][1] IN
           /\ run.id \in img.soft
           /\ "output" \notin residue => local[Output] = <<Exported(img, TRUE)>>
           /\ "builder" \notin run.left => img.soft = {run.id} /\ img.type = Type(run.build)

\* validate-image ran its script in an instance of the image just published,
\* unless a command that failed left a validator of an older one, which
\* LaunchInstance keeps (client_instances.go:19).
ValidatedIsBuilt ==
    run.st = "ok" /\ run.full /\ run.build # "haproxy" /\ "validator" \notin run.left =>
        run.checked = {published[run.build][1].id}

\* Once a command has ended, the output file is whole or not there at all, unless
\* the last export was killed or could not write its last bytes: what an earlier one
\* left is gone, as an export truncates the file first (action_image_export.go:23).
OutputWholeOrGone ==
    Exporting \/ "output" \in residue \/ local[Output] = <<>> \/ local[Output][1].whole
=============================================================================
