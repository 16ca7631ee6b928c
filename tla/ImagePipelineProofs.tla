------------------------- MODULE ImagePipelineProofs -------------------------
(***************************************************************************)
(* Proofs about ImagePipeline: what the builder exports and what the       *)
(* simplestreams directory serves, for any builds, flags, image files and  *)
(* number of commands, whatever fails or is killed.                        *)
(***************************************************************************)
EXTENDS ImageIndexProofs

-----------------------------------------------------------------------------
\* The builder: the steps of ImageBuilder, for any set of builds, any flags and any
\* number of commands.

\* The stage is among those the command still has to run.
Left(stage) == \E i \in run.todo : Stages(run.build)[i] = stage

\* Every list of stages names each stage once, in this order.
LEMMA StagePlaces ==
    ASSUME NEW b, NEW i \in DOMAIN Stages(b), NEW j \in DOMAIN Stages(b)
    PROVE  /\ i \in Nat
           /\ Stages(b)[i] = Stages(b)[j] => i = j
           /\ Stages(b)[i] = "install" /\ Stages(b)[j] = "create-instance" => j < i
           /\ Stages(b)[i] = "stop-instance" /\ Stages(b)[j] \in {"create-instance", "install"} => j < i
           /\ Stages(b)[i] = "publish-image" /\ Stages(b)[j] = "stop-instance" => j < i
           /\ Stages(b)[i] = "export-image" /\ Stages(b)[j] = "publish-image" => j < i
           /\ Stages(b)[i] = "delete-instance" /\ Stages(b)[j] = "export-image" => j < i
           /\ Stages(b)[i] = "validate-image" /\ Stages(b)[j] = "delete-instance" => j < i
           /\ b = "haproxy" => Stages(b)[i] # "validate-image"
  <1>1. CASE b = "haproxy"
    <2>1. Stages(b) = HaproxyStages /\ DOMAIN HaproxyStages = 1..7
      BY <1>1 DEF Stages, HaproxyStages
    <2> QED  BY <1>1, <2>1 DEF HaproxyStages
  <1>2. CASE b # "haproxy"
    <2>1. Stages(b) = KubeadmStages /\ DOMAIN KubeadmStages = 1..12
      BY <1>2 DEF Stages, KubeadmStages
    <2> QED  BY <1>2, <2>1 DEF KubeadmStages
  <1> QED  BY <1>1, <1>2, Zenon

-----------------------------------------------------------------------------
\* Types, and the inductive invariant

InstanceRecords == [state : {"absent", "stopped", "running"}, type : ImageTypes, soft : SUBSET Int]
ImageRecords == [type : ImageTypes, soft : SUBSET Int, id : Int, minute : Int]
RunRecords ==
    [id : Int, build : Builds, todo : SUBSET Int, full : BOOLEAN,
     st : {"idle", "running", "ok", "failed", "killed"},
     at : {"start", "create", "exec", "delete"} \cup ExportPcs,
     checked : SUBSET Int, left : SUBSET {"builder", "validator", "output"}]

BuilderTypes ==
    /\ builder \in InstanceRecords
    /\ validator \in InstanceRecords
    /\ published \in [Builds -> {<<>>} \cup {<<i>> : i \in ImageRecords}]
    /\ newer \subseteq Builds
    /\ run \in RunRecords
    /\ run.todo \subseteq DOMAIN Stages(run.build)
    /\ residue \subseteq {"builder", "validator", "output"}
    /\ Output \in DOMAIN local
    /\ local = [p \in DOMAIN local |-> local[p]]

\* Where in a stage a command can stand.
AtInv ==
    /\ run.at # "start" => Running
    /\ run.todo # {} => Running
    /\ run.at = "create" => Reached("publish-image")
    /\ run.at \in ExportPcs => Reached("export-image") /\ published[run.build] # <<>>
    /\ run.at \in {"exec", "delete"} => Reached("validate-image")

\* What is left of commands that ended is recorded; the validator of one that
\* runs exists only during validate-image.
ResidueInv ==
    /\ builder.state = "running" => newer = {}
    /\ ~Running => ("builder" \notin residue => builder.state = "absent")
    /\ "validator" \notin residue /\ run.at \notin {"exec", "delete"} => validator.state = "absent"
    /\ Running => \A r \in {"builder", "validator"} : r \in run.left <=> r \in residue

\* The image a complete run of the stages publishes.
OwnImage(i) ==
    /\ run.id \in i.soft
    /\ "builder" \notin run.left => i.soft = {run.id} /\ i.type = Type(run.build)

\* A complete run leaves out no stage.
Closed == \A i \in run.todo, j \in DOMAIN Stages(run.build) : i <= j => j \in run.todo

\* The builder of a complete run of the stages.
InstancePart ==
    /\ ~Left("create-instance") /\ Left("stop-instance") => builder.state = "running"
    /\ ~Left("stop-instance") /\ Left("publish-image") => builder.state = "stopped" /\ newer = {}
    /\ ~Left("install") /\ Left("publish-image") => run.id \in builder.soft
    /\ "builder" \notin run.left =>
          /\ Left("create-instance") => builder.state = "absent"
          /\ ~Left("create-instance") /\ Left("publish-image") =>
                /\ builder.type = Type(run.build)
                /\ builder.soft = IF Left("install") THEN {} ELSE {run.id}
    /\ ~Left("delete-instance") => builder.state = "absent"

\* Its image and its output file.
ImagePart ==
    /\ ~Left("publish-image") => published[run.build] # <<>> /\ OwnImage(published[run.build][1])
    /\ ~Left("export-image") =>
          "output" \in residue \/ local[Output] = <<Exported(published[run.build][1], TRUE)>>

\* Its validation.
CheckPart ==
    /\ ~Left("validate-image") => validator.state = "absent"
    /\ "validator" \notin run.left =>
          /\ run.at = "exec" => validator.soft = {published[run.build][1].id}
          /\ run.at = "delete" \/ ~Left("validate-image") => run.checked = {published[run.build][1].id}

FullInv ==
    run.full /\ run.st \in {"running", "ok"} =>
        Closed /\ InstancePart /\ ImagePart /\ (run.build # "haproxy" => CheckPart)

BuilderInv == BuilderTypes /\ AtInv /\ ResidueInv /\ OutputWholeOrGone /\ FullInv

\* The stages that cannot be left when a stage is reached.
LEMMA ReachedOrder ==
    ASSUME BuilderTypes, NEW s, Reached(s)
    PROVE  /\ Left(s) /\ Running
           /\ \A t : Reached(t) => t = s
           /\ s = "install" => ~Left("create-instance")
           /\ s = "stop-instance" => ~Left("create-instance") /\ ~Left("install")
           /\ s = "publish-image" => ~Left("stop-instance")
           /\ s = "export-image" => ~Left("publish-image")
           /\ s = "delete-instance" => ~Left("export-image")
           /\ s = "validate-image" => ~Left("delete-instance") /\ run.build # "haproxy"
  <1>1. PICK i \in run.todo : Stages(run.build)[i] = s /\ \A j \in run.todo : i <= j
    BY Zenon DEF Reached
  <1>2. \A j \in run.todo : j \in DOMAIN Stages(run.build) /\ j \in Int /\ ~(j < i)
    BY <1>1, StagePlaces DEF BuilderTypes
  <1>3. ASSUME NEW t, Reached(t) PROVE t = s
    <2>1. PICK k \in run.todo : Stages(run.build)[k] = t /\ \A j \in run.todo : k <= j
      BY <1>3, Zenon DEF Reached
    <2>2. k = i
      BY <1>1, <1>2, <2>1
    <2> QED  BY <1>1, <2>1, <2>2, Zenon
  <1>4. /\ s = "install" => ~Left("create-instance")
        /\ s = "stop-instance" => ~Left("create-instance") /\ ~Left("install")
        /\ s = "publish-image" => ~Left("stop-instance")
        /\ s = "export-image" => ~Left("publish-image")
        /\ s = "delete-instance" => ~Left("export-image")
        /\ s = "validate-image" => ~Left("delete-instance") /\ run.build # "haproxy"
    BY <1>1, <1>2, StagePlaces, Zenon DEF Left
  <1> QED  BY <1>1, <1>3, <1>4, Zenon DEF Left, Reached

\* A stage that is done is no longer left, and nothing else changes.
LEMMA StageDoneEffect ==
    ASSUME BuilderTypes, NEW s, Reached(s), StageDone
    PROVE  /\ run' \in RunRecords /\ run'.todo \subseteq DOMAIN Stages(run'.build)
           /\ run'.at = "start" /\ run'.id = run.id /\ run'.build = run.build /\ run'.full = run.full
           /\ run'.st = run.st /\ run'.checked = run.checked /\ run'.left = run.left
           /\ \A t : Left(t)' <=> Left(t) /\ t # s
           /\ Closed => Closed'
  <1>0. run \in RunRecords /\ run.todo \subseteq DOMAIN Stages(run.build)
    BY Zenon DEF BuilderTypes
  <1>1. PICK i \in run.todo : Stages(run.build)[i] = s /\ \A j \in run.todo : i <= j
    BY Zenon DEF Reached
  <1>2. \A j \in run.todo : j \in DOMAIN Stages(run.build) /\ j \in Int
    BY <1>0, StagePlaces
  <1> DEFINE rest == {j \in run.todo : \E k \in run.todo : k < j}
  <1>3. rest = run.todo \ {i}
    BY <1>1, <1>2
  <1>4. run' = [run EXCEPT !.todo = rest, !.at = "start"]
    BY Zenon DEF StageDone
  <1> HIDE DEF rest
  <1>5. rest \subseteq run.todo
    BY <1>3, Zenon
  <1>6. /\ run' \in RunRecords /\ run'.todo = rest
        /\ run'.at = "start" /\ run'.id = run.id /\ run'.build = run.build /\ run'.full = run.full
        /\ run'.st = run.st /\ run'.checked = run.checked /\ run'.left = run.left
    BY <1>0, <1>4, <1>5, Zenon DEF RunRecords
  <1>7. \A t : Left(t)' <=> Left(t) /\ t # s
    BY <1>0, <1>1, <1>2, <1>3, <1>6, StagePlaces DEF Left
  <1>8. Closed => Closed'
    BY <1>1, <1>2, <1>3, <1>6, StagePlaces DEF Closed
  <1> QED  BY <1>0, <1>5, <1>6, <1>7, <1>8, Zenon

\* Going on within a stage changes nothing else.
LEMMA GotoEffect ==
    ASSUME BuilderTypes, NEW a \in {"create", "exec", "delete"} \cup ExportPcs, NEW c \in SUBSET Int,
           run' = [run EXCEPT !.at = a, !.checked = c]
    PROVE  /\ run' \in RunRecords /\ run'.todo \subseteq DOMAIN Stages(run'.build)
           /\ run'.at = a /\ run'.id = run.id /\ run'.build = run.build /\ run'.full = run.full
           /\ run'.st = run.st /\ run'.checked = c /\ run'.left = run.left
           /\ \A t : /\ Left(t)' <=> Left(t)
                     /\ Reached(t)' <=> Reached(t)
           /\ Closed => Closed'
  <1>1. run \in RunRecords
    BY Zenon DEF BuilderTypes
  <1>2. /\ run' \in RunRecords /\ run'.todo = run.todo
        /\ run'.at = a /\ run'.id = run.id /\ run'.build = run.build /\ run'.full = run.full
        /\ run'.st = run.st /\ run'.checked = c /\ run'.left = run.left
    BY <1>1, Zenon DEF RunRecords
  <1> QED  BY <1>2, Zenon DEF BuilderTypes, Left, Reached, Running, Closed

\* The same for Goto.
LEMMA GotoRun ==
    ASSUME BuilderTypes, NEW a \in {"create", "exec", "delete"} \cup ExportPcs, Goto(a)
    PROVE  /\ run' \in RunRecords /\ run'.todo \subseteq DOMAIN Stages(run'.build)
           /\ run'.at = a /\ run'.id = run.id /\ run'.build = run.build /\ run'.full = run.full
           /\ run'.st = run.st /\ run'.checked = run.checked /\ run'.left = run.left
           /\ \A t : /\ Left(t)' <=> Left(t)
                     /\ Reached(t)' <=> Reached(t)
           /\ Closed => Closed'
  <1>1. run' = [run EXCEPT !.at = a, !.checked = run.checked] /\ run.checked \in SUBSET Int
    BY Zenon DEF BuilderTypes, RunRecords, Goto
  <1> QED  BY <1>1, GotoEffect, Zenon

\* In a complete run, a stage that is left leaves the later ones.
LEMMA Chain ==
    ASSUME BuilderTypes, Closed
    PROVE  /\ Left("create-instance") => Left("install")
           /\ Left("install") => Left("stop-instance")
           /\ Left("stop-instance") => Left("publish-image")
           /\ Left("publish-image") => Left("export-image")
           /\ Left("export-image") => Left("delete-instance")
           /\ Left("delete-instance") /\ run.build # "haproxy" => Left("validate-image")
  <1>0. run.todo \subseteq DOMAIN Stages(run.build)
    BY Zenon DEF BuilderTypes
  <1>1. CASE run.build = "haproxy"
    <2>1. Stages(run.build) = HaproxyStages /\ DOMAIN HaproxyStages = 1..7
      BY <1>1 DEF Stages, HaproxyStages
    <2> QED  BY <1>0, <1>1, <2>1 DEF HaproxyStages, Left, Closed
  <1>2. CASE run.build # "haproxy"
    <2>1. Stages(run.build) = KubeadmStages /\ DOMAIN KubeadmStages = 1..12
      BY <1>2 DEF Stages, KubeadmStages
    <2> QED  BY <1>0, <1>2, <2>1 DEF KubeadmStages, Left, Closed
  <1> QED  BY <1>1, <1>2, Zenon

\* The lists have all of these stages.
LEMMA AllStages ==
    ASSUME NEW b
    PROVE  /\ \A s \in {"create-instance", "install", "stop-instance", "publish-image", "export-image",
                        "delete-instance"} : \E i \in DOMAIN Stages(b) : Stages(b)[i] = s
           /\ b # "haproxy" => \E i \in DOMAIN Stages(b) : Stages(b)[i] = "validate-image"
  <1>1. CASE b = "haproxy"
    <2>1. Stages(b) = HaproxyStages /\ DOMAIN HaproxyStages = 1..7
      BY <1>1 DEF Stages, HaproxyStages
    <2> QED  BY <1>1, <2>1 DEF HaproxyStages
  <1>2. CASE b # "haproxy"
    <2>1. Stages(b) = KubeadmStages /\ DOMAIN KubeadmStages = 1..12
      BY <1>2 DEF Stages, KubeadmStages
    <2> QED  BY <1>2, <2>1 DEF KubeadmStages
  <1> QED  BY <1>1, <1>2, Zenon

-----------------------------------------------------------------------------
\* The steps of a command

\* A stage that is done at once and only changes the builder.
LEMMA BuilderStage ==
    ASSUME BuilderInv, NEW s, s \notin {"publish-image", "export-image", "validate-image"},
           Reached(s), run.at = "start", StageDone, UNCHANGED <<local, validator, published, residue>>,
           builder' \in InstanceRecords, newer' \subseteq Builds,
           builder'.state = "running" => newer' = {},
           run.full => InstancePart'
    PROVE  BuilderInv'
  <1> USE DEF BuilderInv
  <1>1. /\ run' \in RunRecords /\ run'.todo \subseteq DOMAIN Stages(run'.build)
        /\ run'.at = "start" /\ run'.id = run.id /\ run'.build = run.build /\ run'.full = run.full
        /\ run'.st = run.st /\ run'.checked = run.checked /\ run'.left = run.left
        /\ \A t : Left(t)' <=> Left(t) /\ t # s
        /\ Closed => Closed'
    BY StageDoneEffect, Zenon
  <1>2. run.st = "running"
    BY Zenon DEF Reached, Running
  <1>3. BuilderTypes' /\ AtInv'
    BY <1>1, Zenon DEF BuilderTypes, AtInv, ExportPcs, Running, Reached
  <1>4. ResidueInv'
    BY <1>1, <1>2, Zenon DEF ResidueInv, Running
  <1>5. OutputWholeOrGone'
    BY <1>1, Zenon DEF OutputWholeOrGone, Exporting, ExportPcs
  <1>6. FullInv'
    <2>1. run.full => ImagePart'
      BY <1>1, <1>2, Zenon DEF FullInv, ImagePart, OwnImage, Exported
    <2>2. run.full /\ run.build # "haproxy" => CheckPart'
      BY <1>1, <1>2, Zenon DEF FullInv, CheckPart
    <2> QED  BY <1>1, <1>2, <2>1, <2>2, Zenon DEF FullInv
  <1> QED  BY <1>3, <1>4, <1>5, <1>6, Zenon

\* create-instance keeps a builder that exists.
LEMMA CreateInstanceInv == ASSUME BuilderInv, CreateInstance PROVE BuilderInv'
  <1> USE DEF BuilderInv
  <1>0. /\ Reached("create-instance") /\ run.at = "start" /\ StageDone
        /\ UNCHANGED <<local, validator, published, residue>>
    BY Zenon DEF CreateInstance, At
  <1>1. /\ builder \in InstanceRecords /\ newer \subseteq Builds
        /\ Type(run.build) \in ImageTypes
    BY Zenon DEF BuilderTypes, Type, ImageTypes
  <1>2. /\ builder' \in InstanceRecords /\ builder'.state = "running"
        /\ builder.state = "absent" => builder'.type = Type(run.build) /\ builder'.soft = {}
        /\ builder.state # "absent" => builder'.type = builder.type /\ builder'.soft = builder.soft
    BY <1>1, Zenon DEF CreateInstance, Launched, InstanceRecords
  <1>3. newer' = {}
    BY Zenon DEF CreateInstance, ResidueInv
  <1>4. /\ run'.id = run.id /\ run'.build = run.build /\ run'.left = run.left
        /\ \A t : Left(t)' <=> Left(t) /\ t # "create-instance"
    BY <1>0, StageDoneEffect, Zenon
  <1>5. ASSUME run.full PROVE InstancePart'
    <2>1. InstancePart /\ Closed /\ Left("create-instance")
      BY <1>0, <1>5, ReachedOrder, Zenon DEF FullInv, Running
    <2>2. Left("install") /\ Left("stop-instance") /\ Left("publish-image") /\ Left("delete-instance")
      BY <2>1, Chain, Zenon
    <2> QED  BY <1>2, <1>3, <1>4, <2>1, <2>2, Zenon DEF InstancePart
  <1> QED  BY <1>0, <1>1, <1>2, <1>3, <1>5, BuilderStage, Zenon

\* A script runs in the builder; only install puts software in it.
LEMMA ExecInstanceInv == ASSUME BuilderInv, ExecInstance PROVE BuilderInv'
  <1> USE DEF BuilderInv
  <1>1. PICK s \in {"install", "pull-extra-images", "generate-manifest", "prepare-instance"} : At(s, "start")
    BY Zenon DEF ExecInstance
  <1>2. /\ Reached(s) /\ run.at = "start" /\ StageDone /\ builder.state = "running"
        /\ UNCHANGED <<local, validator, published, newer, residue>>
    BY <1>1, Zenon DEF ExecInstance, At
  <1>3. Reached("install") <=> s = "install"
    BY <1>2, ReachedOrder, Zenon
  <1>4. builder \in InstanceRecords /\ newer \subseteq Builds /\ run.id \in Int
    BY Zenon DEF BuilderTypes, RunRecords
  <1>5. /\ builder' \in InstanceRecords /\ builder'.state = "running" /\ builder'.type = builder.type
        /\ builder'.soft = IF s = "install" THEN builder.soft \cup {run.id} ELSE builder.soft
    BY <1>2, <1>3, <1>4, Zenon DEF ExecInstance, InstanceRecords
  <1>6. newer = {}
    BY <1>2, Zenon DEF ResidueInv
  <1>7. /\ run'.id = run.id /\ run'.build = run.build /\ run'.left = run.left
        /\ \A t : Left(t)' <=> Left(t) /\ t # s
    BY <1>2, StageDoneEffect, Zenon
  <1>8. ASSUME run.full PROVE InstancePart'
    <2>1. InstancePart /\ Closed /\ Left(s) /\ (s = "install" => ~Left("create-instance"))
      BY <1>2, <1>8, ReachedOrder, Zenon DEF FullInv, Running
    <2>2. CASE s = "install"
      <3>1. Left("stop-instance") /\ Left("publish-image") /\ Left("delete-instance")
        BY <2>1, <2>2, Chain, Zenon
      <3> QED  BY <1>5, <1>7, <2>1, <2>2, <3>1, Zenon DEF InstancePart
    <2>3. CASE s # "install"
      BY <1>1, <1>2, <1>5, <1>7, <2>1, <2>3, Zenon DEF InstancePart
    <2> QED  BY <2>2, <2>3, Zenon
  <1> QED  BY <1>1, <1>2, <1>4, <1>5, <1>6, <1>8, BuilderStage, Zenon

\* Stages that leave the builder alone.
LEMMA PlainStageInv == ASSUME BuilderInv, CopyInstanceFile \/ Wait PROVE BuilderInv'
  <1> USE DEF BuilderInv
  <1>1. PICK s \in {"export-manifest", "stop-grace-period"} : At(s, "start")
    BY Zenon DEF CopyInstanceFile, Wait
  <1>2. /\ Reached(s) /\ run.at = "start" /\ StageDone
        /\ UNCHANGED <<local, builder, validator, published, newer, residue>>
    BY <1>1, Zenon DEF CopyInstanceFile, Wait, At
  <1>3. /\ run'.id = run.id /\ run'.build = run.build /\ run'.left = run.left
        /\ \A t : Left(t)' <=> Left(t) /\ t # s
    BY <1>2, StageDoneEffect, Zenon
  <1>4. run.full => InstancePart
    BY <1>2, Zenon DEF FullInv, Reached, Running
  <1>5. run.full => InstancePart'
    BY <1>1, <1>2, <1>3, <1>4, Zenon DEF InstancePart
  <1> QED  BY <1>1, <1>2, <1>5, BuilderStage, Zenon DEF BuilderTypes, ResidueInv

\* stop-instance ends what was installed before the image is published.
LEMMA StopInstanceInv == ASSUME BuilderInv, StopInstance PROVE BuilderInv'
  <1> USE DEF BuilderInv
  <1>1. /\ Reached("stop-instance") /\ run.at = "start" /\ StageDone
        /\ UNCHANGED <<local, validator, published, newer, residue>>
    BY Zenon DEF StopInstance, At
  <1>2. builder \in InstanceRecords /\ newer \subseteq Builds
    BY Zenon DEF BuilderTypes
  <1>3. /\ builder' \in InstanceRecords /\ builder'.state = "stopped"
        /\ builder'.type = builder.type /\ builder'.soft = builder.soft
    BY <1>2, Zenon DEF StopInstance, InstanceRecords
  <1>4. /\ run'.id = run.id /\ run'.build = run.build /\ run'.left = run.left
        /\ \A t : Left(t)' <=> Left(t) /\ t # "stop-instance"
    BY <1>1, StageDoneEffect, Zenon
  <1>5. ASSUME run.full PROVE InstancePart'
    <2>1. InstancePart /\ Closed /\ Left("stop-instance") /\ ~Left("create-instance") /\ ~Left("install")
      BY <1>1, <1>5, ReachedOrder, Zenon DEF FullInv, Running
    <2>2. Left("publish-image") /\ Left("delete-instance")
      BY <2>1, Chain, Zenon
    <2>3. newer = {}
      BY <2>1, Zenon DEF InstancePart, ResidueInv
    <2> QED  BY <1>1, <1>3, <1>4, <2>1, <2>2, <2>3, Zenon DEF InstancePart
  <1> QED  BY <1>1, <1>2, <1>3, <1>5, BuilderStage, Zenon

\* delete-instance comes after the export.
LEMMA DeleteInstanceInv == ASSUME BuilderInv, DeleteInstance PROVE BuilderInv'
  <1> USE DEF BuilderInv
  <1>1. /\ Reached("delete-instance") /\ run.at = "start" /\ StageDone
        /\ UNCHANGED <<local, validator, published, newer, residue>>
    BY Zenon DEF DeleteInstance, At
  <1>2. builder' \in InstanceRecords /\ builder'.state = "absent" /\ newer \subseteq Builds
    BY Zenon DEF DeleteInstance, Gone, InstanceRecords, ImageTypes, BuilderTypes
  <1>3. /\ run'.id = run.id /\ run'.build = run.build /\ run'.left = run.left
        /\ \A t : Left(t)' <=> Left(t) /\ t # "delete-instance"
    BY <1>1, StageDoneEffect, Zenon
  <1>4. ASSUME run.full PROVE InstancePart'
    <2>1. Closed /\ ~Left("export-image")
      BY <1>1, <1>4, ReachedOrder, Zenon DEF FullInv, Running
    <2>2. ~Left("create-instance") /\ ~Left("install") /\ ~Left("stop-instance") /\ ~Left("publish-image")
      BY <2>1, Chain, Zenon
    <2> QED  BY <1>2, <1>3, <2>2, Zenon DEF InstancePart
  <1> QED  BY <1>1, <1>2, <1>4, BuilderStage, Zenon

\* The alias is taken from an older image; one newer than the builder is kept,
\* which a complete run never meets.
LEMMA PublishAliasInv == ASSUME BuilderInv, PublishAlias PROVE BuilderInv'
  <1> USE DEF BuilderInv
  <1>0. /\ Reached("publish-image") /\ run.at = "start" /\ UNCHANGED <<local, builder, validator, newer, residue>>
        /\ run.build \in Builds /\ run.st = "running" /\ Left("publish-image") /\ ~Left("stop-instance")
    BY ReachedOrder, Zenon DEF PublishAlias, At, BuilderTypes, RunRecords, Running
  <1>1. run.full => Closed /\ InstancePart /\ ImagePart /\ (run.build # "haproxy" => CheckPart)
    BY <1>0, Zenon DEF FullInv
  <1>2. run.full => Left("export-image") /\ (run.build # "haproxy" => Left("validate-image"))
    BY <1>0, <1>1, Chain, Zenon
  <1>3. CASE PublishedAlready(run.build) /\ StageDone /\ UNCHANGED published
    <2>1. ~run.full
      BY <1>0, <1>1, <1>3, Zenon DEF InstancePart, PublishedAlready
    <2>2. /\ run' \in RunRecords /\ run'.todo \subseteq DOMAIN Stages(run'.build)
          /\ run'.at = "start" /\ run'.full = run.full /\ run'.st = run.st /\ run'.left = run.left
      BY <1>0, <1>3, StageDoneEffect, Zenon
    <2>3. BuilderTypes' /\ AtInv'
      BY <1>0, <1>3, <2>2, Zenon DEF BuilderTypes, AtInv, ExportPcs, Running, Reached
    <2>4. ResidueInv' /\ OutputWholeOrGone'
      BY <1>0, <2>2, Zenon DEF ResidueInv, OutputWholeOrGone, Exporting, ExportPcs, Running
    <2> QED  BY <2>1, <2>2, <2>3, <2>4, Zenon DEF FullInv
  <1>4. CASE published' = [published EXCEPT ![run.build] = <<>>] /\ Goto("create")
    <2>1. /\ run' \in RunRecords /\ run'.todo \subseteq DOMAIN Stages(run'.build)
          /\ run'.at = "create" /\ run'.id = run.id /\ run'.build = run.build /\ run'.full = run.full
          /\ run'.st = run.st /\ run'.checked = run.checked /\ run'.left = run.left
          /\ \A t : /\ Left(t)' <=> Left(t)
                    /\ Reached(t)' <=> Reached(t)
          /\ Closed => Closed'
      BY <1>4, GotoRun, Zenon
    <2>2. BuilderTypes'
      BY <1>0, <1>4, <2>1, Zenon DEF BuilderTypes
    <2>3. AtInv'
      BY <1>0, <2>1, Zenon DEF AtInv, ExportPcs, Running
    <2>4. ResidueInv' /\ OutputWholeOrGone'
      BY <1>0, <2>1, Zenon DEF ResidueInv, OutputWholeOrGone, Exporting, ExportPcs, Running
    <2>5. run.full => InstancePart' /\ ImagePart'
      BY <1>0, <1>1, <1>2, <2>1, Zenon DEF InstancePart, ImagePart
    <2>6. run.full /\ run.build # "haproxy" => CheckPart'
      BY <1>0, <1>1, <1>2, <2>1, Zenon DEF CheckPart
    <2> QED  BY <1>1, <2>1, <2>2, <2>3, <2>4, <2>5, <2>6, Zenon DEF FullInv
  <1> QED  BY <1>3, <1>4, Zenon DEF PublishAlias

\* The image holds what the builder holds.
LEMMA PublishImageInv == ASSUME BuilderInv, PublishImage PROVE BuilderInv'
  <1> USE DEF BuilderInv
  <1>0. /\ Reached("publish-image") /\ StageDone /\ UNCHANGED <<local, builder, validator, residue>>
        /\ builder.state = "stopped" /\ newer' = newer \cup {run.build}
        /\ run.build \in Builds /\ run.id \in Int /\ run.st = "running" /\ run.at = "create"
        /\ Left("publish-image") /\ ~Left("stop-instance")
    BY ReachedOrder, Zenon DEF PublishImage, At, BuilderTypes, RunRecords, Running
  <1>1. PICK m \in Minutes :
           published' = [published EXCEPT ![run.build] =
                           <<[type |-> builder.type, soft |-> builder.soft, id |-> run.id, minute |-> m]>>]
    BY Zenon DEF PublishImage
  <1> DEFINE img == [type |-> builder.type, soft |-> builder.soft, id |-> run.id, minute |-> m]
  <1>2. img \in ImageRecords /\ img.soft = builder.soft /\ img.type = builder.type
    BY <1>0, BuilderAssumption, Zenon DEF BuilderTypes, InstanceRecords, ImageRecords
  <1>3. published' \in [Builds -> {<<>>} \cup {<<i>> : i \in ImageRecords}] /\ published'[run.build] = <<img>>
    BY <1>0, <1>1, <1>2, Zenon DEF BuilderTypes
  <1>4. /\ run' \in RunRecords /\ run'.todo \subseteq DOMAIN Stages(run'.build)
        /\ run'.at = "start" /\ run'.id = run.id /\ run'.build = run.build /\ run'.full = run.full
        /\ run'.st = run.st /\ run'.checked = run.checked /\ run'.left = run.left
        /\ \A t : Left(t)' <=> Left(t) /\ t # "publish-image"
        /\ Closed => Closed'
    BY <1>0, StageDoneEffect, Zenon
  <1> HIDE DEF img
  <1>5. run.full => Closed /\ InstancePart /\ ImagePart /\ (run.build # "haproxy" => CheckPart)
    BY <1>0, Zenon DEF FullInv
  <1>6. run.full => /\ Left("export-image") /\ Left("delete-instance") /\ ~Left("install") /\ ~Left("create-instance")
                    /\ run.build # "haproxy" => Left("validate-image")
    BY <1>0, <1>5, Chain, Zenon
  <1>7. BuilderTypes' /\ AtInv'
    BY <1>0, <1>3, <1>4, Zenon DEF BuilderTypes, AtInv, ExportPcs, Running, Reached
  <1>8. ResidueInv' /\ OutputWholeOrGone'
    BY <1>0, <1>4, Zenon DEF ResidueInv, OutputWholeOrGone, Exporting, ExportPcs, Running
  <1>9. run.full => InstancePart'
    BY <1>0, <1>4, <1>5, <1>6, Zenon DEF InstancePart
  <1>10. run.full => ImagePart'
    <2>1. run.full => OwnImage(img)
      BY <1>0, <1>2, <1>4, <1>5, <1>6, Zenon DEF InstancePart, OwnImage
    <2>2. published'[run.build] # <<>> /\ published'[run.build][1] = img
      BY <1>3
    <2> QED  BY <1>4, <1>6, <2>1, <2>2, Zenon DEF ImagePart, OwnImage
  <1>11. run.full /\ run.build # "haproxy" => CheckPart'
    BY <1>0, <1>4, <1>5, <1>6, Zenon DEF CheckPart
  <1> QED  BY <1>4, <1>5, <1>7, <1>8, <1>9, <1>10, <1>11, Zenon DEF FullInv

\* What is written to the output file.
LEMMA SavesEffect ==
    ASSUME BuilderTypes, NEW w, Saves(w)
    PROVE  /\ Output \in DOMAIN local' /\ local' = [p \in DOMAIN local' |-> local'[p]]
           /\ local'[Output] = <<Exported(published[run.build][1], w)>>
           /\ local'[Output][1].whole = w
  BY Zenon DEF BuilderTypes, Saves, Exported

\* The export goes on.
LEMMA ExportGoesOn ==
    ASSUME BuilderInv, Reached("export-image"), published[run.build] # <<>>,
           NEW w, Saves(w), NEW a \in ExportPcs, Goto(a),
           UNCHANGED <<builder, validator, published, newer>>, residue' \in {residue, residue \ {"output"}}
    PROVE  BuilderInv'
  <1> USE DEF BuilderInv
  <1>1. /\ run' \in RunRecords /\ run'.todo \subseteq DOMAIN Stages(run'.build)
        /\ run'.at = a /\ run'.id = run.id /\ run'.build = run.build /\ run'.full = run.full
        /\ run'.st = run.st /\ run'.checked = run.checked /\ run'.left = run.left
        /\ \A t : /\ Left(t)' <=> Left(t)
                  /\ Reached(t)' <=> Reached(t)
        /\ Closed => Closed'
    BY GotoRun, Zenon
  <1>2. run.st = "running" /\ Left("export-image") /\ run.at \notin {"exec", "delete"}
    BY ReachedOrder DEF Running, AtInv
  <1>3. BuilderTypes'
    BY <1>1, SavesEffect, Zenon DEF BuilderTypes
  <1>4. AtInv'
    BY <1>1, <1>2, Zenon DEF AtInv, ExportPcs, Running
  <1>5. ResidueInv' /\ OutputWholeOrGone'
    BY <1>1, <1>2, Zenon DEF ResidueInv, OutputWholeOrGone, Exporting, ExportPcs, Running
  <1>6. run.full => Closed /\ InstancePart /\ ImagePart /\ (run.build # "haproxy" => CheckPart)
    BY <1>2, Zenon DEF FullInv
  <1>7. run.full => InstancePart'
    BY <1>1, <1>6, Zenon DEF InstancePart
  <1>8. run.full => ImagePart'
    BY <1>1, <1>2, <1>6, Zenon DEF ImagePart, OwnImage
  <1>9. run.full /\ run.build # "haproxy" => CheckPart'
    BY <1>1, <1>6, Zenon DEF CheckPart, ExportPcs
  <1> QED  BY <1>1, <1>3, <1>4, <1>5, <1>6, <1>7, <1>8, <1>9, Zenon DEF FullInv

\* The export is complete, or its last bytes are lost and that is recorded.
LEMMA ExportEnds ==
    ASSUME BuilderInv, Reached("export-image"), published[run.build] # <<>>, StageDone,
           UNCHANGED <<builder, validator, published, newer>>,
           \/ Saves(TRUE) /\ UNCHANGED residue
           \/ UNCHANGED local /\ residue' = residue \cup {"output"}
    PROVE  BuilderInv'
  <1> USE DEF BuilderInv
  <1>1. /\ run' \in RunRecords /\ run'.todo \subseteq DOMAIN Stages(run'.build)
        /\ run'.at = "start" /\ run'.id = run.id /\ run'.build = run.build /\ run'.full = run.full
        /\ run'.st = run.st /\ run'.checked = run.checked /\ run'.left = run.left
        /\ \A t : Left(t)' <=> Left(t) /\ t # "export-image"
        /\ Closed => Closed'
    BY StageDoneEffect, Zenon
  <1>2. run.st = "running" /\ ~Left("publish-image") /\ run.at \notin {"exec", "delete"}
    BY ReachedOrder DEF Running, AtInv
  <1>3. \/ "output" \in residue'
        \/ local'[Output] = <<Exported(published[run.build][1], TRUE)>> /\ local'[Output][1].whole
    BY SavesEffect, Zenon
  <1>4. BuilderTypes' /\ AtInv'
    BY <1>1, SavesEffect, Zenon DEF BuilderTypes, AtInv, ExportPcs, Running, Reached
  <1>5. ResidueInv' /\ OutputWholeOrGone'
    BY <1>1, <1>2, <1>3, Zenon DEF ResidueInv, OutputWholeOrGone, Running
  <1>6. run.full => Closed /\ InstancePart /\ ImagePart /\ (run.build # "haproxy" => CheckPart)
    BY <1>2, Zenon DEF FullInv
  <1>7. run.full => InstancePart'
    BY <1>1, <1>6, Zenon DEF InstancePart
  <1>8. run.full => ImagePart'
    BY <1>1, <1>2, <1>3, <1>6, Zenon DEF ImagePart, OwnImage, Exported
  <1>9. run.full /\ run.build # "haproxy" => CheckPart'
    BY <1>1, <1>6, Zenon DEF CheckPart
  <1> QED  BY <1>1, <1>4, <1>5, <1>6, <1>7, <1>8, <1>9, Zenon DEF FullInv

\* Every step of the export keeps the invariant.
LEMMA ExportInv ==
    ASSUME BuilderInv, ExportImage \/ Download \/ CompressRootfs \/ CloseOutput
    PROVE  BuilderInv'
  <1>1. Reached("export-image") /\ UNCHANGED <<builder, validator, published, newer>>
    BY Zenon DEF ExportImage, Download, CompressRootfs, CloseOutput, At
  <1>2. published[run.build] # <<>>
    BY Zenon DEF ExportImage, Download, CompressRootfs, CloseOutput, At, BuilderInv, AtInv, ExportPcs
  <1>3. CASE ExportImage \/ CompressRootfs
    BY <1>1, <1>2, <1>3, ExportGoesOn, Zenon DEF ExportImage, CompressRootfs, ExportPcs
  <1>4. CASE Download
    BY <1>1, <1>2, <1>4, ExportGoesOn, ExportEnds, Zenon DEF Download, ExportPcs
  <1>5. CASE CloseOutput
    BY <1>1, <1>2, <1>5, ExportEnds, Zenon DEF CloseOutput
  <1> QED  BY <1>3, <1>4, <1>5, Zenon

\* The chain of validate-image: launch, run the script, delete.
LEMMA ValidateInv ==
    ASSUME BuilderInv, ValidateLaunch \/ ValidateExec \/ ValidateDelete
    PROVE  BuilderInv'
  <1> USE DEF BuilderInv
  <1>0. /\ Reached("validate-image") /\ UNCHANGED <<local, builder, published, newer, residue>>
        /\ run.st = "running" /\ Left("validate-image") /\ ~Left("delete-instance") /\ run.build # "haproxy"
        /\ run.at \notin ExportPcs
    BY ReachedOrder, Zenon DEF ValidateLaunch, ValidateExec, ValidateDelete, At, Running, ExportPcs
  <1>1. run.full => Closed /\ InstancePart /\ ImagePart /\ CheckPart
    BY <1>0, Zenon DEF FullInv
  <1>2. run.full => ~Left("export-image") /\ ~Left("publish-image")
    BY <1>0, <1>1, Chain, Zenon
  <1>3. run.build \in Builds /\ validator \in InstanceRecords /\ run.checked \in SUBSET Int
    BY Zenon DEF BuilderTypes, RunRecords
  <1>4. CASE ValidateLaunch
    <2>1. /\ run.at = "start" /\ Goto("exec")
          /\ validator.state = "absent" => published[run.build] # <<>>
      BY <1>4, Zenon DEF ValidateLaunch, At
    <2>2. published[run.build] # <<>> => published[run.build][1].id \in Int
      BY <1>3 DEF BuilderTypes, ImageRecords
    <2>3. /\ validator' \in InstanceRecords
          /\ validator.state = "absent" => validator'.soft = {published[run.build][1].id}
      BY <1>3, <1>4, <2>1, <2>2, Zenon DEF ValidateLaunch, Launched, InstanceRecords, Type, ImageTypes
    <2>4. /\ run' \in RunRecords /\ run'.todo \subseteq DOMAIN Stages(run'.build)
          /\ run'.at = "exec" /\ run'.id = run.id /\ run'.build = run.build /\ run'.full = run.full
          /\ run'.st = run.st /\ run'.checked = run.checked /\ run'.left = run.left
          /\ \A t : /\ Left(t)' <=> Left(t)
                    /\ Reached(t)' <=> Reached(t)
          /\ Closed => Closed'
      BY <2>1, GotoRun, Zenon
    <2>5. BuilderTypes' /\ AtInv'
      BY <1>0, <2>3, <2>4, Zenon DEF BuilderTypes, AtInv, ExportPcs, Running
    <2>6. ResidueInv' /\ OutputWholeOrGone'
      BY <1>0, <2>4, Zenon DEF ResidueInv, OutputWholeOrGone, Exporting, Running
    <2>7. run.full => InstancePart' /\ ImagePart'
      BY <1>0, <1>1, <2>4, Zenon DEF InstancePart, ImagePart, OwnImage, Exported
    <2>8. run.full => CheckPart'
      BY <1>0, <1>1, <2>1, <2>3, <2>4, Zenon DEF CheckPart, ResidueInv, Running
    <2> QED  BY <1>1, <2>4, <2>5, <2>6, <2>7, <2>8, Zenon DEF FullInv
  <1>5. CASE ValidateExec
    <2>1. /\ run.at = "exec" /\ UNCHANGED validator
          /\ run' = [run EXCEPT !.at = "delete", !.checked = validator.soft] /\ validator.soft \in SUBSET Int
      BY <1>3, <1>5, Zenon DEF ValidateExec, At, InstanceRecords
    <2>4. /\ run' \in RunRecords /\ run'.todo \subseteq DOMAIN Stages(run'.build)
          /\ run'.at = "delete" /\ run'.id = run.id /\ run'.build = run.build /\ run'.full = run.full
          /\ run'.st = run.st /\ run'.checked = validator.soft /\ run'.left = run.left
          /\ \A t : /\ Left(t)' <=> Left(t)
                    /\ Reached(t)' <=> Reached(t)
          /\ Closed => Closed'
      BY <2>1, GotoEffect, Zenon
    <2>5. BuilderTypes' /\ AtInv'
      BY <1>0, <2>1, <2>4, Zenon DEF BuilderTypes, AtInv, ExportPcs, Running
    <2>6. ResidueInv' /\ OutputWholeOrGone'
      BY <1>0, <2>1, <2>4, Zenon DEF ResidueInv, OutputWholeOrGone, Exporting, Running
    <2>7. run.full => InstancePart' /\ ImagePart'
      BY <1>0, <1>1, <2>4, Zenon DEF InstancePart, ImagePart, OwnImage, Exported
    <2>8. run.full => CheckPart'
      BY <1>0, <1>1, <2>1, <2>4, Zenon DEF CheckPart
    <2> QED  BY <1>1, <2>4, <2>5, <2>6, <2>7, <2>8, Zenon DEF FullInv
  <1>6. CASE ValidateDelete
    <2>1. run.at = "delete" /\ StageDone /\ validator' \in InstanceRecords /\ validator'.state = "absent"
      BY <1>6, Zenon DEF ValidateDelete, At, Gone, InstanceRecords, ImageTypes
    <2>4. /\ run' \in RunRecords /\ run'.todo \subseteq DOMAIN Stages(run'.build)
          /\ run'.at = "start" /\ run'.id = run.id /\ run'.build = run.build /\ run'.full = run.full
          /\ run'.st = run.st /\ run'.checked = run.checked /\ run'.left = run.left
          /\ \A t : Left(t)' <=> Left(t) /\ t # "validate-image"
          /\ Closed => Closed'
      BY <1>0, <2>1, StageDoneEffect, Zenon
    <2>5. BuilderTypes' /\ AtInv'
      BY <1>0, <2>1, <2>4, Zenon DEF BuilderTypes, AtInv, ExportPcs, Running, Reached
    <2>6. ResidueInv' /\ OutputWholeOrGone'
      BY <1>0, <2>1, <2>4, Zenon DEF ResidueInv, OutputWholeOrGone, Exporting, Running
    <2>7. run.full => InstancePart' /\ ImagePart'
      BY <1>0, <1>1, <2>4, Zenon DEF InstancePart, ImagePart, OwnImage, Exported
    <2>8. run.full => CheckPart'
      BY <1>0, <1>1, <2>1, <2>4, Zenon DEF CheckPart
    <2> QED  BY <1>1, <2>4, <2>5, <2>6, <2>7, <2>8, Zenon DEF FullInv
  <1> QED  BY <1>4, <1>5, <1>6, Zenon

\* A command starts, with all of its stages left when the flags leave none out.
LEMMA StartInv ==
    ASSUME BuilderInv, Start
    PROVE  BuilderInv'
  <1> USE DEF BuilderInv
  <1>1. PICK b \in Builds, f \in Flags :
            run' = [id |-> run.id + 1, build |-> b, todo |-> Selected(b, f),
                    full |-> Selected(b, f) = DOMAIN Stages(b), st |-> "running", at |-> "start",
                    checked |-> {}, left |-> residue]
    BY Zenon DEF Start
  <1>2. /\ run'.build = b /\ run'.todo = Selected(b, f) /\ run'.at = "start" /\ run'.st = "running"
        /\ run'.left = residue /\ (run'.full <=> Selected(b, f) = DOMAIN Stages(b))
    BY <1>1, Zenon
  <1>3. Selected(b, f) \subseteq DOMAIN Stages(b) /\ Selected(b, f) \in SUBSET Int
    BY StagePlaces DEF Selected
  <1>4. run.id \in Int /\ residue \in SUBSET {"builder", "validator", "output"}
    BY Zenon DEF BuilderTypes, RunRecords
  <1>5. run' \in RunRecords
    BY <1>1, <1>3, <1>4 DEF RunRecords
  <1>6. ~Running /\ Running' /\ run.at = "start"
        /\ UNCHANGED <<local, builder, validator, published, newer, residue>>
    BY <1>2, Zenon DEF Start, Running, AtInv
  <1>7. BuilderTypes' /\ AtInv' /\ OutputWholeOrGone'
    BY <1>2, <1>3, <1>5, <1>6, Zenon DEF BuilderTypes, AtInv, OutputWholeOrGone, Exporting, ExportPcs
  <1>8. ResidueInv'
    BY <1>2, <1>6, Zenon DEF ResidueInv
  <1>9. run'.full => /\ (\A s \in {"create-instance", "install", "stop-instance", "publish-image",
                                   "export-image", "delete-instance"} : Left(s)')
                     /\ (run'.build # "haproxy" => Left("validate-image")')
                     /\ Closed'
    BY <1>2, AllStages DEF Left, Closed
  <1>10. run'.full => InstancePart' /\ ImagePart'
    BY <1>2, <1>6, <1>9, Zenon DEF InstancePart, ImagePart, ResidueInv
  <1>11. run'.full /\ run'.build # "haproxy" => CheckPart'
    BY <1>2, <1>9, Zenon DEF CheckPart
  <1> QED  BY <1>7, <1>8, <1>9, <1>10, <1>11, Zenon DEF FullInv

\* How a command that ends changes what is known of it.
LEMMA EndsEffect ==
    ASSUME BuilderTypes, NEW st \in {"ok", "failed", "killed"}, Ends(st)
    PROVE  /\ run' \in RunRecords /\ run'.todo = {} /\ run'.at = "start" /\ run'.st = st
           /\ run'.id = run.id /\ run'.build = run.build /\ run'.full = run.full
           /\ st = "ok" => run'.checked = run.checked /\ run'.left = run.left
  <1>1. run \in RunRecords
    BY Zenon DEF BuilderTypes
  <1>2. (IF st = "ok" THEN run.checked ELSE {}) \in SUBSET Int
    BY <1>1, Zenon DEF RunRecords
  <1>3. (IF st = "ok" THEN run.left ELSE {}) \in SUBSET {"builder", "validator", "output"}
    BY <1>1, Zenon DEF RunRecords
  <1> QED  BY <1>1, <1>2, <1>3, Zenon DEF Ends, RunRecords

\* A command that runs to its end leaves nothing it did not find, or it was
\* not a complete one.
LEMMA FinishInv ==
    ASSUME BuilderInv, Finish
    PROVE  BuilderInv'
  <1> USE DEF BuilderInv
  <1>1. /\ Running /\ run.todo = {} /\ UNCHANGED <<local, builder, validator, published, newer>>
        /\ residue' = IF run.full THEN residue \ Leaves ELSE residue \cup {"builder"}
    BY Zenon DEF Finish
  <1>2. /\ run' \in RunRecords /\ run'.todo = {} /\ run'.at = "start" /\ run'.st = "ok"
        /\ run'.id = run.id /\ run'.build = run.build /\ run'.full = run.full
        /\ run'.checked = run.checked /\ run'.left = run.left
    BY EndsEffect, Zenon DEF Finish
  <1>3. run.at = "start" /\ run.st = "running" /\ (\A s : ~Left(s) /\ ~Left(s)') /\ Closed'
    BY <1>1, <1>2, Zenon DEF AtInv, Reached, Left, Running, BuilderTypes, RunRecords, Closed
  <1>4. run.full => /\ builder.state = "absent" /\ InstancePart /\ ImagePart
                    /\ run.build # "haproxy" => CheckPart /\ validator.state = "absent"
    BY <1>3, Zenon DEF FullInv, InstancePart, CheckPart
  <1>5. BuilderTypes' /\ AtInv'
    BY <1>1, <1>2, Zenon DEF BuilderTypes, AtInv, Leaves, ExportPcs
  <1>6. "output" \in residue' <=> "output" \in residue
    BY <1>1, Zenon DEF Leaves
  <1>7. OutputWholeOrGone'
    BY <1>1, <1>3, <1>6, Zenon DEF OutputWholeOrGone, Exporting, ExportPcs
  <1>8. ResidueInv'
    BY <1>1, <1>2, <1>3, <1>4, Zenon DEF ResidueInv, Leaves, Running
  <1>9. run.full => InstancePart' /\ ImagePart'
    BY <1>1, <1>2, <1>3, <1>4, <1>6, Zenon DEF InstancePart, ImagePart, OwnImage, Exported
  <1>10. run.full /\ run.build # "haproxy" => CheckPart'
    BY <1>1, <1>2, <1>3, <1>4, Zenon DEF CheckPart
  <1> QED  BY <1>2, <1>3, <1>5, <1>7, <1>8, <1>9, <1>10, Zenon DEF FullInv

\* A command that fails or is killed.
LEMMA BreakInv ==
    ASSUME BuilderInv, Fail \/ Kill
    PROVE  BuilderInv'
  <1> USE DEF BuilderInv
  <1>1. PICK st \in {"failed", "killed"} : Ends(st)
    BY Zenon DEF Fail, Kill
  <1>2. /\ run' \in RunRecords /\ run'.todo = {} /\ run'.at = "start" /\ run'.st = st
        /\ run'.build = run.build
    BY <1>1, EndsEffect, Zenon
  <1>3. /\ Running /\ UNCHANGED <<builder, validator, published, newer>>
        /\ residue' \subseteq {"builder", "validator", "output"}
        /\ residue \cup Leaves \subseteq residue'
    BY Zenon DEF Fail, Kill, Leaves, BuilderTypes
  <1>4. Output \in DOMAIN local' /\ local' = [p \in DOMAIN local' |-> local'[p]]
    BY Zenon DEF Fail, Kill, BuilderTypes
  <1>5. BuilderTypes' /\ AtInv' /\ FullInv'
    BY <1>2, <1>3, <1>4, Zenon DEF BuilderTypes, AtInv, ExportPcs, FullInv
  <1>6. OutputWholeOrGone'
    BY <1>3, Zenon DEF OutputWholeOrGone, Fail, Kill, BuilderTypes
  <1>7. run.at \in {"exec", "delete"} => run.build # "haproxy"
    BY ReachedOrder, Zenon DEF AtInv
  <1>8. ResidueInv'
    BY <1>2, <1>3, <1>7, Zenon DEF ResidueInv, Leaves, Running
  <1> QED  BY <1>5, <1>6, <1>8, Zenon

\* Every step of a command keeps the invariant.
LEMMA BuilderNextInv ==
    ASSUME BuilderInv, BuilderNext
    PROVE  BuilderInv'
  BY StartInv, CreateInstanceInv, ExecInstanceInv, PlainStageInv, StopInstanceInv, PublishAliasInv,
     PublishImageInv, ExportInv, DeleteInstanceInv, ValidateInv, FinishInv, BreakInv, Zenon DEF BuilderNext

\* No command has run yet, and the output file is not there or is whole.
LEMMA BuilderInitInv ==
    ASSUME BuilderInit, Output \in DOMAIN local, local = [p \in DOMAIN local |-> local[p]],
           local[Output] = <<>> \/ local[Output][1].whole
    PROVE  BuilderInv
  <1>1. run.build \in Builds
    BY BuilderAssumption, Zenon DEF BuilderInit
  <1>2. run \in RunRecords /\ run.todo = {} /\ run.at = "start" /\ run.st = "idle" /\ ~run.full
    BY <1>1 DEF BuilderInit, RunRecords
  <1>3. BuilderTypes
    BY <1>2, Zenon DEF BuilderInit, BuilderTypes, InstanceRecords, ImageTypes, Gone
  <1>4. AtInv /\ ResidueInv /\ OutputWholeOrGone /\ FullInv
    BY <1>2, Zenon DEF BuilderInit, AtInv, ResidueInv, OutputWholeOrGone, FullInv, ExportPcs, Running, Gone
  <1> QED  BY <1>3, <1>4, Zenon DEF BuilderInv

\* A step that leaves the builder and the files alone.
LEMMA BuilderUnchanged ==
    ASSUME BuilderInv, UNCHANGED <<local, builder, validator, published, newer, run, residue>>
    PROVE  BuilderInv'
  <1>1. BuilderTypes'
    BY Zenon DEF BuilderInv, BuilderTypes
  <1>2. AtInv' /\ ResidueInv' /\ OutputWholeOrGone'
    BY Zenon DEF BuilderInv, AtInv, ResidueInv, OutputWholeOrGone, Reached, Running, Exporting
  <1>3. \A s : Left(s)' <=> Left(s)
    BY Zenon DEF Left
  <1>4. (Closed' <=> Closed) /\ (InstancePart' <=> InstancePart) /\ (CheckPart' <=> CheckPart)
    BY <1>3, Zenon DEF Closed, InstancePart, CheckPart
  <1>5. ImagePart' <=> ImagePart
    BY <1>3, Zenon DEF ImagePart, OwnImage, Exported
  <1>6. FullInv'
    BY <1>4, <1>5, Zenon DEF BuilderInv, FullInv
  <1> QED  BY <1>1, <1>2, <1>6, Zenon DEF BuilderInv

\* What the invariant says of a command that has ended.
LEMMA BuilderEnds ==
    ASSUME BuilderInv
    PROVE  BuildIsExported /\ ValidatedIsBuilt /\ OutputWholeOrGone
  <1>1. run.st = "ok" => \A s : ~Left(s)
    BY Zenon DEF BuilderInv, AtInv, Running, Left
  <1> QED  BY <1>1, Zenon DEF BuilderInv, FullInv, InstancePart, ImagePart, CheckPart, OwnImage,
              BuildIsExported, ValidatedIsBuilt

-----------------------------------------------------------------------------
\* The pipeline: the bytes that the directory serves.

\* The bytes of an image's rootfs: every image published by the command m has
\* the rootfs R[m], and every other comes from a file built elsewhere.
Built(m, r, R) == m \in 1..run.id /\ (m = run.id => ~Left("publish-image")) /\ r = R[m]
Elsewhere(m, r) ==
    \E p \in Paths \ {Output} :
        /\ Artifacts[p] # <<>>
        /\ Artifacts[p][1].meta = m /\ Artifacts[p][1].root = r
Origin(m, r, R) == Built(m, r, R) \/ Elsewhere(m, r)

FileInv(f, R) ==
    \/ f.bytes = Torn
    \/ f.path.kind = "combined" /\ (f.bytes = f.path.of \/ raced)
    \/ \E m \in Int : f.path = MetadataPath(m) /\ f.bytes = <<{m}>>
    \/ \E m \in Int, r \in SUBSET Int : f.path = RootfsPath(m) /\ f.bytes = <<r>> /\ Origin(m, r, R)
DiskInv(x, R) ==
    x.ftype = "disk" =>
        \E m \in Int, r \in SUBSET Int : x.path = RootfsPath(m) /\ x.sha = <<r>> /\ Origin(m, r, R)
BytesInv(R) ==
    /\ run.id \in Nat /\ run.id <= MaxRuns /\ (Running => run.id > 0)
    /\ local[Output] # <<>> => Built(local[Output][1].meta, local[Output][1].root, R)
    /\ \A b \in Builds : published[b] # <<>> => Built(published[b][1].id, published[b][1].soft, R)
    /\ \A f \in stored : FileInv(f, R)
    /\ \A x \in catalog.items \cup imp.items : DiskInv(x, R)
    /\ imp.pc = "write" => Origin(Tarball.meta, Tarball.root, R)

-----------------------------------------------------------------------------
\* The steps of the builder, as the index sees them

\* The image in an exported file.
LEMMA ExportedFields == ASSUME NEW i, NEW w PROVE Exported(i, w).meta = i.id /\ Exported(i, w).root = i.soft
  BY Zenon DEF Exported

\* The output file is the only one written, and only during an export.
LEMMA BuilderLocal ==
    ASSUME BuilderInv, BuilderNext
    PROVE  /\ \/ local' = local
              \/ local' = [local EXCEPT ![Output] = <<>>] /\ Exporting
              \/ \E w \in BOOLEAN :
                    /\ published[run.build] # <<>> /\ published' = published
                    /\ Exporting \/ Exporting'
                    /\ local' = [local EXCEPT ![Output] = <<Exported(published[run.build][1], w)>>]
           /\ "output" \in residue => "output" \in residue' \/ Exporting'
  <1>0. run.at \in ExportPcs => published[run.build] # <<>> /\ Exporting
    BY Zenon DEF BuilderInv, AtInv, Exporting, ExportPcs
  <1>1. CASE ExportImage
    <2>1. Running /\ run' = [run EXCEPT !.at = "download"] /\ run \in RunRecords
      BY <1>1, Zenon DEF ExportImage, At, Reached, Goto, BuilderInv, BuilderTypes
    <2>2. Exporting'
      BY <2>1, Zenon DEF Exporting, Running, RunRecords, ExportPcs
    <2> QED  BY <1>1, <2>2, Zenon DEF ExportImage, Saves
  <1>2. CASE Download
    BY <1>0, <1>2, Zenon DEF Download, At, Saves, ExportPcs
  <1>3. CASE CompressRootfs
    BY <1>0, <1>3, Zenon DEF CompressRootfs, At, Saves, ExportPcs
  <1>4. CASE CloseOutput
    BY <1>0, <1>4, Zenon DEF CloseOutput, At, Saves, ExportPcs
  <1>5. CASE Fail
    BY <1>5, Zenon DEF Fail
  <1>6. CASE Finish
    BY <1>6, Zenon DEF Finish, Leaves
  <1>7. CASE Kill
    BY <1>7, Zenon DEF Kill
  <1> QED  BY <1>1, <1>2, <1>3, <1>4, <1>5, <1>6, <1>7, Zenon
           DEF BuilderNext, Start, CreateInstance, ExecInstance, CopyInstanceFile, Wait, StopInstance,
               PublishAlias, PublishImage, DeleteInstance, ValidateLaunch, ValidateExec, ValidateDelete

\* So the directory of image files keeps its type, and nothing of it changes
\* under an import that does not race.
LEMMA BuilderFrame ==
    ASSUME BuilderInv, IndexTypes, StandInv, RaceInv, BuilderNext, UNCHANGED indexVars,
           raced' = (raced \/ (Imports /\ Exporting /\ Shared)')
    PROVE  /\ IndexTypes' /\ StandInv'
           /\ \A p \in Paths \ {Output} : local'[p] = local[p]
           /\ Imports /\ ~raced' => local'[Job.path] = local[Job.path]
           /\ raced => raced'
           /\ Imports /\ Shared /\ "output" \in residue => "output" \in residue' \/ raced'
  <1>0. UNCHANGED <<index, catalog, stored, imp, imports>> /\ (raced => raced')
    BY Zenon DEF indexVars
  <1>1. run.build \in Builds /\ local \in [Paths -> TarCells]
        /\ published \in [Builds -> {<<>>} \cup {<<i>> : i \in ImageRecords}]
    BY Zenon DEF BuilderInv, BuilderTypes, RunRecords, IndexTypes
  <1>2. ASSUME NEW w \in BOOLEAN, published[run.build] # <<>>
        PROVE  <<Exported(published[run.build][1], w)>> \in TarCells
    <2>1. published[run.build][1] \in ImageRecords
      BY <1>1, <1>2
    <2>2. "tar" \in Forms
      BY Zenon DEF Forms
    <2>3. Product(run.build) \in Names
      BY Zenon DEF Product, Names
    <2>4. /\ published[run.build][1].type \in ImageTypes /\ published[run.build][1].minute \in Int
          /\ published[run.build][1].id \in Int /\ published[run.build][1].soft \in SUBSET Int
      BY <2>1, Zenon DEF ImageRecords
    <2>5. Exported(published[run.build][1], w) \in Tarballs
      BY <2>2, <2>3, <2>4, Zenon DEF Exported, Tarballs
    <2> QED  BY <2>5, Zenon DEF TarCells
  <1>3. <<>> \in TarCells
    BY Zenon DEF TarCells
  <1>4. \/ local' = local
        \/ \E cell \in TarCells : local' = [local EXCEPT ![Output] = cell] /\ (Exporting \/ Exporting')
    BY <1>2, <1>3, BuilderLocal, Zenon
  <1>5. local' \in [Paths -> TarCells] /\ \A p \in Paths \ {Output} : local'[p] = local[p]
    BY <1>1, <1>4, Zenon
  <1>6. ASSUME Imports, ~raced', local'[Job.path] # local[Job.path] PROVE FALSE
    <2>1. Job.path = Output /\ (Exporting \/ Exporting')
      BY <1>4, <1>5, <1>6, JobFacts, Zenon
    <2>2. Shared
      BY <1>6, <2>1, JobFacts, JobListFacts, Zenon DEF Shared, Job
    <2>3. Shared' /\ Imports'
      BY <1>0, <1>6, <2>2, Zenon DEF Shared, Imports
    <2> QED  BY <1>0, <1>6, <2>1, <2>2, <2>3, Zenon DEF RaceInv
  <1>7. IndexTypes' /\ StandInv'
    BY <1>0, <1>5, Zenon DEF IndexTypes, StandInv, Imports, Job
  <1>8. ASSUME Imports, Shared, "output" \in residue, "output" \notin residue' PROVE raced'
    <2>1. Exporting' /\ Imports' /\ Shared'
      BY <1>0, <1>8, BuilderLocal, Zenon DEF Shared, Imports
    <2> QED  BY <2>1, Zenon
  <1> QED  BY <1>0, <1>5, <1>6, <1>7, <1>8, Zenon

-----------------------------------------------------------------------------
\* Where the bytes come from

\* What an import reads comes from where it says.
LEMMA ReadOrigin ==
    ASSUME IndexTypes, StandInv, LocalInv, NEW R, BytesInv(R), NEW tar \in Tarballs, UpdateStep(tar)
    PROVE  Origin(tar.meta, tar.root, R)
  <1>1. Imports /\ local[Job.path] # <<>>
    BY Zenon DEF UpdateStep, Imports
  <1>2. Job.path \in Paths /\ local[Job.path][1] \in Tarballs
    BY <1>1, JobFacts, Zenon
  <1>3. tar.meta = local[Job.path][1].meta /\ tar.root = local[Job.path][1].root
    BY <1>2, Zenon DEF UpdateStep, Tarballs
  <1>4. CASE Job.path = Output
    BY <1>1, <1>3, <1>4, Zenon DEF BytesInv, Origin
  <1>5. CASE Job.path # Output
    BY <1>1, <1>2, <1>3, <1>5, Zenon DEF LocalInv, Origin, Elsewhere
  <1> QED  BY <1>4, <1>5, Zenon

\* The files an import writes.
LEMMA FilesKept ==
    ASSUME IndexTypes, StandInv, RereadInv, NEW R, BytesInv(R), IndexNext, raced => raced', UNCHANGED run
    PROVE  \A f \in stored' : FileInv(f, R)'
  <1>1. \A f \in stored : FileInv(f, R)'
    <2>1. \A m, r : Origin(m, r, R)' <=> Origin(m, r, R)
      BY Zenon DEF Origin, Built, Elsewhere, Left
    <2>2. ASSUME NEW f \in stored PROVE FileInv(f, R)'
      <3>1. FileInv(f, R)
        BY <2>2, Zenon DEF BytesInv
      <3> QED  BY <2>1, <3>1, Zenon DEF FileInv, MetadataPath, RootfsPath, Torn
    <2> QED  BY <2>2, Zenon
  <1>2. ASSUME NEW path, NEW bytes, stored' = Stored(path, bytes),
               FileInv([path |-> path, bytes |-> bytes], R)'
        PROVE  \A f \in stored' : FileInv(f, R)'
    <2>1. \A f \in stored' : f = [path |-> path, bytes |-> bytes] \/ f \in stored
      BY <1>2, StoredEffect, Zenon
    <2> QED  BY <1>1, <1>2, <2>1, Zenon
  <1>3. stored' = stored => \A f \in stored' : FileInv(f, R)'
    BY <1>1, Zenon
  <1>4. CASE stored' # stored
    <2>1. Write \/ WriteBreaksOff
      BY <1>4, IndexSteps, BeginEffect, Zenon DEF BeginStep, FailStep, InfoStep, UpdateStep
    <2>2. imp.pc = "write" /\ Imports
      BY <2>1, WriteCases, BreakCases, Zenon
    <2>3. Job \in JobRecords /\ Tarball \in Tarballs
      BY <2>2, JobFacts, Zenon DEF StandInv
    <2>4. Tarball.meta \in Int /\ Tarball.root \in SUBSET Int
      BY <2>3, Zenon DEF Tarballs
    <2>5. CASE \E path : stored' = Stored(path, Torn)
      <3>1. PICK path : stored' = Stored(path, Torn)
        BY <2>5, Zenon
      <3>2. FileInv([path |-> path, bytes |-> Torn], R)'
        BY Zenon DEF FileInv, Torn
      <3>3. PICK bytes : bytes = Torn
        BY Zenon
      <3> QED  BY <1>2, <3>1, <3>2, <3>3, Zenon
    <2>6. CASE Write /\ imp.todo = ToCopy
      <3>1. PICK path, bytes : /\ path = ContainerPath(ContainerSha(Tarball))
                               /\ bytes = ContainerSha(local[Job.path][1])
                               /\ stored' = Stored(path, bytes)
        BY <2>6, WriteCases, TodosDiffer, Zenon DEF CopyImage
      <3>2. path.kind = "combined" /\ path.of = ContainerSha(Tarball)
        BY <3>1, Zenon DEF ContainerPath
      <3>3. raced' \/ bytes = path.of
        BY <2>2, <2>6, <3>1, <3>2, WriteCases, TodosDiffer, Zenon DEF RereadInv
      <3>4. FileInv([path |-> path, bytes |-> bytes], R)'
        BY <3>2, <3>3, Zenon DEF FileInv
      <3> QED  BY <1>2, <3>1, <3>4, Zenon
    <2>7. CASE Write /\ imp.todo = ToRootfs
      <3>1. PICK path, bytes : /\ path = RootfsPath(Tarball.meta) /\ bytes = RootSha(Tarball)
                               /\ stored' = Stored(path, bytes)
        BY <2>7, WriteCases, TodosDiffer, Zenon DEF WriteRootfs
      <3>2. PICK m \in Int, r \in SUBSET Int : m = Tarball.meta /\ r = Tarball.root
        BY <2>4, Zenon
      <3>3. Origin(m, r, R)'
        BY <2>2, <3>2, Zenon DEF BytesInv, Origin, Built, Elsewhere, Left
      <3>4. path = RootfsPath(m) /\ bytes = <<r>>
        BY <3>1, <3>2, Zenon DEF RootSha
      <3>5. FileInv([path |-> path, bytes |-> bytes], R)'
        BY <3>3, <3>4, Zenon DEF FileInv, RootfsPath
      <3> QED  BY <1>2, <3>1, <3>5, Zenon
    <2>8. CASE Write /\ imp.todo = ToMeta
      <3>1. PICK path, bytes : /\ path = MetadataPath(Tarball.meta) /\ bytes = MetaSha(Tarball)
                               /\ stored' = Stored(path, bytes)
        BY <2>8, WriteCases, TodosDiffer, Zenon DEF WriteMetadata
      <3>2. PICK m \in Int : m = Tarball.meta
        BY <2>4, Zenon
      <3>3. path = MetadataPath(m) /\ bytes = <<{m}>>
        BY <3>1, <3>2, Zenon DEF MetaSha
      <3>4. FileInv([path |-> path, bytes |-> bytes], R)'
        BY <3>3, Zenon DEF FileInv, MetadataPath
      <3> QED  BY <1>2, <3>1, <3>4, Zenon
    <2> QED  BY <1>4, <2>1, <2>5, <2>6, <2>7, <2>8, WriteCases, BreakCases, Zenon DEF WriteIndex, WriteProducts
  <1> QED  BY <1>3, <1>4, Zenon

\* An import keeps what is known of the bytes.
LEMMA BytesKept ==
    ASSUME IndexTypes, StandInv, LocalInv, RereadInv, NEW R, BytesInv(R), IndexNext,
           raced => raced', UNCHANGED builderVars
    PROVE  BytesInv(R)'
  <1>0. UNCHANGED <<run, published>>
    BY Zenon DEF builderVars
  <1>1. \A m, r : Origin(m, r, R)' <=> Origin(m, r, R)
    BY <1>0, Zenon DEF Origin, Built, Elsewhere, Left
  <1>3. \A x : DiskInv(x, R)' <=> DiskInv(x, R)
    BY <1>1, Zenon DEF DiskInv, RootfsPath
  <1>4. UNCHANGED local
    BY Zenon DEF IndexNext, ImportImageCmd, ImportReleaseCmd, Begin, Parse, ContainerInfo, Write, WriteBreaksOff
  <1>5. ASSUME NEW tar \in Tarballs, UpdateStep(tar), Job \in JobRecords, NEW x \in NewItems(Job, tar)
        PROVE  DiskInv(x, R)
    <2>1. Origin(tar.meta, tar.root, R) /\ tar.meta \in Int /\ tar.root \in SUBSET Int
      BY <1>5, ReadOrigin, Zenon DEF Tarballs
    <2>2. x.ftype = "disk" => x.path = RootfsPath(tar.meta) /\ x.sha = RootSha(tar)
      BY <1>5, NewItemFacts, Zenon DEF JobRecords, ImageTypes
    <2> QED  BY <2>1, <2>2, Zenon DEF DiskInv, RootSha
  <1>6. \A x \in catalog'.items : DiskInv(x, R)
    <2>1. catalog'.items \in {catalog.items, {}, imp.items}
      BY CatalogAfter
    <2> QED  BY <2>1, Zenon DEF BytesInv
  <1>7. \A x \in imp'.items : DiskInv(x, R)
    BY <1>5, ItemsAfter, Zenon DEF BytesInv, Merged
  <1>8. imp'.pc = "write" => Origin(Tarball'.meta, Tarball'.root, R)
    <2>1. CASE \E tar \in Tarballs : UpdateStep(tar)
      <3>1. PICK tar \in Tarballs : UpdateStep(tar)
        BY <2>1, Zenon
      <3>2. Imports
        BY <3>1, Zenon DEF UpdateStep, Imports
      <3>3. imp'.tar = <<tar>>
        BY <3>1, <3>2, UpdateEffect, JobFacts, Zenon DEF UpdateStep
      <3>4. Tarball' = tar
        BY <3>3 DEF Tarball
      <3> QED  BY <3>1, <3>4, ReadOrigin, Zenon
    <2>2. CASE Write
      <3>1. imp.pc = "write" /\ (imp'.pc = "write" => imp'.tar = imp.tar)
        BY <2>2, WriteCases, WroteEffect, Zenon
      <3> QED  BY <3>1, Zenon DEF BytesInv, Tarball
    <2>3. CASE BeginStep \/ FailStep \/ InfoStep \/ WriteBreaksOff
      <3>1. imp'.pc # "write"
        BY <2>3, BeginEffect, FailsEffect, InfoEffect, BreakCases, JobFacts, Zenon
           DEF BeginStep, FailStep, InfoStep, Imports
      <3> QED  BY <3>1, Zenon
    <2> QED  BY <2>1, <2>2, <2>3, IndexSteps, Zenon
  <1>9. \A f \in stored' : FileInv(f, R)'
    BY <1>0, FilesKept, Zenon
  <1>10. \A x \in catalog'.items \cup imp'.items : DiskInv(x, R)'
    BY <1>3, <1>6, <1>7, Zenon
  <1>11. (imp.pc = "write" => Origin(Tarball.meta, Tarball.root, R))'
    BY <1>0, <1>8, Zenon DEF Origin, Built, Elsewhere, Left
  <1>12. (run.id \in Nat /\ run.id <= MaxRuns /\ (Running => run.id > 0))'
    BY <1>0, Zenon DEF BytesInv, Running
  <1>13. (local[Output] # <<>> => Built(local[Output][1].meta, local[Output][1].root, R))'
    BY <1>0, <1>4, Zenon DEF BytesInv, Built, Left
  <1>14. (\A b \in Builds : published[b] # <<>> => Built(published[b][1].id, published[b][1].soft, R))'
    BY <1>0, Zenon DEF BytesInv, Built, Left
  <1> QED  BY <1>9, <1>10, <1>11, <1>12, <1>13, <1>14, Zenon DEF BytesInv

\* A command has its number from its start on, and no stage that is behind it
\* comes back.
LEMMA RunSteps ==
    ASSUME BuilderInv, BuilderNext, run.id \in Nat
    PROVE  \/ /\ Start /\ run'.id = run.id + 1 /\ run.id < MaxRuns /\ ~Left("publish-image")
              /\ UNCHANGED published
           \/ /\ run'.id = run.id /\ Running
              /\ Left("publish-image")' => Left("publish-image")
              /\ PublishImage \/ \A b \in Builds : published'[b] \in {<<>>, published[b]}
  <1>0. BuilderTypes /\ run \in RunRecords /\ published \in [Builds -> {<<>>} \cup {<<i>> : i \in ImageRecords}]
    BY Zenon DEF BuilderInv, BuilderTypes
  <1>1. CASE Start
    <2>1. run.todo = {}
      BY <1>1, Zenon DEF Start, BuilderInv, AtInv, Running
    <2>2. ~Left("publish-image")
      BY <2>1, Zenon DEF Left
    <2> QED  BY <1>1, <2>2 DEF Start
  <1>2. ASSUME NEW s, Reached(s), StageDone
        PROVE  run'.id = run.id /\ Running /\ (Left("publish-image")' => Left("publish-image"))
    BY <1>0, <1>2, StageDoneEffect, Zenon DEF Reached
  <1>3. ASSUME NEW s, Reached(s), NEW a \in {"create", "exec", "delete"} \cup ExportPcs, Goto(a)
        PROVE  run'.id = run.id /\ Running /\ (Left("publish-image")' => Left("publish-image"))
    BY <1>0, <1>3, GotoRun, Zenon DEF Reached
  <1>4. CASE CreateInstance \/ ExecInstance \/ CopyInstanceFile \/ Wait \/ StopInstance \/ DeleteInstance
             \/ CloseOutput \/ ValidateDelete
    BY <1>2, <1>4, Zenon DEF CreateInstance, ExecInstance, CopyInstanceFile, Wait, StopInstance, DeleteInstance,
                      CloseOutput, ValidateDelete, At
  <1>5. CASE PublishAlias
    <2>1. \A b \in Builds : published'[b] \in {<<>>, published[b]}
      BY <1>0, <1>5, Zenon DEF PublishAlias
    <2> QED  BY <1>2, <1>3, <1>5, <2>1, Zenon DEF PublishAlias, At
  <1>6. CASE PublishImage
    BY <1>2, <1>6, Zenon DEF PublishImage, At
  <1>7. CASE ExportImage \/ Download \/ CompressRootfs
    BY <1>2, <1>3, <1>7, Zenon DEF ExportImage, Download, CompressRootfs, At, ExportPcs
  <1>8. CASE ValidateLaunch
    BY <1>3, <1>8, Zenon DEF ValidateLaunch, At
  <1>9. CASE ValidateExec
    <2>1. validator.soft \in SUBSET Int /\ Running
      BY <1>0, <1>9, Zenon DEF BuilderTypes, InstanceRecords, ValidateExec, At, Reached
    <2>2. run'.id = run.id /\ (Left("publish-image")' => Left("publish-image"))
      BY <1>0, <1>9, <2>1, GotoEffect, Zenon DEF ValidateExec
    <2> QED  BY <1>9, <2>1, <2>2, Zenon DEF ValidateExec
  <1>10. CASE Finish \/ Fail \/ Kill
    <2>1. run'.id = run.id /\ run'.todo = {} /\ Running /\ UNCHANGED published
      BY <1>0, <1>10, EndsEffect, Zenon DEF Finish, Fail, Kill
    <2> QED  BY <2>1, Zenon DEF Left
  <1> QED  BY <1>1, <1>4, <1>5, <1>6, <1>7, <1>8, <1>9, <1>10, Zenon DEF BuilderNext

\* An image published keeps its software; only PublishImage adds one.
LEMMA BuiltGrows ==
    ASSUME BuilderInv, BuilderNext, run.id \in Nat, Running => run.id > 0, NEW R \in [Int -> SUBSET Int]
    PROVE  \E Q \in [Int -> SUBSET Int] :
              /\ \A m, r : Built(m, r, R) => Built(m, r, Q)'
              /\ \A b \in Builds : \A i :
                    published'[b] = <<i>> => published[b] = <<i>> \/ Built(i.id, i.soft, Q)'
  <1>1. CASE PublishImage
    <2>1. BuilderTypes /\ Reached("publish-image") /\ StageDone
      BY <1>1, Zenon DEF PublishImage, At, BuilderInv
    <2>2. /\ run'.id = run.id /\ ~Left("publish-image")' /\ Left("publish-image")
          /\ builder.soft \in SUBSET Int /\ run.build \in Builds
      BY <2>1, StageDoneEffect, ReachedOrder, Zenon DEF BuilderTypes, InstanceRecords, RunRecords
    <2>3. PICK Q \in [Int -> SUBSET Int] :
              Q[run.id] = builder.soft /\ \A m \in Int : m # run.id => Q[m] = R[m]
      <3> DEFINE S == [R EXCEPT ![run.id] = builder.soft]
      <3>1. S \in [Int -> SUBSET Int] /\ S[run.id] = builder.soft /\ \A m \in Int : m # run.id => S[m] = R[m]
        BY <2>2
      <3> HIDE DEF S
      <3> QED  BY <3>1, Zenon
    <2>4. run.id > 0
      BY <2>1, Zenon DEF Reached
    <2>5. \A m, r : Built(m, r, R) => Built(m, r, Q)'
      BY <2>2, <2>3 DEF Built
    <2>6. ASSUME NEW b \in Builds, NEW i, published'[b] = <<i>>
          PROVE  published[b] = <<i>> \/ Built(i.id, i.soft, Q)'
      <3>1. PICK m \in Minutes : published' = [published EXCEPT ![run.build] =
                <<[type |-> builder.type, soft |-> builder.soft, id |-> run.id, minute |-> m]>>]
        BY <1>1, Zenon DEF PublishImage
      <3>2. CASE b # run.build
        BY <2>1, <2>6, <3>1, <3>2, Zenon DEF BuilderTypes
      <3>3. CASE b = run.build
        <4>1. i = [type |-> builder.type, soft |-> builder.soft, id |-> run.id, minute |-> m]
          BY <2>1, <2>6, <3>1, <3>3, Zenon DEF BuilderTypes
        <4>2. i.id = run.id /\ i.soft = builder.soft
          BY <4>1, Zenon
        <4> QED  BY <2>2, <2>3, <2>4, <4>2 DEF Built
      <3> QED  BY <3>2, <3>3, Zenon
    <2> QED  BY <2>3, <2>5, <2>6, Zenon
  <1>2. CASE ~PublishImage
    <2>1. \A m, r : Built(m, r, R) => Built(m, r, R)'
      BY <1>2, RunSteps DEF Built
    <2>2. \A b \in Builds : \A i : published'[b] = <<i>> => published[b] = <<i>>
      <3>1. \A i : <<i>> # <<>>
        BY Zenon
      <3> QED  BY <1>2, <3>1, RunSteps, Zenon
    <2> QED  BY <2>1, <2>2, Zenon
  <1> QED  BY <1>1, <1>2, Zenon

\* The builder keeps what is known of the bytes.
LEMMA BytesGrow ==
    ASSUME BuilderInv, IndexTypes, StandInv, NEW R \in [Int -> SUBSET Int], BytesInv(R),
           BuilderNext, UNCHANGED indexVars, raced => raced'
    PROVE  \E Q \in [Int -> SUBSET Int] : BytesInv(Q)'
  <1>0. /\ UNCHANGED <<index, catalog, stored, imp, imports>>
        /\ run.id \in Nat /\ run.id <= MaxRuns /\ (Running => run.id > 0)
    BY Zenon DEF indexVars, BytesInv
  <1>1. PICK Q \in [Int -> SUBSET Int] :
              /\ \A m, r : Built(m, r, R) => Built(m, r, Q)'
              /\ \A b \in Builds : \A i :
                    published'[b] = <<i>> => published[b] = <<i>> \/ Built(i.id, i.soft, Q)'
    BY <1>0, BuiltGrows, Zenon
  <1>2. \A m, r : Origin(m, r, R) => Origin(m, r, Q)'
    BY <1>1, Zenon DEF Origin, Elsewhere
  <1>3. BuilderTypes /\ BuilderTypes'
    BY BuilderNextInv, Zenon DEF BuilderInv
  <1>4. (run.id \in Nat /\ run.id <= MaxRuns /\ (Running => run.id > 0))'
    BY <1>0, RunSteps, BuilderAssumption
  <1>5. ASSUME NEW b \in Builds, NEW i, published'[b] = <<i>>
        PROVE  Built(i.id, i.soft, Q)'
    <2>1. CASE published[b] = <<i>>
      <3>1. published[b] # <<>> /\ published[b][1] = i
        BY <2>1
      <3>2. Built(i.id, i.soft, R)
        BY <3>1, Zenon DEF BytesInv
      <3> QED  BY <1>1, <3>2, Zenon
    <2> QED  BY <1>1, <1>5, <2>1, Zenon
  <1>6. (\A b \in Builds : published[b] # <<>> => Built(published[b][1].id, published[b][1].soft, Q))'
    <2> SUFFICES ASSUME NEW b \in Builds, published'[b] # <<>>
                 PROVE  Built(published[b][1].id, published[b][1].soft, Q)'
      BY Zenon
    <2>1. PICK i : published'[b] = <<i>>
      BY <1>3, Zenon DEF BuilderTypes
    <2>2. published'[b][1] = i /\ Built(i.id, i.soft, Q)'
      BY <1>5, <2>1
    <2> QED  BY <2>2, Zenon DEF Built
  <1>7. (local[Output] # <<>> => Built(local[Output][1].meta, local[Output][1].root, Q))'
    <2> SUFFICES ASSUME local'[Output] # <<>>
                 PROVE  Built(local[Output][1].meta, local[Output][1].root, Q)'
      BY Zenon
    <2>1. PICK m, r : m = local'[Output][1].meta /\ r = local'[Output][1].root
      BY Zenon
    <2>2. Built(m, r, Q)'
      <3>1. CASE local' = local
        BY <1>1, <2>1, <3>1, Zenon DEF BytesInv
      <3>2. CASE local' # local
        <4>1. PICK w \in BOOLEAN :
                  /\ published[run.build] # <<>> /\ published' = published
                  /\ local' = [local EXCEPT ![Output] = <<Exported(published[run.build][1], w)>>]
          BY <1>3, <3>2, BuilderLocal, Zenon DEF BuilderTypes
        <4> DEFINE e == Exported(published[run.build][1], w)
        <4>2. e.meta = published[run.build][1].id /\ e.root = published[run.build][1].soft
          BY ExportedFields, Zenon
        <4>3. local'[Output][1] = e
          BY <1>3, <4>1, Zenon DEF BuilderTypes
        <4> HIDE DEF e
        <4>4. m = published[run.build][1].id /\ r = published[run.build][1].soft
          BY <2>1, <4>2, <4>3, Zenon
        <4>5. run.build \in Builds
          BY <1>3, Zenon DEF BuilderTypes, RunRecords
        <4> QED  BY <1>1, <4>1, <4>4, <4>5, Zenon DEF BytesInv
      <3> QED  BY <3>1, <3>2, Zenon
    <2> QED  BY <2>1, <2>2, Zenon DEF Built
  <1>8. (\A f \in stored : FileInv(f, Q))'
    <2> SUFFICES ASSUME NEW f \in stored PROVE FileInv(f, Q)'
      BY <1>0, Zenon
    <2>1. FileInv(f, R)
      BY Zenon DEF BytesInv
    <2> QED  BY <1>2, <2>1, Zenon DEF FileInv, MetadataPath, RootfsPath, Torn
  <1>9. (\A x \in catalog.items \cup imp.items : DiskInv(x, Q))'
    <2> SUFFICES ASSUME NEW x \in catalog.items \cup imp.items PROVE DiskInv(x, Q)'
      BY <1>0, Zenon
    <2>1. DiskInv(x, R)
      BY Zenon DEF BytesInv
    <2> QED  BY <1>2, <2>1, Zenon DEF DiskInv, RootfsPath
  <1>10. (imp.pc = "write" => Origin(Tarball.meta, Tarball.root, Q))'
    <2>1. PICK m, r : m = Tarball.meta /\ r = Tarball.root
      BY Zenon
    <2>2. imp.pc = "write" => Origin(m, r, Q)'
      BY <1>2, <2>1, Zenon DEF BytesInv
    <2>3. m = Tarball'.meta /\ r = Tarball'.root
      BY <1>0, <2>1, Zenon DEF Tarball
    <2> QED  BY <1>0, <2>2, <2>3, Zenon DEF Origin, Built, Elsewhere
  <1> QED  BY <1>1, <1>4, <1>6, <1>7, <1>8, <1>9, <1>10, Zenon DEF BytesInv

-----------------------------------------------------------------------------
\* The two commands together

Inv ==
    /\ BuilderInv /\ IndexTypes /\ StandInv /\ LocalInv /\ RaceInv /\ RereadInv
    /\ KeysInv /\ ShowInv /\ OthersInv /\ WholeInv /\ PresentInv /\ DoneInv
    /\ \E R \in [Int -> SUBSET Int] : BytesInv(R)

\* Initially the directory is empty and no command has run.
LEMMA InitInv ==
    ASSUME Init
    PROVE  Inv
  <1>1. /\ local = Artifacts /\ raced = FALSE
        /\ index = [ok |-> TRUE, products |-> {}]
        /\ catalog = [ok |-> TRUE, items |-> {}, aliases |-> {}]
        /\ stored = {} /\ imp = Ended("idle", {})
    BY Zenon DEF Init, IndexInit
  <1>2. /\ imp.pc = "idle" /\ imp.jobs = <<>> /\ imp.todo = <<>> /\ imp.past = {} /\ imp.tar = <<>>
        /\ imp.index = {} /\ imp.items = {} /\ imp.aliases = {}
    BY <1>1, Zenon DEF Ended
  <1>3. BuilderInv
    BY <1>1, ArtifactsAssumption, BuilderInitInv, Zenon DEF Init
  <1>4. IndexTypes
    <2>1. local \in [Paths -> TarCells]
      <3>1. \A p \in Paths : Artifacts[p] \in TarCells
        BY ArtifactsAssumption, Zenon DEF Given, TarCells
      <3> QED  BY <1>1, <3>1, ArtifactsAssumption, Zenon
    <2>2. imp \in ImpRecords
      BY <1>1, Zenon DEF Ended, ImpRecords, Todos, TarCells
    <2> QED  BY <1>1, <2>1, <2>2, Zenon DEF IndexTypes
  <1>5. ~Imports /\ imp.pc = "idle"
    BY <1>2, Zenon DEF Imports
  <1>6. StandInv /\ LocalInv /\ RaceInv /\ RereadInv
    BY <1>1, <1>2, <1>5, Zenon DEF StandInv, LocalInv, RaceInv, RereadInv
  <1>7. KeysInv /\ ShowInv /\ OthersInv /\ WholeInv
    BY <1>1, <1>2, <1>5, Zenon DEF KeysInv, ShowInv, OthersInv, WholeInv, HasMeta
  <1>8. PresentInv /\ DoneInv
    BY <1>1, <1>2, <1>5, Zenon DEF PresentInv, DoneInv
  <1>9. PICK R \in [Int -> SUBSET Int] : TRUE
    <2>1. [m \in Int |-> {}] \in [Int -> SUBSET Int]
      BY Zenon
    <2> QED  BY <2>1, Zenon
  <1>10. BytesInv(R)
    <2>1. /\ run.id = 0 /\ run.st = "idle" /\ \A b \in Builds : published[b] = <<>>
          /\ local[Output] = <<>>
      BY <1>1, ArtifactsAssumption, Zenon DEF Init, BuilderInit
    <2> QED  BY <1>1, <1>2, <2>1, BuilderAssumption, SMTT(30) DEF BytesInv, Running
  <1> QED  BY <1>3, <1>4, <1>6, <1>7, <1>8, <1>10, Zenon DEF Inv

\* An import keeps the invariant.
LEMMA IndexInv ==
    ASSUME Inv, IndexNext, UNCHANGED builderVars, raced' = (raced \/ (Imports /\ Exporting /\ Shared)')
    PROVE  Inv'
  <1>0. /\ BuilderInv /\ IndexTypes /\ StandInv /\ LocalInv /\ RaceInv /\ RereadInv
        /\ KeysInv /\ ShowInv /\ OthersInv /\ WholeInv /\ PresentInv /\ DoneInv /\ (raced => raced')
    BY Zenon DEF Inv
  <1>1. UNCHANGED <<local, builder, validator, published, newer, run, residue>>
    BY Zenon DEF IndexNext, ImportImageCmd, ImportReleaseCmd, Begin, Parse, ContainerInfo, Write, WriteBreaksOff,
           builderVars
  <1>2. BuilderInv'
    BY <1>0, <1>1, BuilderUnchanged, Zenon
  <1>3. IndexTypes' /\ StandInv'
    BY <1>0, IndexTyped, Zenon
  <1>4. LocalInv'
    BY <1>0, <1>1, Zenon DEF LocalInv
  <1>5. RaceInv'
    BY Zenon DEF RaceInv
  <1>6. RereadInv' /\ KeysInv' /\ ShowInv' /\ OthersInv' /\ PresentInv' /\ DoneInv'
    BY <1>0, RereadKept, KeysKept, ShowKept, OthersKept, PresentKept, DoneKept, Zenon
  <1>7. WholeInv'
    BY <1>0, <1>1, WholeKept, Zenon DEF BuilderInv
  <1>8. PICK R \in [Int -> SUBSET Int] : BytesInv(R)
    BY Zenon DEF Inv
  <1>9. BytesInv(R)'
    BY <1>0, <1>8, BytesKept, Zenon
  <1> QED  BY <1>2, <1>3, <1>4, <1>5, <1>6, <1>7, <1>9, Zenon DEF Inv

\* The builder keeps the invariant.
LEMMA BuilderStepInv ==
    ASSUME Inv, BuilderNext, UNCHANGED indexVars, raced' = (raced \/ (Imports /\ Exporting /\ Shared)')
    PROVE  Inv'
  <1>0. /\ BuilderInv /\ IndexTypes /\ StandInv /\ LocalInv /\ RaceInv /\ RereadInv
        /\ KeysInv /\ ShowInv /\ OthersInv /\ WholeInv /\ PresentInv /\ DoneInv
        /\ UNCHANGED <<index, catalog, stored, imp>>
    BY Zenon DEF Inv, indexVars
  <1>1. /\ IndexTypes' /\ StandInv'
        /\ \A p \in Paths \ {Output} : local'[p] = local[p]
        /\ Imports /\ ~raced' => local'[Job.path] = local[Job.path]
        /\ raced => raced'
        /\ Imports /\ Shared /\ "output" \in residue => "output" \in residue' \/ raced'
    BY <1>0, BuilderFrame, Zenon
  <1>2. BuilderInv'
    BY <1>0, BuilderNextInv, Zenon
  <1>3. LocalInv' /\ RaceInv'
    BY <1>0, <1>1, Zenon DEF LocalInv, RaceInv
  <1>4. RereadInv'
    <2>1. Job' = Job /\ Tarball' = Tarball /\ (imp.pc \in {"info", "write"} => Imports)
      BY <1>0, Zenon DEF Job, Tarball, Imports
    <2> QED  BY <1>0, <1>1, <2>1, Zenon DEF RereadInv
  <1>5. KeysInv' /\ OthersInv'
    BY <1>0, Zenon DEF KeysInv, OthersInv, Tarball
  <1>6. ShowInv'
    BY <1>0, Zenon DEF ShowInv, Imports, Readable
  <1>7. WholeInv'
    <2>1. Imports' = Imports /\ Shared' = Shared
      BY <1>0, Zenon DEF Imports, Shared
    <2> QED  BY <1>0, <1>1, <2>1, Zenon DEF WholeInv
  <1>8. PresentInv'
    BY <1>0, Zenon DEF PresentInv, Present, Imports, NotYet, Job, Tarball
  <1>9. DoneInv'
    BY <1>0, <1>1, Zenon DEF DoneInv, Content, Imports, NotYet, Job, Tarball
  <1>10. \E R \in [Int -> SUBSET Int] : BytesInv(R)'
    BY <1>0, <1>1, BytesGrow, Zenon DEF Inv
  <1> QED  BY <1>1, <1>2, <1>3, <1>4, <1>5, <1>6, <1>7, <1>8, <1>9, <1>10, Zenon DEF Inv

\* Every step of the pipeline keeps the invariant.
LEMMA NextInv ==
    ASSUME Inv, [Next]_pipelineVars
    PROVE  Inv'
  <1>1. CASE Next
    BY <1>1, IndexInv, BuilderStepInv, Zenon DEF Next
  <1>2. CASE UNCHANGED pipelineVars
    <2>1. UNCHANGED <<local, raced, index, catalog, stored, imp, imports,
                      builder, validator, published, newer, run, residue>>
      BY <1>2, Zenon DEF pipelineVars, indexVars, builderVars
    <2>0. BuilderInv
      BY Zenon DEF Inv
    <2>2. BuilderInv'
      BY <2>0, <2>1, BuilderUnchanged, Zenon
    <2>3. (IndexTypes /\ StandInv /\ LocalInv /\ RaceInv /\ RereadInv)'
      <3>1. IndexTypes'
        BY <2>1, Zenon DEF Inv, IndexTypes, Imports
      <3>2. StandInv'
        BY <2>1, Zenon DEF Inv, StandInv, Job, Tarball, Imports
      <3>3. LocalInv'
        BY <2>1, Zenon DEF Inv, LocalInv, Exporting, Running
      <3>4. RaceInv'
        BY <2>1, Zenon DEF Inv, RaceInv, Exporting, Running, Shared, Job, Tarball, Imports
      <3>5. RereadInv'
        BY <2>1, Zenon DEF Inv, RereadInv, Job, Tarball, Imports, Shared
      <3> QED  BY <3>1, <3>2, <3>3, <3>4, <3>5, Zenon
    <2>4. (KeysInv /\ ShowInv /\ OthersInv /\ WholeInv)'
      BY <2>1, Zenon DEF Inv, KeysInv, ShowInv, OthersInv, WholeInv, Shared, Imports, Readable, Tarball
    <2>5. (PresentInv /\ DoneInv)'
      BY <2>1, Zenon DEF Inv, PresentInv, DoneInv, Present, Content, NotYet, Imports, Job, Tarball
    <2>6. PICK R \in [Int -> SUBSET Int] : BytesInv(R)
      BY Zenon DEF Inv
    <2>7. BytesInv(R)'
      <3>1. \A m, r : Origin(m, r, R)' <=> Origin(m, r, R)
        BY <2>1, Zenon DEF Origin, Built, Elsewhere, Left
      <3>2. \A x : FileInv(x, R)' <=> FileInv(x, R)
        BY <2>1, <3>1, Zenon DEF FileInv, MetadataPath, RootfsPath, Torn
      <3>3. \A x : DiskInv(x, R)' <=> DiskInv(x, R)
        BY <2>1, <3>1, Zenon DEF DiskInv, RootfsPath
      <3>4. (imp.pc = "write" => Origin(Tarball.meta, Tarball.root, R))'
        BY <2>1, <2>6, Zenon DEF BytesInv, Origin, Built, Elsewhere, Left, Tarball
      <3>5. ((local[Output] # <<>> => Built(local[Output][1].meta, local[Output][1].root, R)) /\
             (\A b \in Builds : published[b] # <<>> => Built(published[b][1].id, published[b][1].soft, R)))'
        BY <2>1, <2>6, Zenon DEF BytesInv, Built, Left
      <3> QED  BY <2>1, <2>6, <3>2, <3>3, <3>4, <3>5, Zenon DEF BytesInv, Running
    <2> QED  BY <2>2, <2>3, <2>4, <2>5, <2>7, Zenon DEF Inv
  <1> QED  BY <1>1, <1>2, Zenon

\* Every reachable state satisfies the invariant.
LEMMA SpecInv == Spec => []Inv
  <1>1. Init => Inv
    BY InitInv, Zenon
  <1>2. Inv /\ [Next]_pipelineVars => Inv'
    BY NextInv, Zenon
  <1> QED  BY <1>1, <1>2, PTL DEF Spec

-----------------------------------------------------------------------------
\* What the commands promise

\* A complete run of the stages of the haproxy and kubeadm commands publishes the
\* image it built and exports it, unless its own export could not write the last
\* bytes (action_image_publish.go, action_image_export.go).
THEOREM BuildsAreExported == Spec => []BuildIsExported
  <1>1. Inv => BuildIsExported
    BY BuilderEnds, Zenon DEF Inv
  <1> QED  BY <1>1, SpecInv, PTL

\* validate-image runs its script in an instance of the image just published.
THEOREM ValidatesTheBuild == Spec => []ValidatedIsBuilt
  <1>1. Inv => ValidatedIsBuilt
    BY BuilderEnds, Zenon DEF Inv
  <1> QED  BY <1>1, SpecInv, PTL

\* A command that ended leaves a whole output file or none, unless it was
\* killed or the last bytes could not be written (action_image_export.go:30).
THEOREM OutputIsWholeOrGone == Spec => []OutputWholeOrGone
  <1>1. Inv => OutputWholeOrGone
    BY Zenon DEF Inv, BuilderInv
  <1> QED  BY <1>1, SpecInv, PTL

\* The directory is well formed: images.json has one row for a key and one file
\* has one content.
THEOREM IndexTypeCorrect == Spec => []IndexTypeOK
  <1>1. Inv => IndexTypeOK
    <2> SUFFICES ASSUME Inv PROVE IndexTypeOK
      BY Zenon
    <2>1. IndexTypes /\ StandInv /\ KeysInv
      BY Zenon DEF Inv
    <2>2. imp.pc = "write" => imp.todo # <<>>
      BY <2>1 DEF StandInv, ToCopy, ToRootfs, ToMeta, ToIndex, ToImages
    <2>3. imp.todo # <<>> /\ Imports => imp.pc = "write"
      BY <2>1, Zenon DEF StandInv, Imports, IndexTypes, ImpRecords
    <2>4. imp.pc = "write" => Imports
      BY Zenon DEF Imports
    <2>5. imp.pc \in {"idle", "import", "info", "write", "done", "failed"}
      BY <2>1, Zenon DEF IndexTypes, ImpRecords
    <2>6. index.ok \in BOOLEAN /\ catalog.ok \in BOOLEAN
      BY <2>1, Zenon DEF IndexTypes
    <2>7. (imp.pc = "write") = (imp.todo # <<>> /\ Imports)
      BY <2>2, <2>3, <2>4, Zenon
    <2> QED  BY <2>1, <2>5, <2>6, <2>7, Zenon DEF IndexTypeOK, KeysInv
  <1> QED  BY <1>1, SpecInv, PTL

\* What an import adds to images.json was exported whole, unless it ran during
\* the export, or the last export was killed or could not write its last bytes
\* (action_image_export.go:30).
THEOREM ServedImagesAreWhole == Spec => ServedIsWhole
  <1>1. ASSUME Inv, [Next]_pipelineVars, NEW x \in catalog'.items \ catalog.items, x.ftype = "combined"
        PROVE  x.sha[3] \/ raced \/ "output" \in residue
    <2>1. catalog' # catalog
      BY <1>1, Zenon
    <2>2. IndexNext /\ IndexTypes /\ StandInv
      BY <1>1, <2>1, Zenon DEF Inv, Next, pipelineVars, indexVars
    <2>3. catalog'.items \in {{}, imp.items}
      BY <2>1, <2>2, CatalogAfter
    <2> QED  BY <1>1, <2>3, Zenon DEF Inv, WholeInv
  <1>2. Inv /\ [Next]_pipelineVars =>
            [\A x \in catalog'.items \ catalog.items :
                x.ftype = "combined" => x.sha[3] \/ raced \/ "output" \in residue]_pipelineVars
    BY <1>1, Zenon
  <1> QED  BY <1>2, SpecInv, PTL DEF Spec, ServedIsWhole

\* Two files of one name come from the same image, or from two image files that
\* were built elsewhere and have the same metadata.
Twins(path, bytes, sha) ==
    \E p, o \in Paths \ {Output} :
        /\ Artifacts[p] # <<>> /\ RootfsPath(Artifacts[p][1].meta) = path
        /\ Artifacts[o] # <<>> /\ Artifacts[o][1].meta = Artifacts[p][1].meta
        /\ bytes = RootSha(Artifacts[p][1]) /\ sha = RootSha(Artifacts[o][1])
LEMMA RootfsServed ==
    ASSUME Inv, NEW x \in catalog.items, x.ftype = "disk", NEW f \in stored, f.path = x.path
    PROVE  f.bytes \in {x.sha, Torn} \/ Twins(x.path, f.bytes, x.sha)
  <1>1. PICK R \in [Int -> SUBSET Int] : BytesInv(R)
    BY Zenon DEF Inv
  <1>2. PICK m \in Int, r \in SUBSET Int : x.path = RootfsPath(m) /\ x.sha = <<r>> /\ Origin(m, r, R)
    BY <1>1, Zenon DEF BytesInv, DiskInv
  <1>3. x.path.kind = "rootfs" /\ x.path.of = <<m>>
    BY <1>2 DEF RootfsPath
  <1>4. \A k : MetadataPath(k).kind = "metadata" /\ RootfsPath(k).of = <<k>>
    BY Zenon DEF MetadataPath, RootfsPath
  <1>5. f.bytes = Torn \/ \E q \in SUBSET Int : f.bytes = <<q>> /\ Origin(m, q, R)
    <2>1. FileInv(f, R)
      BY <1>1, Zenon DEF BytesInv
    <2> QED  BY <1>3, <1>4, <2>1 DEF FileInv
  <1>6. ASSUME NEW q \in SUBSET Int, f.bytes = <<q>>, Origin(m, q, R)
        PROVE  q = r \/ (Elsewhere(m, q) /\ Elsewhere(m, r))
    <2>1. m \in 1..MaxRuns => ~\E s : Elsewhere(m, s)
      BY ArtifactsAssumption, Zenon DEF Elsewhere, Given
    <2>2. \A s : Built(m, s, R) => m \in 1..MaxRuns /\ s = R[m]
      BY <1>1, BuilderAssumption DEF Built, BytesInv
    <2> QED  BY <1>2, <1>6, <2>1, <2>2 DEF Origin
  <1>7. ASSUME NEW q \in SUBSET Int, f.bytes = <<q>>, Elsewhere(m, q), Elsewhere(m, r)
        PROVE  Twins(x.path, f.bytes, x.sha)
    <2>1. PICK p \in Paths \ {Output} :
              Artifacts[p] # <<>> /\ Artifacts[p][1].meta = m /\ Artifacts[p][1].root = q
      BY <1>7, Zenon DEF Elsewhere
    <2>2. PICK o \in Paths \ {Output} :
              Artifacts[o] # <<>> /\ Artifacts[o][1].meta = m /\ Artifacts[o][1].root = r
      BY <1>7, Zenon DEF Elsewhere
    <2> QED  BY <1>2, <1>7, <2>1, <2>2, Zenon DEF Twins, RootSha
  <1> QED  BY <1>2, <1>5, <1>6, <1>7, Zenon

\* A row has its file; the file has the recorded hash or was torn.
LEMMA RowServed ==
    ASSUME Inv, NEW x \in catalog.items, ~raced
    PROVE  \/ Content(x.path) \in {{x.sha}, {Torn}}
           \/ /\ x.ftype = "disk"
              /\ \E bytes : Content(x.path) = {bytes} /\ Twins(x.path, bytes, x.sha)
  <1>1. PICK f \in stored : f.path = x.path
    BY Zenon DEF Inv, PresentInv, Present
  <1>2. Content(x.path) = {f.bytes}
    BY <1>1 DEF Inv, KeysInv, Content
  <1>3. PICK R \in [Int -> SUBSET Int] : BytesInv(R)
    BY Zenon DEF Inv
  <1>4. FileInv(f, R) /\ x \in AllItems
    BY <1>3, Zenon DEF BytesInv, Inv, IndexTypes
  <1>5. PICK t \in Tarballs :
            \/ x.ftype = "combined" /\ x.path = ContainerPath(ContainerSha(t)) /\ x.sha = ContainerSha(t)
            \/ x.ftype = "disk"
            \/ x.ftype = "meta" /\ x.path = MetadataPath(t.meta) /\ x.sha = MetaSha(t)
    BY <1>4, ItemFacts, Zenon
  <1>6. \A k : /\ ContainerPath(k).kind = "combined" /\ ContainerPath(k).of = k
               /\ MetadataPath(k).kind = "metadata" /\ MetadataPath(k).of = <<k>>
               /\ RootfsPath(k).kind = "rootfs"
    BY Zenon DEF ContainerPath, MetadataPath, RootfsPath
  <1>7. CASE x.ftype = "combined"
    BY <1>1, <1>2, <1>4, <1>5, <1>6, <1>7, SMTT(30) DEF FileInv
  <1>8. CASE x.ftype = "meta"
    <2>1. x.path = MetadataPath(t.meta) /\ x.sha = <<{t.meta}>>
      BY <1>5, <1>8, Zenon DEF MetaSha
    <2>2. \A m : MetadataPath(m) = x.path => m = t.meta
      BY <1>6, <2>1
    <2>3. f.bytes = Torn \/ f.bytes = <<{t.meta}>>
      BY <1>1, <1>4, <1>6, <2>1, <2>2 DEF FileInv
    <2> QED  BY <1>2, <2>1, <2>3, Zenon
  <1>9. CASE x.ftype = "disk"
    BY <1>1, <1>2, <1>9, RootfsServed, Zenon
  <1> QED  BY <1>5, <1>7, <1>8, <1>9, Zenon

\* A row of images.json never points at a file that is missing or has other
\* bytes than the recorded hash, but for files an interrupted import tore, imports
\* that ran during an export, and rootfs files of image files with equal metadata
\* (import_container.go, import_virtual_machine.go).
THEOREM ItemsAreServed == Spec => []ItemsServed
  <1>1. ASSUME Inv, NEW x \in catalog.items, ~raced, NEW bytes, Twins(x.path, bytes, x.sha)
        PROVE  \E p \in Paths : /\ local[p] # <<>>
                                /\ RootfsPath(local[p][1].meta) = x.path
                                /\ bytes = RootSha(local[p][1])
    BY <1>1, Zenon DEF Inv, LocalInv, Twins
  <1>2. ASSUME Inv, NEW x \in catalog.items, ~raced
        PROVE  \/ Content(x.path) \in {{x.sha}, {Torn}}
               \/ /\ x.ftype = "disk"
                  /\ \E p \in Paths : /\ local[p] # <<>>
                                      /\ RootfsPath(local[p][1].meta) = x.path
                                      /\ Content(x.path) = {RootSha(local[p][1])}
    <2>1. CASE Content(x.path) \in {{x.sha}, {Torn}}
      BY <2>1, Zenon
    <2>2. CASE x.ftype = "disk" /\ \E bytes : Content(x.path) = {bytes} /\ Twins(x.path, bytes, x.sha)
      <3>1. PICK bytes : Content(x.path) = {bytes} /\ Twins(x.path, bytes, x.sha)
        BY <2>2, Zenon
      <3>2. PICK p \in Paths : /\ local[p] # <<>> /\ RootfsPath(local[p][1].meta) = x.path
                               /\ bytes = RootSha(local[p][1])
        BY <1>1, <1>2, <3>1, Zenon
      <3>3. Content(x.path) = {RootSha(local[p][1])}
        BY <3>1, <3>2, Zenon
      <3> QED  BY <2>2, <3>2, <3>3, Zenon
    <2> QED  BY <1>2, <2>1, <2>2, RowServed, Zenon
  <1>3. Inv => ItemsServed
    BY <1>2, Zenon DEF ItemsServed
  <1> QED  BY <1>3, SpecInv, PTL

\* When no two of the image files from elsewhere have the same metadata and
\* different contents, a row's file has the recorded hash or was torn by an
\* interrupted import, unless an import ran during an export: the name of a rootfs,
\* the hash of its metadata, is then as good as its own (import_virtual_machine.go:119).
THEOREM RowsHaveTheirFiles ==
    ASSUME \A p, o \in Given : Artifacts[p][1].meta = Artifacts[o][1].meta =>
                                 Artifacts[p][1].root = Artifacts[o][1].root
    PROVE  Spec => [](raced \/ \A x \in catalog.items : Content(x.path) \in {{x.sha}, {Torn}})
  <1>1. ASSUME NEW path, NEW bytes, NEW sha, Twins(path, bytes, sha) PROVE bytes = sha
    BY <1>1, Zenon DEF Twins, Given, RootSha
  <1>2. Inv => raced \/ \A x \in catalog.items : Content(x.path) \in {{x.sha}, {Torn}}
    BY <1>1, RowServed, Zenon
  <1> QED  BY <1>2, SpecInv, PTL

\* An import that reports success has published what it was asked to, whatever
\* interrupted imports came before it.
THEOREM ImportsAreServed == Spec => []ImportedIsServed
  <1>1. Inv => ImportedIsServed
    BY Zenon DEF Inv, DoneInv, Listed, ImportedIsServed
  <1> QED  BY <1>1, SpecInv, PTL

\* show lists the rootfs of every image, whatever the filters: those of the
\* servers and of the type asked for, each once (cmd_show.go).
THEOREM EveryImageIsShown == Spec => []ShowsEveryImage
  <1>1. ASSUME Inv PROVE ShowsEveryImage
    <2>1. \A x \in catalog.items : x.ftype \in {"combined", "disk", "meta"} /\ x.server \in {"incus", "lxd"}
      BY <1>1, ItemFacts, Zenon DEF Inv, IndexTypes
    <2>2. \A x \in catalog.items :
              x.ftype = "disk" => \E y \in catalog.items : Key(y) = <<x.product, x.version, x.server, "meta">>
      BY <1>1, Zenon DEF Inv, ShowInv, HasMeta
    <2>3. Readable => \A x \in catalog.items : x.product \in index.products
      BY <1>1, Zenon DEF Inv, ShowInv, Readable
    <2>4. Unset # "virtual-machine" /\ Unset # "container"
      BY Zenon DEF Unset
    <2>5. ASSUME Readable, NEW incus \in BOOLEAN, NEW lxd \in BOOLEAN, NEW type \in {Unset} \cup ImageTypes
          PROVE  Shown(incus, lxd, type) =
                    {x \in catalog.items :
                        /\ x.ftype # "meta"
                        /\ incus = lxd \/ x.server = IF incus THEN "incus" ELSE "lxd"
                        /\ type \in {Unset, IF x.ftype = "combined" THEN "container" ELSE "virtual-machine"}}
      BY <2>1, <2>2, <2>3, <2>4, <2>5, Zenon DEF Shown, ImageTypes
    <2> QED  BY <2>5, Zenon DEF ShowsEveryImage
  <1> QED  BY <1>1, SpecInv, PTL

\* An import replaces rows of its own product and version, each by one of the same
\* server and file type, and no other (import_container.go:110).
THEOREM OtherRowsStay == Spec => OthersStay
  <1>1. ASSUME Inv, [Next]_pipelineVars, catalog.ok, catalog'.ok, NEW x \in catalog.items
        PROVE  \/ x \in catalog'.items
               \/ /\ imp.tar # <<>>
                  /\ <<x.product, x.version>> = <<Tarball.product, Tarball.version>>
                  /\ \E y \in catalog'.items : Key(y) = Key(x)
    <2>1. CASE catalog' = catalog
      BY <1>1, <2>1, Zenon
    <2>2. CASE catalog' # catalog
      <3>1. IndexNext /\ IndexTypes /\ StandInv /\ OthersInv
        BY <1>1, <2>2, Zenon DEF Inv, Next, pipelineVars, indexVars
      <3>2. catalog' = [ok |-> TRUE, items |-> imp.items, aliases |-> imp.aliases] /\ Write
        BY <1>1, <2>2, <3>1, CatalogAfter
      <3>3. imp.pc = "write"
        BY <3>2, Zenon DEF Write
      <3> QED  BY <3>1, <3>2, <3>3, Zenon DEF OthersInv, StandInv
    <2> QED  BY <2>1, <2>2, Zenon
  <1>2. Inv /\ [Next]_pipelineVars =>
            [catalog.ok /\ catalog'.ok =>
                \A x \in catalog.items :
                    \/ x \in catalog'.items
                    \/ /\ imp.tar # <<>>
                       /\ <<x.product, x.version>> = <<Tarball.product, Tarball.version>>
                       /\ \E y \in catalog'.items : Key(y) = Key(x)]_indexVars
    BY <1>1, Zenon
  <1> QED  BY <1>2, SpecInv, PTL DEF Spec, OthersStay
=============================================================================
