---------------------------- MODULE ImagePipeline ----------------------------
(***************************************************************************)
(* The image builder and the simplestreams index together: the file that   *)
(* one exports is what the other imports.  The two are separate commands;  *)
(* nothing keeps an operator from running them at the same time.           *)
(***************************************************************************)
EXTENDS SimplestreamsIndex, ImageBuilder

CONSTANTS Artifacts,   \* image files that were built elsewhere, by path
          MaxCommands  \* bound on the commands of both kinds together

\* The tarballs there can be.
Given == {p \in Paths : Artifacts[p] # <<>>}
Names == {"haproxy", "kubeadm"} \cup {Artifacts[p][1].product : p \in Given}
Forms == {"tar"} \cup {Artifacts[p][1].form : p \in Given}
Tarballs ==
    [type : ImageTypes, product : Names, version : Int, meta : Int, root : SUBSET Int,
     whole : BOOLEAN, form : Forms]

\* Nothing is at the output path yet; the files from elsewhere are whole, and
\* their metadata is that of none of the images built here.
ASSUME ArtifactsAssumption ==
    /\ Output \in Paths
    /\ Artifacts = [p \in Paths |-> Artifacts[p]]
    /\ Artifacts[Output] = <<>>
    /\ \A p \in Given :
          /\ Artifacts[p] = <<Artifacts[p][1]>>
          /\ Artifacts[p][1] \in Tarballs
          /\ Artifacts[p][1].whole
          /\ Artifacts[p][1].meta \notin 1..MaxRuns

pipelineVars == <<local, raced, indexVars, builderVars>>

Init ==
    /\ local = Artifacts
    /\ raced = FALSE
    /\ IndexInit
    /\ BuilderInit

\* Only the export of the image and an import of that file share something.
\* Any other steps of the two commands commute, so that running them at the
\* same time adds no behaviour: they are taken one command after the other.
Shared == \E k \in DOMAIN imp.jobs : imp.jobs[k].path = Output
Apart == Imports /\ Running => Shared /\ Reached("export-image")

Next ==
    /\ \/ IndexNext /\ UNCHANGED builderVars
       \/ BuilderNext /\ UNCHANGED indexVars
    /\ Apart'
    /\ imports' + run'.id <= MaxCommands
    /\ raced' = (raced \/ (Imports /\ Exporting /\ Shared)')

Spec == Init /\ [][Next]_pipelineVars

\* What the directory serves was exported whole: a failed export removes its
\* file (action_image_export.go:30), so an import does not list a truncated one.
\* The exceptions are an import that ran while the file was being written, and one
\* of a file whose export was killed or could not write its last bytes.
ServedIsWhole ==
    [][\A x \in catalog'.items \ catalog.items :
          x.ftype = "combined" => x.sha[3] \/ raced \/ "output" \in residue]_pipelineVars
=============================================================================
