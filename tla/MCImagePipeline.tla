--------------------------- MODULE MCImagePipeline ---------------------------
(***************************************************************************)
(* A small instance of ImagePipeline for TLC.                              *)
(***************************************************************************)
EXTENDS ImagePipeline

Tar(type, meta, root, form) ==
    [type |-> type, product |-> "kubeadm", version |-> 1, meta |-> meta, root |-> root,
     whole |-> TRUE, form |-> form]

\* Two virtual machine images with the same metadata, one of them zipped, and
\* nothing yet at the output path.
MCArtifacts ==
    [p \in {"vm", "vm.zip", "image.tar.gz"} |->
        CASE p = "vm" -> <<Tar("virtual-machine", 101, {101}, "tar")>>
          [] p = "vm.zip" -> <<Tar("virtual-machine", 101, {102}, "zip")>>
          [] p = "image.tar.gz" -> <<>>]

NoFlags == [skip |-> {}, only |-> {}, dryRun |-> FALSE]
MCFlags ==
    {NoFlags,
     [NoFlags EXCEPT !.skip = {"delete-instance"},
                     !.only = {"publish-image", "export-image", "delete-instance"}]}

\* Another alias than "a", or none, is given to the second import only, of one file
\* and for both servers: the first alias could be any, and an alias is that of a
\* product, whichever its servers.
OneAlias ==
    \/ imports' = 2 /\ Len(imp'.jobs) = 1 /\ imp'.jobs[1].incus /\ imp'.jobs[1].lxd
    \/ \A k \in DOMAIN imp'.jobs : imp'.jobs[k].alias = "a"

\* The container image of a release with two images is one that was built here: the
\* files from elsewhere are virtual machine images.
OwnRelease == Len(imp'.jobs) = 2 => imp'.jobs[1].path = Output

MCNext == Next /\ OneAlias /\ OwnRelease
MCSpec == Init /\ [][MCNext]_pipelineVars
=============================================================================
