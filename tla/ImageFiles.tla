----------------------------- MODULE ImageFiles -----------------------------
(***************************************************************************)
(* The directory in which image files are built and from which they are    *)
(* imported.  local[p] is <<>> where there is no file, <<tar>> where there *)
(* is one.  A unified tarball is a record: the type of the image, the      *)
(* product and version of its metadata.yaml, the bytes of the metadata and *)
(* of the rootfs, whether it is whole or was truncated, and its form: a    *)
(* tarball, a .zip with one tarball in it, or anything else.               *)
(***************************************************************************)
EXTENDS Integers, Sequences

ImageTypes == {"container", "virtual-machine"}

VARIABLES local,
          raced   \* an import and an export have used the same file at the same time
=============================================================================
