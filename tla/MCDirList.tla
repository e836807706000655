----------------------------- MODULE MCDirList ------------------------------
(***************************************************************************)
(* DirList for one tree: a directory in a directory in a directory, each   *)
(* with a file, and a pipe.                                                *)
(***************************************************************************)
EXTENDS DirList, TLC

CONSTANTS root, sub, deep, top_file, sub_file, deep_file, pipe

Tree ==
  root :> {sub, top_file, pipe} @@ sub :> {deep, sub_file} @@ deep :> {deep_file}

Files == {top_file, sub_file, deep_file}
=============================================================================
