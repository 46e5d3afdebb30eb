-------------------------- MODULE MCFilesCollector --------------------------
(* A small tree for TLC: a directory with a text file in it, which the     *)
(* file service refuses, and beside it a file and one of an ignored name.  *)
EXTENDS FilesCollector, TLC

MCParent == "dir" :> "root" @@ "shot" :> "root" @@ "tmp" :> "root"
            @@ "notes" :> "dir"
=============================================================================
