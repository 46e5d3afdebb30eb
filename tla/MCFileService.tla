--------------------------- MODULE MCFileService ---------------------------
(* Finite instances of FileService for TLC: two files of one base name in  *)
(* different directories, and one of a type that is not allowed.           *)
EXTENDS FileService, TLC

MCNameOf == "a/shot" :> "shot" @@ "b/shot" :> "shot" @@ "notes" :> "notes"
=============================================================================
