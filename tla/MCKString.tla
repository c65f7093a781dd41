------------------------------ MODULE MCKString -----------------------------
(* Model-checking instance of KString and of the VFS code that splits a    *)
(* path held in it: two characters, strings of up to three, patterns of   *)
(* up to two, a 4-bit size_t so that wrapped sizes and indices stay small. *)
EXTENDS VfsPath

MCChars == {"a", "/"}
=============================================================================
