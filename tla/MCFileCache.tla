---------------------------- MODULE MCFileCache -----------------------------
(* A small instance of FileCache: two files of one user. *)
EXTENDS FileCache

TrashDirs == {Data}

=============================================================================
