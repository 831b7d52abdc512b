------------------------------ MODULE MCLoading ------------------------------
(* Two files and three jobs. *)
EXTENDS Loading
CONSTANTS file1, file2
MCProjects == {file1, file2}
=============================================================================
