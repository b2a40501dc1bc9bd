------------------------------ MODULE MCNames ------------------------------
(***************************************************************************)
(* Instances of Names: a process that makes, links and removes files, next *)
(* to one that makes, enters and removes a directory and reads; and two    *)
(* that open a file with O_CREATE.                                         *)
(***************************************************************************)
EXTENDS Names, TLC

CONSTANTS p1, p2

MCPaths == {<<"a">>, <<"a", "b">>}
MCKinds == (p1 :> {"create", "link", "unlink", "symlink"})
        @@ (p2 :> {"open", "mkdir", "chdir", "unlink"})

MCOnePath == {<<"a">>}
MCCreates == [p \in {p1, p2} |-> {"create"}]
=============================================================================
