-------------------------- MODULE MCDirectories --------------------------
(***************************************************************************)
(* Directories for three processes and paths that share directories, name  *)
(* them in several ways or stand in each other's way.                      *)
(***************************************************************************)
EXTENDS Directories

SlashPaths == {<<"t">>, <<"a", "/", "t">>, <<"/", "a", "/", "t">>, <<"/", "t">>,
               <<"a", "/", "b", "/", "t">>, <<"a", "/", "/", "b", "/", "c", "/", "u">>,
               <<"a", "/", "b">>, <<"b", "/", "a", "/", "b", "/", "t">>}

BackslashPaths == {<<"a", "\\", "b", "/", "t">>}
=============================================================================
