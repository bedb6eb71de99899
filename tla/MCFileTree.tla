----------------------------- MODULE MCFileTree -----------------------------
(* FileTree on the instance that TLC checks: two folders, one of which may *)
(* hold a folder of the other's name and one a hidden folder; targets      *)
(* beside, below and above a source, and one a file may be in the way of.  *)
EXTENDS FileTree

MCNames == {"a", "b", "c", "d", "f", "g", ".h"}

MCFolders == {<<"a">>, <<"b">>, <<"a", "b">>, <<"b", ".h">>}

MCFiles ==
    {<<"f">>, <<"a", "f">>, <<"a", "g">>, <<"a", ".h">>, <<"b", "f">>, <<"b", "b">>,
     <<"a", "b", "f">>, <<"a", "b", ".h">>, <<"b", ".h", "f">>}

MCTargets == {<<"a">>, <<"b">>, <<"c", "d">>, <<"a", "f", "c">>}

MCCut == <<"cut">>

=============================================================================
