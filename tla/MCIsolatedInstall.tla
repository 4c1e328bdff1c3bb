-------------------------- MODULE MCIsolatedInstall --------------------------
(* The root and 2 depend on each other, 2 and 3 share a download and 2 has  *)
(* to wait for 3; 4 is there already.                                       *)
EXTENDS IsolatedInstall

MCEntries == 1 .. 4
MCDeps    == <<{2, 3, 4}, {1, 3}, {4}, {}>>
MCKind    == <<"root", "missing", "missing", "installed">>
MCPackage == <<"none", "a", "a", "none">>
MCScripts == <<0, 0, 2, 0>>
=============================================================================
