----------------------------- MODULE MC_PivotRoot -----------------------------
(* Volumes for TLC, one of them in another.                                 *)
EXTENDS PivotRoot

MC_Dests == {"/etc/hosts", "/srv", "/srv/sub"}
MC_Below == {<<"/srv/sub", "/srv">>}
MC_Volumes == <<"/etc/hosts", "/srv", "/srv/sub">>
=============================================================================
