---------------------------- MODULE MC_RmContainer ----------------------------
(* Values of RmContainer's constants for TLC: the target's name is a prefix *)
(* of the second container's, not of the third's.                           *)
EXTENDS RmContainer

CONSTANTS a, ab, b

(* Mount points one in the other, three deep.                               *)
MC_Dests == {"/etc/hosts", "/srv", "/srv/sub", "/srv/sub/deep"}
MC_Below == {<<"/srv/sub", "/srv">>, <<"/srv/sub/deep", "/srv">>,
             <<"/srv/sub/deep", "/srv/sub">>}

(* A file and a directory; with a directory in that; with another in that.  *)
FlatVolumes == <<"/etc/hosts", "/srv">>
NestedVolumes == <<"/etc/hosts", "/srv", "/srv/sub">>
DeepVolumes == <<"/etc/hosts", "/srv", "/srv/sub", "/srv/sub/deep">>
=============================================================================
