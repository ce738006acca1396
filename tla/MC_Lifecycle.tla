----------------------------- MODULE MC_Lifecycle -----------------------------
(* Values of Lifecycle's constants for TLC. *)
EXTENDS Lifecycle, TLC

CONSTANTS a, b, p1, p2, p3, p4

MC_Dests == {"/etc/resolv.conf", "/etc/hostname", "/etc/hosts", "/srv", "/srv/sub", "/etc"}
MC_Below == {<<"/etc/resolv.conf", "/etc">>, <<"/etc/hostname", "/etc">>,
             <<"/etc/hosts", "/etc">>, <<"/srv/sub", "/srv">>}

(* No volume at all, and one beside the name-resolution files *)
UnrelatedConfigs == {<<>>, <<"/srv">>}
(* The outer volume of two nested ones first *)
NestedConfigs == {<<"/srv", "/srv/sub">>}
MixedConfigs == {<<>>} \cup NestedConfigs
NoConfigs == {<<>>}

Symm == Permutations({a, b}) \cup Permutations({p1, p2, p3, p4})
SymmPids == Permutations({p1, p2, p3, p4})
=============================================================================
