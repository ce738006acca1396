---------------------------- MODULE MC_VirtualNet ----------------------------
(* Two containers and three namespaces, so that a container can come back   *)
(* while the namespace of its last session still waits to be destroyed.     *)
(* The names are "veth0_" and "veth1_" and up to 9 characters               *)
(* (container.cpp:242-248).                                                 *)
EXTENDS VirtualNet

MC_Lengths == 6..15
=============================================================================
