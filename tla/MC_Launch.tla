------------------------------ MODULE MC_Launch ------------------------------
(* One launch, with and without --memory, from every state of the cgroup.   *)
EXTENDS Launch

(* A buffer that happens not to begin with an instruction to go. *)
NoStrayGo == {"die", "junk"}

(* Any content. *)
AnyResidue == {"go", "die", "junk"}
=============================================================================
