----------------------------- MODULE MountTable -----------------------------
(***************************************************************************)
(* What mount(2) and umount(2) do to the mounts at and below one           *)
(* container's merge directory, /var/lib/docker_diy/containers/<c>/merge,  *)
(* as far as UnionMountRoot, UmountRoot, Volume::Mount and Volume::Umount  *)
(* rely on it.                                                             *)
(*                                                                         *)
(* The table is the sequence of mount points in the order in which they    *)
(* were mounted, the order in which /proc/self/mounts lists them.  A path  *)
(* resolves to the LAST mount at or above it: a mount hides everything     *)
(* that was mounted before it at or below its own mount point.             *)
(***************************************************************************)
EXTENDS Naturals, Sequences

CONSTANTS Dests,   (* the directories and files that volumes may be mounted on *)
          Below    (* the pairs <<inner, outer>> of Dests such that inner is a
                      path strictly below outer                                *)

Root == "/"        (* the merge directory itself, "/" inside the container     *)

ASSUME BelowAssumption ==
    /\ Below \subseteq Dests \X Dests
    /\ \A d \in Dests : <<d, d>> \notin Below

-----------------------------------------------------------------------------
StrictlyBelow(d, e) == <<d, e>> \in Below \/ (e = Root /\ d # Root)

Related(d, e) == d = e \/ StrictlyBelow(d, e) \/ StrictlyBelow(e, d)

(* Two mount points of a list are unrelated when neither is at or below the *)
(* other: "/etc/hosts" and "/srv", but not "/etc/hosts" and "/etc".         *)
PairwiseUnrelated(s) ==
    \A i, j \in 1..Len(s) : i # j => ~Related(s[i], s[j])

(***************************************************************************)
(* mount(2) at d.  The mount point must exist: those of the volumes exist  *)
(* only inside an overlay mount, the merge directory underneath is empty.  *)
(***************************************************************************)
CanMount(T, d) == d = Root \/ \E i \in 1..Len(T) : T[i] = Root

Mount(T, d) == Append(T, d)

(***************************************************************************)
(* umount(2) of d.  It detaches the last mount whose mount point is d,     *)
(* provided no later mount covers it (then d resolves to another file      *)
(* system and is no mount point: EINVAL) and no later mount lies below it  *)
(* (EBUSY).  When it fails the table is left alone; the callers in         *)
(* volume.cpp and container.cpp ignore the failure or only pass it on.     *)
(***************************************************************************)
Detachable(T, d, i) ==
    /\ T[i] = d
    /\ \A j \in 1..Len(T) : j > i => ~Related(T[j], d)

Without(T, i) == [j \in 1..(Len(T) - 1) |-> IF j < i THEN T[j] ELSE T[j + 1]]

Umount(T, d) ==
    IF \E i \in 1..Len(T) : Detachable(T, d, i)
    THEN Without(T, CHOOSE i \in 1..Len(T) : Detachable(T, d, i))
    ELSE T

(* A look-up of d ends in the mount made on d, not in one that hides it. *)
Visible(T, d) ==
    \E i \in 1..Len(T) :
        /\ T[i] = d
        /\ \A j \in 1..Len(T) : j > i => ~StrictlyBelow(d, T[j])

=============================================================================
