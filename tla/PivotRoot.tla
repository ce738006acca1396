------------------------------ MODULE PivotRoot ------------------------------
(***************************************************************************)
(* PivotRoot(), call by call, in the children of one container's sessions. *)
(* A child is cloned with a copy of the host's mounts.  While the copy is  *)
(* shared, as it is where the host's root is, a mount or an umount on      *)
(* either side is done on the other as well.                               *)
(***************************************************************************)
EXTENDS MountTable

CONSTANTS Volumes,     (* what the parent mounts above the root, in order   *)
          HostShared,  (* the host's mounts are shared                      *)
          MayFail,     (* the calls that may fail for reasons of their own  *)
          MaxMounts    (* bounds what killed parents leave mounted          *)

Calls == {"private", "bind", "clear", "mkdir", "pivot", "chdir", "detach", "rmdir"}

ASSUME PivotAssumption ==
    /\ Volumes \in Seq(Dests) /\ HostShared \in BOOLEAN
    /\ MayFail \subseteq Calls /\ MaxMounts \in Nat

VARIABLES
    host,     (* the host's mounts at and below the merge directory         *)
    parent,   (* "idle", "waits" for the child, "unmounts", or was "killed" *)
    left,     (* what the parent has yet to unmount, in this order          *)
    pc,       (* the child's next call; "none" without a child              *)
    child,    (* the child's mounts at and below the merge directory        *)
    shared,   (* the child's mounts propagate                               *)
    oldDir,   (* /old_root in the container's upper layer                   *)
    hidden,   (* the host's files are out of the child's sight              *)
    (* for the properties: *)
    ours,     (* what host would be without the child                       *)
    intact    (* nothing was unmounted on the host while it was shared      *)

vars == <<host, parent, left, pc, child, shared, oldDir, hidden, ours, intact>>

Stack == <<Root>> \o Volumes

(* The last root and what was mounted in it. *)
Inner(T) ==
    LET roots == {i \in 1..Len(T) : T[i] = Root}
    IN  IF roots = {} THEN <<Root>>
        ELSE SubSeq(T, CHOOSE i \in roots : \A j \in roots : j <= i, Len(T))

Init ==
    /\ host = <<>> /\ parent = "idle" /\ left = <<>>
    /\ pc = "none" /\ child = <<>> /\ shared = FALSE
    /\ oldDir \in {"none", "own"}
    /\ hidden = FALSE
    /\ ours = <<>> /\ intact = TRUE

-----------------------------------------------------------------------------
(* The parent mounts, clones, and later unmounts (see Lifecycle, Launch).   *)
Begin ==
    /\ pc = "none" /\ parent = "idle" /\ Len(host \o Stack) <= MaxMounts
    /\ host' = host \o Stack /\ child' = host' /\ ours' = host' /\ intact' = TRUE
    /\ parent' = "waits" /\ pc' = "private" /\ shared' = HostShared /\ hidden' = FALSE
    /\ UNCHANGED <<left, oldDir>>

(* The child was waited for: the volumes, the root, and in the destructor   *)
(* the volumes once more.                                                   *)
Cleanup ==
    /\ pc = "none" /\ parent = "waits"
    /\ parent' = "unmounts" /\ left' = Volumes \o <<Root>> \o Volumes
    /\ UNCHANGED <<host, pc, child, shared, oldDir, hidden, ours, intact>>

UmountNext ==
    /\ parent = "unmounts" /\ left # <<>>
    /\ host' = Umount(host, Head(left)) /\ ours' = Umount(ours, Head(left))
    /\ left' = Tail(left)
    /\ UNCHANGED <<parent, pc, child, shared, oldDir, hidden, intact>>

ParentEnds ==
    /\ \/ parent = "unmounts" /\ left = <<>>
       \/ parent = "killed" /\ pc = "none"
    /\ parent' = "idle" /\ left' = <<>>
    /\ UNCHANGED <<host, pc, child, shared, oldDir, hidden, ours, intact>>

ParentKilled ==
    /\ parent \in {"waits", "unmounts"} /\ parent' = "killed"
    /\ UNCHANGED <<host, left, pc, child, shared, oldDir, hidden, ours, intact>>

(* A user, or a later run by force, unmounts what a dead parent left; its   *)
(* child may be alive.                                                      *)
HostUmounts(d) ==
    /\ parent \in {"idle", "killed"}
    /\ host' = Umount(host, d) /\ ours' = Umount(ours, d)
    /\ child' = IF shared THEN Umount(child, d) ELSE child
    /\ intact' = (intact /\ ~shared)
    /\ UNCHANGED <<parent, left, pc, shared, oldDir, hidden>>

-----------------------------------------------------------------------------
(* The child. *)

At(call) == pc = call
Ends == pc' = "none" /\ UNCHANGED <<host, parent, left, child, shared, oldDir, hidden, ours, intact>>

(* A signal, or the end of the command. *)
ChildEnds == pc # "none" /\ Ends

(* Fault: the mounts stay shared. *)
MakePrivateForgotten ==
    /\ At("private") /\ pc' = "bind"
    /\ UNCHANGED <<host, parent, left, child, shared, oldDir, hidden, ours, intact>>

(* mount(2) returns -1 when it fails and the result is compared with 1.     *)
MakePrivate ==
    /\ At("private") /\ pc' = "bind"
    /\ shared' \in {FALSE} \cup IF "private" \in MayFail THEN {shared} ELSE {}
    /\ UNCHANGED <<host, parent, left, child, oldDir, hidden, ours, intact>>

(* Fault: without MS_REC. *)
BindRootOnly ==
    /\ At("bind") /\ pc' = "clear"
    /\ child' = Append(child, Root)
    /\ host' = IF shared THEN Append(host, Root) ELSE host
    /\ UNCHANGED <<parent, left, shared, oldDir, hidden, ours, intact>>

BindNewRoot ==
    /\ At("bind") /\ pc' = "clear"
    /\ child' = child \o Inner(child)
    /\ host' = IF shared THEN host \o Inner(child) ELSE host
    /\ UNCHANGED <<parent, left, shared, oldDir, hidden, ours, intact>>

(* Fault: an /old_root that is still there is not removed first. *)
RmdirOldForgotten ==
    /\ At("clear") /\ pc' = "mkdir"
    /\ UNCHANGED <<host, parent, left, child, shared, oldDir, hidden, ours, intact>>

(* rmdir() on what an earlier session left; a directory that is not empty   *)
(* stays.  Its result is not looked at.                                     *)
RmdirOld ==
    /\ At("clear") /\ pc' = "mkdir"
    /\ oldDir' = IF oldDir = "empty" THEN "none" ELSE oldDir
    /\ UNCHANGED <<host, parent, left, child, shared, hidden, ours, intact>>

(* mkdir() refuses a name that exists.                                      *)
Mkdir ==
    /\ At("mkdir")
    /\ \/ oldDir = "none" /\ oldDir' = "empty" /\ pc' = "pivot"
       \/ oldDir # "none" /\ UNCHANGED oldDir /\ pc' = "exists"
    /\ UNCHANGED <<host, parent, left, child, shared, hidden, ours, intact>>

(* pivot_root(2) refuses a root whose parent mount is shared.               *)
Pivot ==
    /\ At("pivot") /\ ~shared /\ pc' = "chdir"
    /\ UNCHANGED <<host, parent, left, child, shared, oldDir, hidden, ours, intact>>

(* Fault: the mount point is removed before the old root is detached. *)
ChdirRemoves ==
    /\ At("chdir") /\ pc' = "detach" /\ oldDir' = "none"
    /\ UNCHANGED <<host, parent, left, child, shared, hidden, ours, intact>>

Chdir ==
    /\ At("chdir") /\ pc' = "detach"
    /\ UNCHANGED <<host, parent, left, child, shared, oldDir, hidden, ours, intact>>

(* A failure is reported and passed over, here and in the next step.        *)
Detach ==
    /\ At("detach") /\ pc' = "rmdir"
    /\ hidden' \in {TRUE} \cup IF "detach" \in MayFail THEN {FALSE} ELSE {}
    /\ UNCHANGED <<host, parent, left, child, shared, oldDir, ours, intact>>

Rmdir ==
    /\ At("rmdir") /\ pc' = "exec"
    /\ oldDir' \in IF ~hidden THEN {oldDir}
                   ELSE {"none"} \cup IF "rmdir" \in MayFail THEN {oldDir} ELSE {}
    /\ UNCHANGED <<host, parent, left, child, shared, hidden, ours, intact>>

(* `return false` *)
Fails ==
    /\ \/ At("exists")
       \/ At("pivot") /\ shared
       \/ \E call \in {"bind", "mkdir", "pivot", "chdir"} \cap MayFail : At(call)
    /\ Ends

(* The container's command makes an /old_root of its own. *)
CommandWrites ==
    /\ At("exec") /\ oldDir' = "own"
    /\ UNCHANGED <<host, parent, left, pc, child, shared, hidden, ours, intact>>

Next ==
    \/ Begin \/ Cleanup \/ UmountNext \/ ParentEnds \/ ParentKilled
    \/ \E d \in Dests \cup {Root} : HostUmounts(d)
    \/ MakePrivate \/ BindNewRoot \/ RmdirOld \/ Mkdir \/ Pivot \/ Chdir \/ Detach \/ Rmdir \/ Fails
    \/ CommandWrites \/ ChildEnds

Spec == Init /\ [][Next]_vars

-----------------------------------------------------------------------------
(* Every variable has the values the program can give it; /old_root exists  *)
(* as long as it is used.                                                   *)
TypeOK ==
    /\ {host, child, ours, left} \subseteq Seq(Dests \cup {Root})
    /\ parent \in {"idle", "waits", "unmounts", "killed"}
    /\ {shared, hidden, intact} \subseteq BOOLEAN
    /\ pc \in Calls \cup {"none", "exists", "exec"}
    /\ oldDir \in {"none", "empty", "own"}
    /\ pc \in {"pivot", "chdir", "detach", "rmdir"} => oldDir = "empty"

(* No call of the child reaches the host: its mounts are what its own users *)
(* made them, step by step (pivot_root.cpp:18-60).                          *)
HostKept == host = ours

(* The container's command finds each volume below its new root, also after *)
(* everything was unmounted on the host, when that was done after the       *)
(* child's mounts had become private (pivot_root.cpp:26).                   *)
VolumesInside ==
    pc = "exec" /\ intact => \A i \in 1..Len(Volumes) : Visible(Inner(child), Volumes[i])

(* "Unmount old root and remove mount point" (pivot_root.cpp:54): the       *)
(* container's command does not see the host's files.                       *)
HostHidden == pc = "exec" => hidden

(* No session stops the next: whether an earlier one was killed between its *)
(* mkdir() and its last rmdir(), or could not detach the old root or remove *)
(* the directory, mkdir() finds no directory but one that the image or the  *)
(* command put files in (pivot_root.cpp:35-37).                             *)
NeverBlocked == pc = "exists" => oldDir = "own"

=============================================================================
