----------------------------- MODULE RmContainer -----------------------------
(***************************************************************************)
(* rm_container.sh, removing the container Target after some sessions of   *)
(* it, each of which exited or was killed, on a host where other           *)
(* containers run and are being stopped.  The script takes one listing of  *)
(* the mounts, unmounts what the listing names in the listing's order, and *)
(* deletes the container's directory.                                      *)
(***************************************************************************)
EXTENDS MountTable

CONSTANTS Containers,   (* container names                                  *)
          Target,       (* the one to remove                                *)
          Matched,      (* the names that grep finds Target's in            *)
          Volumes,      (* what each container mounts, in this order        *)
          Directories,  (* the volumes that are a directory of the host;
                           the others are regular files                     *)
          MaxMounts     (* bound: the mounts of Target when it is started   *)

ASSUME RmAssumption ==
    /\ Target \in Matched /\ Matched \subseteq Containers
    /\ Volumes \in Seq(Dests) /\ Directories \subseteq Dests
    /\ MaxMounts \in Nat

VARIABLES
    mtab,     (* mtab[c]: the host's mounts at and below <c>/merge           *)
    status,   (* status[c]: whether c runs, is unmounting, or is stopped     *)
    k,        (* k[c]: the next mount that c's Cleanup() detaches            *)
    listed,   (* what is left of the listing, by container                   *)
    host,     (* <<c, d>>: the directory of the host that c mounts on d
                 holds its files                                             *)
    dir,      (* the container's directory exists                            *)
    pc,
    premature (* history: the containers with a command that was killed      *)

vars == <<mtab, status, k, listed, host, dir, pc, premature>>

Stack == <<Root>> \o Volumes
Others == Containers \ {Target}

Init ==
    /\ status \in [Containers -> {"running", "stopped"}]
    /\ mtab = [c \in Containers |-> IF status[c] = "running" THEN Stack ELSE <<>>]
    /\ k = [c \in Containers |-> 1]
    /\ listed = [c \in Matched |-> <<>>]
    /\ host = Containers \X Directories
    /\ dir = TRUE
    /\ pc = "list"
    /\ premature = {}

-----------------------------------------------------------------------------
(* Fault: the listing turned round, so that inner mounts come first. *)
ListReversed ==
    /\ pc = "list" /\ status[Target] = "stopped"
    /\ listed' = [c \in Matched |-> [i \in 1..Len(mtab[c]) |-> mtab[c][Len(mtab[c]) + 1 - i]]]
    /\ pc' = "umount"
    /\ UNCHANGED <<mtab, status, k, host, dir, premature>>

(* mount | awk | grep: grep matches the name anywhere in the line.  The     *)
(* user stopped the container first.                                        *)
List ==
    /\ pc = "list" /\ status[Target] = "stopped"
    /\ listed' = [c \in Matched |-> mtab[c]]
    /\ pc' = "umount"
    /\ UNCHANGED <<mtab, status, k, host, dir, premature>>

(* Where the mounts of several containers come in the listing is left open. *)
UmountNext(c) ==
    /\ pc = "umount" /\ listed[c] # <<>>
    /\ Umount(mtab[c], Head(listed[c])) # mtab[c]
    /\ mtab' = [mtab EXCEPT ![c] = Umount(@, Head(listed[c]))]
    /\ listed' = [listed EXCEPT ![c] = Tail(@)]
    /\ UNCHANGED <<status, k, host, dir, pc, premature>>

(* Fault: the exit of the loop ends the script. *)
UmountFailsForGood(c) ==
    /\ pc = "umount" /\ listed[c] # <<>>
    /\ Umount(mtab[c], Head(listed[c])) = mtab[c]
    /\ pc' = "oops"
    /\ UNCHANGED <<mtab, status, k, listed, host, dir, premature>>

(* `exit 1`: the loop is the end of a pipeline, hence a process of its own, *)
(* and that is what ends.                                                   *)
UmountFails(c) ==
    /\ pc = "umount" /\ listed[c] # <<>>
    /\ Umount(mtab[c], Head(listed[c])) = mtab[c]
    /\ pc' = "rm"
    /\ UNCHANGED <<mtab, status, k, listed, host, dir, premature>>

UmountsDone ==
    /\ pc = "umount" /\ \A c \in Matched : listed[c] = <<>>
    /\ pc' = "rm"
    /\ UNCHANGED <<mtab, status, k, listed, host, dir, premature>>

(* What rm -rf gets to below <c>/merge. *)
Emptied(c) == {<<c, d>> : d \in {v \in Directories : Visible(mtab[c], v)}}

(* rm -rf crosses mounts: it empties the directories and fails on what is a *)
(* mount point, which keeps it.                                             *)
RmRf ==
    /\ pc = "rm"
    /\ host' = host \ Emptied(Target)
    /\ dir' = (mtab[Target] # <<>>)
    /\ pc' = IF mtab[Target] = <<>> THEN "deleted" ELSE "oops"
    /\ UNCHANGED <<mtab, status, k, listed, premature>>

-----------------------------------------------------------------------------
(* The commands (see Lifecycle).  Target is started again before it is      *)
(* removed: run() mounts over what an earlier session left.                 *)
Starts ==
    /\ pc = "list" /\ status[Target] = "stopped" /\ Len(mtab[Target]) <= MaxMounts
    /\ status' = [status EXCEPT ![Target] = "running"]
    /\ mtab' = [mtab EXCEPT ![Target] = @ \o Stack]
    /\ UNCHANGED <<k, listed, host, dir, pc, premature>>

(* The container's command ends, and Cleanup() unmounts; for the others     *)
(* that may be while the script is at work.                                 *)
Stops(c) ==
    /\ status[c] = "running"
    /\ status' = [status EXCEPT ![c] = "stopping"]
    /\ UNCHANGED <<mtab, k, listed, host, dir, pc, premature>>

(* Killed, or gone by ExitOnErr(): what is mounted stays.                   *)
Dies(c) ==
    /\ status[c] \in {"running", "stopping"}
    /\ status' = [status EXCEPT ![c] = "stopped"]
    /\ k' = [k EXCEPT ![c] = 1]
    /\ premature' = premature \cup {c}
    /\ UNCHANGED <<mtab, listed, host, dir, pc>>

(* Fault: the loop over what to unmount has no end. *)
CleansUpForEver(c) ==
    LET order == Volumes \o <<Root>> \o Volumes
    IN  /\ status[c] = "stopping"
        /\ mtab' = [mtab EXCEPT ![c] = Umount(@, order[k[c]])]
        /\ k' = [k EXCEPT ![c] = @ + 1]
        /\ UNCHANGED <<status, listed, host, dir, pc, premature>>

(* Fault: the volumes not unmounted once more by the destructor. *)
CleansUpOnce(c) ==
    LET order == Append(Volumes, Root)
    IN  /\ status[c] = "stopping"
        /\ mtab' = [mtab EXCEPT ![c] = Umount(@, order[k[c]])]
        /\ IF k[c] < Len(order)
           THEN k' = [k EXCEPT ![c] = @ + 1] /\ UNCHANGED status
           ELSE status' = [status EXCEPT ![c] = "stopped"] /\ k' = [k EXCEPT ![c] = 1]
        /\ UNCHANGED <<listed, host, dir, pc, premature>>

(* The volumes, the root, and in the destructor the volumes once more.      *)
CleansUp(c) ==
    LET order == Volumes \o <<Root>> \o Volumes
    IN  /\ status[c] = "stopping"
        /\ mtab' = [mtab EXCEPT ![c] = Umount(@, order[k[c]])]
        /\ IF k[c] < Len(order)
           THEN k' = [k EXCEPT ![c] = @ + 1] /\ UNCHANGED status
           ELSE status' = [status EXCEPT ![c] = "stopped"] /\ k' = [k EXCEPT ![c] = 1]
        /\ UNCHANGED <<listed, host, dir, pc, premature>>

Script == List \/ UmountsDone \/ RmRf \/ \E c \in Matched : UmountNext(c) \/ UmountFails(c)

Next == Script \/ Starts \/ \E c \in Containers : Stops(c) \/ CleansUp(c) \/ Dies(c)

(* The script is run to its end. *)
Spec == Init /\ [][Next]_vars /\ WF_vars(Script)

-----------------------------------------------------------------------------
(* Every variable has the values the script can give it.                    *)
TypeOK ==
    /\ mtab \in [Containers -> Seq(Dests \cup {Root})]
    /\ status \in [Containers -> {"running", "stopping", "stopped"}]
    /\ k \in [Containers -> 1..(2 * Len(Volumes) + 1)]
    /\ listed \in [Matched -> Seq(Dests \cup {Root})]
    /\ host \subseteq Containers \X Directories
    /\ dir \in BOOLEAN
    /\ pc \in {"list", "umount", "rm", "deleted", "oops"}
    /\ premature \subseteq Containers

(* The command that runs in another container keeps its mounts, whatever    *)
(* the names and however far the script got: what grep finds of it begins   *)
(* with its root, which is busy (rm_container.sh:23-30).                    *)
OthersKept == \A c \in Others : status[c] = "running" => mtab[c] = Stack

(* What rm_container.sh:27-30 is for: a mount that cannot be unmounted ends *)
(* the removal, so that no file of the host is lost, however the            *)
(* container's last session ended.                                          *)
HostSpared == host = Containers \X Directories

(* The removal of a container none of whose commands was killed takes no    *)
(* file of the host: all its volumes are unmounted when rm -rf gets to its  *)
(* directory, by the two passes of Cleanup() after each of its sessions or  *)
(* by the script's loop, although the loop may end at any busy mount        *)
(* (container.cpp:603, rm_container.sh:23-33).                              *)
HostKept == Target \notin premature => HostSpared

(* A container that was stopped in the ordinary way, so that nothing of it  *)
(* is mounted, is deleted in the end, also when one with a longer name is   *)
(* running, whose mounts the script cannot detach.                          *)
StoppedIsRemoved == pc = "umount" /\ mtab[Target] = <<>> ~> ~dir

(* What README.md:194-196 says: a stopped container is removed by the       *)
(* script, with whatever it left mounted (rm_container.sh:23).              *)
AlwaysRemoved == pc = "umount" ~> ~dir

=============================================================================
