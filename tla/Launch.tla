-------------------------------- MODULE Launch --------------------------------
(***************************************************************************)
(* One launch in detail: ContainerInstance::run() and _clone_exec() in the *)
(* command's process (the parent), run_cmd_in_docker() in the process it   *)
(* clones (the child), the pipe between them, and the memory cgroup.  Each *)
(* process may be killed before any of its steps.                          *)
(***************************************************************************)

CONSTANT Residue   (* how a heap buffer that nothing was written to may
                      begin, as far as strncmp() can tell                    *)

ASSUME ResidueAssumption == Residue \subseteq {"go", "die", "junk"}

VARIABLES
    ppc,       (* the parent's program counter                              *)
    end,       (* how the parent ended: by return, ExitOnErr() or a signal  *)
    cpc,       (* the child's program counter                               *)
    ends,      (* ends[e]: the processes with the pipe's end e open         *)
    buf,       (* what the pipe holds                                       *)
    asked,     (* --memory was given                                        *)
    group,     (* the container's directory below /sys/fs/cgroup/memory     *)
    limited,   (* it holds the limit that was asked for                     *)
    member,    (* the child was put into it                                 *)
    created,   (* CgroupMem::_created                                       *)
    nested,    (* the command made a group of its own inside that directory *)
    net        (* the network is up in the child's namespace                *)

cgroup == <<asked, group, limited, member, created, nested>>
vars == <<ppc, end, cpc, ends, buf, cgroup, net>>

Processes == {"parent", "child"}

(* Where the child is blocked, where it is past its read(), where it is no  *)
(* more.                                                                    *)
Held == {"close_write", "read"}
Started == {"pivot", "proc", "dev", "exec", "running"}
Ended == {"zombie", "reaped"}

-----------------------------------------------------------------------------
(* A directory may be left from a command that exited on an error, and is   *)
(* busy when a container that was removed still runs in it, or made a group *)
(* in it.                                                                   *)
Init ==
    /\ ppc = "create" /\ end = "none" /\ cpc = "none"
    /\ ends = [e \in {"r", "w"} |-> {}]
    /\ buf = "empty"
    /\ asked \in BOOLEAN
    /\ group \in {"absent", "stale", "busy"}
    /\ limited = FALSE /\ member = FALSE /\ created = FALSE /\ nested = FALSE
    /\ net = FALSE

(* The kernel closes what a process had open when it ends. *)
CloseAll(q) == ends' = [e \in {"r", "w"} |-> ends[e] \ {q}]

(* exit() and signals run no destructor of the ContainerInstance. *)
Stop(how) ==
    /\ ppc' = "exited" /\ end' = how
    /\ CloseAll("parent")

Goto(pc) == ppc' = pc /\ UNCHANGED end

-----------------------------------------------------------------------------
(* The parent                                                               *)

(* Create(): rmdir, mkdir, open, write; the write is not checked.           *)
CreateCGroups ==
    /\ ppc = "create"
    /\ UNCHANGED <<asked, member, nested, cpc, buf, net>>
    /\ \/ /\ ~asked
          /\ Goto("clone")
          /\ UNCHANGED <<group, limited, created, ends>>
       \/ /\ asked /\ group # "busy"
          /\ Goto("clone")
          /\ group' = "made" /\ created' = TRUE
          /\ limited' \in BOOLEAN
          /\ UNCHANGED ends
       \/ /\ asked
          /\ Stop("error")
          /\ group' \in {"absent", "stale", "busy"}
          /\ group = "busy" <=> group' = "busy"
          /\ UNCHANGED <<limited, created>>

(* pipe() and clone(): the child starts with both ends open.                *)
Clone ==
    /\ ppc = "clone"
    /\ UNCHANGED <<cgroup, buf, net>>
    /\ \/ /\ Goto("apply")
          /\ cpc' = "close_write"
          /\ ends' = [e \in {"r", "w"} |-> Processes]
       \/ Stop("error") /\ UNCHANGED cpc

(* Apply(): again a write that is not checked.                              *)
ApplyCgroups ==
    /\ ppc = "apply"
    /\ UNCHANGED <<asked, group, limited, created, nested, cpc, buf, net>>
    /\ \/ /\ Goto("bringup")
          /\ member' \in {FALSE, asked}
          /\ UNCHANGED ends
       \/ asked /\ Stop("error") /\ UNCHANGED member

(* Fault: an interface counts as up whether or not it came up. *)
BringupUnchecked ==
    /\ ppc = "bringup"
    /\ UNCHANGED <<end, cgroup, cpc, ends, buf>>
    /\ net' \in BOOLEAN
    /\ ppc' = "close_read_go"

(* VirtualNetwork::Bringup(): nothing can be moved into the namespace of a  *)
(* child that is dead.                                                      *)
Bringup ==
    /\ ppc = "bringup"
    /\ UNCHANGED <<end, cgroup, cpc, ends, buf>>
    /\ \/ cpc # "zombie" /\ net' = TRUE /\ ppc' = "close_read_go"
       \/ net' = FALSE /\ ppc' = "close_read_die"

CloseRead ==
    /\ ppc \in {"close_read_go", "close_read_die"}
    /\ Goto(IF ppc = "close_read_go" THEN "go" ELSE "die")
    /\ ends' = [ends EXCEPT !["r"] = @ \ {"parent"}]
    /\ UNCHANGED <<cgroup, cpc, buf, net>>

(* Fault: a failure is not told to the child. *)
TellOnlyGo ==
    /\ ppc \in {"go", "die"}
    /\ buf' = IF ppc = "go" THEN "go" ELSE buf
    /\ Goto("wait")
    /\ UNCHANGED <<cgroup, cpc, ends, net>>

(* write(): with no reader left it raises SIGPIPE.                          *)
Tell ==
    /\ ppc \in {"go", "die"}
    /\ UNCHANGED <<cgroup, cpc, net>>
    /\ \/ /\ ends["r"] # {}
          /\ buf' = ppc
          /\ Goto("wait")
          /\ UNCHANGED ends
       \/ /\ ends["r"] = {}
          /\ Stop("signal")
          /\ UNCHANGED buf

(* Fault: the end of the child not waited for. *)
WaitForgotten ==
    /\ ppc = "wait"
    /\ Goto("destroy")
    /\ UNCHANGED <<cpc, cgroup, ends, buf, net>>

(* waitpid(); with the child, the first process of its pid namespace, every *)
(* process in the container has ended.                                      *)
Wait ==
    /\ ppc = "wait" /\ cpc = "zombie"
    /\ cpc' = "reaped"
    /\ Goto("destroy")
    /\ UNCHANGED <<cgroup, ends, buf, net>>

(* rmdir() fails while a process is in the group or a group inside it.      *)
Occupied == nested \/ (member /\ cpc \in Held \cup Started)

(* Fault: the flag not cleared when the directory is removed. *)
DestroyKeepsFlag ==
    /\ ppc = "destroy"
    /\ Stop("return")
    /\ group' = IF created /\ ~Occupied THEN "absent" ELSE group
    /\ UNCHANGED <<created, asked, limited, member, nested, cpc, buf, net>>

(* Cleanup(), then the destructors: ~CgroupMem tries to remove the directory *)
(* that Create() made, and tells nobody when it cannot.                     *)
Destroy ==
    /\ ppc = "destroy"
    /\ Stop("return")
    /\ IF created /\ ~Occupied
       THEN group' = "absent" /\ created' = FALSE
       ELSE UNCHANGED <<group, created>>
    /\ UNCHANGED <<asked, limited, member, nested, cpc, buf, net>>

-----------------------------------------------------------------------------
(* The child                                                                *)

ChildStops ==
    /\ cpc' = "zombie"
    /\ CloseAll("child")

(* Fault: the child keeps its copy of the write end. *)
CloseWriteForgotten ==
    /\ cpc = "close_write"
    /\ cpc' = "read"
    /\ UNCHANGED <<ppc, end, ends, buf, cgroup, net>>

CloseWrite ==
    /\ cpc = "close_write"
    /\ cpc' = "read"
    /\ ends' = [ends EXCEPT !["w"] = @ \ {"child"}]
    /\ UNCHANGED <<ppc, end, buf, cgroup, net>>

(* read() blocks while the pipe is empty and some process may write to it;  *)
(* at end of file it leaves the buffer as operator new[] returned it.  The  *)
(* count it returns is only tested for an error.                            *)
Words == IF buf # "empty" THEN {buf} ELSE IF ends["w"] = {} THEN Residue ELSE {}

ReadWord ==
    /\ cpc = "read"
    /\ \E word \in Words :
         \/ word = "go" /\ cpc' = "pivot" /\ UNCHANGED ends
         \/ word # "go" /\ ChildStops
    /\ buf' = "empty"
    /\ UNCHANGED <<ppc, end, cgroup, net>>

(* PivotRoot(), the mounts of /proc and /dev, execv(): each may fail.       *)
After == [pivot |-> "proc", proc |-> "dev", dev |-> "exec", exec |-> "running"]

Prepare ==
    /\ cpc \in DOMAIN After
    /\ \/ cpc' = After[cpc] /\ UNCHANGED ends
       \/ ChildStops
    /\ UNCHANGED <<ppc, end, buf, cgroup, net>>

(* The command has every privilege: it may mount the cgroups and make one   *)
(* of its own inside its container's.                                       *)
CommandNests ==
    /\ cpc = "running" /\ member /\ group = "made"
    /\ nested' = TRUE
    /\ UNCHANGED <<ppc, end, cpc, ends, buf, asked, group, limited, member, created, net>>

CommandEnds ==
    /\ cpc = "running"
    /\ ChildStops
    /\ UNCHANGED <<ppc, end, buf, cgroup, net>>

(* Without a parent, init reaps the child. *)
InitReaps ==
    /\ cpc = "zombie" /\ ppc = "exited"
    /\ cpc' = "reaped"
    /\ UNCHANGED <<ppc, end, ends, buf, cgroup, net>>

-----------------------------------------------------------------------------
KillParent ==
    /\ ppc # "exited"
    /\ Stop("signal")
    /\ UNCHANGED <<cpc, buf, cgroup, net>>

KillChild ==
    /\ cpc \notin {"none", "zombie", "reaped"}
    /\ ChildStops
    /\ UNCHANGED <<ppc, end, buf, cgroup, net>>

ParentStep ==
    \/ CreateCGroups \/ Clone \/ ApplyCgroups \/ Bringup \/ CloseRead \/ Tell
    \/ Wait \/ Destroy

ChildStep == CloseWrite \/ ReadWord \/ Prepare \/ InitReaps

Next == ParentStep \/ ChildStep \/ CommandNests \/ CommandEnds \/ KillParent \/ KillChild

(* The system schedules both processes and its calls return.  The command   *)
(* itself may run for ever.                                                 *)
Fairness == WF_vars(ParentStep) /\ WF_vars(ChildStep)

Spec == Init /\ [][Next]_vars /\ Fairness

-----------------------------------------------------------------------------
PPCs == {"create", "clone", "apply", "bringup", "close_read_go", "close_read_die",
         "go", "die", "wait", "destroy", "exited"}

(* Every variable has the values the code can give it.                      *)
TypeOK ==
    /\ ppc \in PPCs
    /\ end \in {"none", "return", "error", "signal"}
    /\ cpc \in {"none"} \cup Held \cup Started \cup Ended
    /\ ends \in [{"r", "w"} -> SUBSET Processes]
    /\ buf \in {"empty", "go", "die"}
    /\ asked \in BOOLEAN /\ limited \in BOOLEAN /\ member \in BOOLEAN
    /\ created \in BOOLEAN /\ nested \in BOOLEAN /\ net \in BOOLEAN
    /\ group \in {"absent", "stale", "busy", "made"}
    /\ created => group = "made"

Contract == INSTANCE LaunchContract
              WITH command <- CASE cpc = "none" -> "none"
                                [] cpc \in Held -> "held"
                                [] cpc \in Started -> "running"
                                [] cpc \in Ended -> "ended",
                   ready <- net,
                   released <- end = "return"

(* The contract: run_cmd_in_docker() gets past its read() only after        *)
(* Bringup() succeeded, and run() returns to a caller that unmounts only    *)
(* after the child was waited for, whichever process is killed and when.    *)
HoldsUntilReady == Contract!Safety

(* The child that is blocked on the pipe is always let go or given up, also *)
(* when the parent exits on an error or is killed while the child waits:    *)
(* that takes both processes closing the ends they do not use.              *)
HeldIsReleased == Contract!Resolves

(* Parent and child never wait for one another for ever: the command comes  *)
(* to run, or run() ends.                                                   *)
LaunchesOrEnds == ppc = "create" ~> (ppc = "exited" \/ cpc = "running")

(* A run() that returned leaves no cgroup, however the launch went, unless  *)
(* the command itself made one inside: rmdir() fails while a process is in  *)
(* the group, so that ~CgroupMem must not come before the container's last  *)
(* process is gone.                                                         *)
GroupRemoved == end = "return" /\ group = "made" => nested

(* What container.cpp:372 says of the child: it does what the parent        *)
(* instructed it to do, so it goes on only after the parent wrote "go".     *)
ProceedsOnInstruction ==
    [][cpc = "read" /\ cpc' = "pivot" => buf = "go"]_vars

(* What README.md:153 says of --memory: the command runs restricted.        *)
RunsRestricted == cpc = "running" /\ asked => member /\ limited

=============================================================================
