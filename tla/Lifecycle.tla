------------------------------ MODULE Lifecycle ------------------------------
(***************************************************************************)
(* The commands `diy_docker run` and `diy_docker start` as processes that  *)
(* share the containers' directories and the host's mount table:           *)
(* cmd_run.cpp, cmd_start.cpp and ContainerInfo/ContainerInstance of       *)
(* container.cpp.  One step is one system call (or one run of calls that   *)
(* changes nothing another process can see), so that a command may die     *)
(* between any two of them, and commands on several containers interleave. *)
(*                                                                         *)
(* What happens between clone(2) and the child's execv() is abstracted to  *)
(* its outcome here; module Launch has the details.                        *)
(***************************************************************************)
EXTENDS MountTable

CONSTANTS Containers,   (* container names                                     *)
          Pids,         (* process ids; a pid is reused once its process ended *)
          None,         (* no process, no container                            *)
          Configs,      (* the --volume lists a user may pass: sequences of
                           destinations, in the order of the option            *)
          MaxFaults,    (* bound: crashes and reboots in one behaviour         *)
          MaxLeft,      (* bound: mounts a command may find below the merge
                           directory when it is issued                         *)
          Overlap       (* the commands that users may issue for a container
                           while another one or the container itself still
                           runs: {} when they wait for its end                 *)

ASSUME NoneAssumption == None \notin Pids \cup Containers
ASSUME ConfigAssumption ==      (* the option may be left out *)
    Configs \subseteq Seq(Dests) /\ <<>> \in Configs
ASSUME BoundAssumption == MaxFaults \in Nat /\ MaxLeft \in Nat /\ Overlap \subseteq {"run", "start"}

VARIABLES
    dir,        (* dir[c]: /var/lib/docker_diy/containers/<c> exists           *)
    pidFile,    (* pidFile[c]: the pid in <c>/pid.txt, or None                 *)
    info,       (* info[c]: what <c>/info.json holds                           *)
    mtab,       (* mtab[c]: the host's mounts at and below <c>/merge           *)
    cli,        (* cli[p]: the command running as process p                    *)
    entry,      (* entry[p]: the container's first process running as pid p    *)
    made,       (* history: the user volumes c first came to run with          *)
    premature,  (* history: the containers with a command that died half-way
                   since they were created or the machine was booted           *)
    faults

vars == <<dir, pidFile, info, mtab, cli, entry, made, premature, faults>>

-----------------------------------------------------------------------------
(* The name-resolution files every instance mounts before the user's volumes *)
FileVolumes == <<"/etc/resolv.conf", "/etc/hostname", "/etc/hosts">>

ASSUME FileVolumesAssumption == FileVolumes \in Seq(Dests)

AllVolumes(user) == FileVolumes \o user

VolumeLists == {AllVolumes(u) : u \in Configs}

UserVolumes(vols) == SubSeq(vols, Len(FileVolumes) + 1, Len(vols))

(* Faults of Serialized: off by one; the test for a regular file forgotten.  *)
SerializedFromOneTooEarly(vols) == SubSeq(vols, Len(FileVolumes), Len(vols))
SerializedWithFiles(vols) == vols

(* info.json lists the volumes that are not one of the FileVolumes. *)
Serialized(vols) == UserVolumes(vols)

(* A missing, an empty and a cut info.json are alike: deserialize() throws. *)
Unreadable == [valid |-> FALSE, vols |-> <<>>]
Document(u) == [valid |-> TRUE, vols |-> u]
Documents == {Unreadable} \cup {Document(u) : u \in Configs}

(* The commands' program counters; "stale", "cleanup" and "dtor" are the    *)
(* three places that unmount.                                                *)
Unmounting == {"stale", "cleanup", "dtor"}
PCs == Unmounting \cup
       {"gone", "check", "refused", "load", "mkdirs", "pid", "points", "trunc",
        "write", "mountRoot", "mountVols", "clone", "setup", "wait"}

NoCommand == [pc |-> "gone", cmd |-> "run", c |-> None, vols |-> <<>>,
              k |-> 1, root |-> FALSE, child |-> None]

NoEntry == [st |-> "none", c |-> None, vols |-> <<>>, view |-> <<>>, msg |-> "none"]

Active(p) == cli[p].pc # "gone"
Exists(p) == Active(p) \/ entry[p].st # "none"
ParentAlive(e) == \E p \in Pids : Active(p) /\ cli[p].child = e
Busy(c) == \E p \in Pids : \/ Active(p) /\ cli[p].c = c
                           \/ entry[p].st # "none" /\ entry[p].c = c

(* ContainerInfo::isRunning: some process has the pid that pid.txt names.   *)
IsRunning(c) == pidFile[c] # None /\ Exists(pidFile[c])

Goto(p, pc) == cli' = [cli EXCEPT ![p].pc = pc]
GotoFirst(p, pc) == cli' = [cli EXCEPT ![p].pc = pc, ![p].k = 1]
Leave(p) == cli' = [cli EXCEPT ![p] = NoCommand]

disk == <<dir, pidFile, info>>
history == <<made, premature, faults>>
-----------------------------------------------------------------------------
Init ==
    /\ dir = [c \in Containers |-> FALSE]
    /\ pidFile = [c \in Containers |-> None]
    /\ info = [c \in Containers |-> Unreadable]
    /\ mtab = [c \in Containers |-> <<>>]
    /\ cli = [p \in Pids |-> NoCommand]
    /\ entry = [p \in Pids |-> NoEntry]
    /\ made = [c \in Containers |-> Unreadable]
    /\ premature = {}
    /\ faults = 0

-----------------------------------------------------------------------------
(* The user issues `run --name c --volume user ...` or `start --name c`.    *)
Spawn(p, c, cmd, user) ==
    /\ ~Exists(p)
    /\ Busy(c) => cmd \in Overlap
    /\ Len(mtab[c]) <= MaxLeft
    /\ cli' = [cli EXCEPT ![p] =
                 [pc |-> "check", cmd |-> cmd, c |-> c, vols |-> AllVolumes(user),
                  k |-> 1, root |-> FALSE, child |-> None]]
    /\ UNCHANGED <<disk, mtab, entry, history>>

(* Fault: the test for an existing container forgotten. *)
MayCreateAgain(c) == c \in Containers

(* run goes on only when the container does not exist yet. *)
MayCreate(c) == ~dir[c]

RunCheck(p) ==
    /\ cli[p].pc = "check" /\ cli[p].cmd = "run"
    /\ IF MayCreate(cli[p].c) THEN GotoFirst(p, "stale") ELSE Leave(p)
    /\ UNCHANGED <<disk, mtab, entry, history>>

(* start goes on only when the container exists and is not running.         *)
StartCheck(p) ==
    /\ cli[p].pc = "check" /\ cli[p].cmd = "start"
    /\ \/ ~dir[cli[p].c] /\ Leave(p)
       \/ dir[cli[p].c] /\ IsRunning(cli[p].c) /\ Goto(p, "refused")
       \/ dir[cli[p].c] /\ ~IsRunning(cli[p].c) /\ Goto(p, "load")
    /\ UNCHANGED <<disk, mtab, entry, history>>

Refuse(p) ==
    /\ cli[p].pc = "refused"
    /\ Leave(p)
    /\ UNCHANGED <<disk, mtab, entry, history>>

(* Fault: the volumes are not restored. *)
LoadForgetsVolumes(p) ==
    LET doc == info[cli[p].c]
    IN  /\ cli[p].pc = "load"
        /\ IF doc.valid
           THEN cli' = [cli EXCEPT ![p].pc = "points", ![p].vols = AllVolumes(<<>>)]
           ELSE Leave(p)
        /\ UNCHANGED <<disk, mtab, entry, history>>

(* deserialize(): the parser's exception on an unreadable info.json is not  *)
(* caught and ends the command.                                             *)
Load(p) ==
    LET doc == info[cli[p].c]
    IN  /\ cli[p].pc = "load"
        /\ IF doc.valid
           THEN cli' = [cli EXCEPT ![p].pc = "points",
                                   ![p].vols = AllVolumes(doc.vols)]
           ELSE Leave(p)
        /\ UNCHANGED <<disk, mtab, entry, history>>

-----------------------------------------------------------------------------
(* InitDirsAndFiles() and serialize()                                       *)

MakeDirs(p) ==
    /\ cli[p].pc = "mkdirs"
    /\ dir' = [dir EXCEPT ![cli[p].c] = TRUE]
    /\ Goto(p, "pid")
    /\ UNCHANGED <<pidFile, info, mtab, entry, history>>

(* One of the three mkdirs fails: cmd_run returns and the destructor runs.  *)
MakeDirsFails(p) ==
    /\ cli[p].pc = "mkdirs"
    /\ \E made_some \in {dir[cli[p].c], TRUE} : dir' = [dir EXCEPT ![cli[p].c] = made_some]
    /\ GotoFirst(p, "dtor")
    /\ UNCHANGED <<pidFile, info, mtab, entry, history>>

(* Neither the write of pid.txt nor the one of info.json is checked: on a   *)
(* full disk the file stays empty or is cut short, and run goes on.         *)
WritePid(p) ==
    /\ cli[p].pc = "pid"
    /\ \E pid \in {p, None} : pidFile' = [pidFile EXCEPT ![cli[p].c] = pid]
    /\ Goto(p, "points")
    /\ UNCHANGED <<dir, info, mtab, entry, history>>

(* CreateVolumeMountPoints() fills the upper layer, which is not modelled.  *)
MakePoints(p) ==
    /\ cli[p].pc = "points"
    /\ GotoFirst(p, IF cli[p].cmd = "run" THEN "trunc" ELSE "mountRoot")
    /\ UNCHANGED <<disk, mtab, entry, history>>

(* serialize() truncates the file when it opens it and writes it when it    *)
(* closes it.  run calls it twice: k counts the calls.                      *)
TruncInfo(p) ==
    /\ cli[p].pc = "trunc"
    /\ info' = [info EXCEPT ![cli[p].c] = Unreadable]
    /\ Goto(p, "write")
    /\ UNCHANGED <<dir, pidFile, mtab, entry, history>>

WriteInfo(p) ==
    /\ cli[p].pc = "write"
    /\ \E doc \in {Document(Serialized(cli[p].vols)), Unreadable} :
           info' = [info EXCEPT ![cli[p].c] = doc]
    /\ cli' = IF cli[p].k < 2
              THEN [cli EXCEPT ![p].pc = "trunc", ![p].k = @ + 1]
              ELSE [cli EXCEPT ![p].pc = "mountRoot"]
    /\ UNCHANGED <<dir, pidFile, mtab, entry, history>>

-----------------------------------------------------------------------------
(* run(): mount, clone, wait                                                *)

UnionMountRoot(p) ==
    /\ cli[p].pc = "mountRoot"
    /\ mtab' = [mtab EXCEPT ![cli[p].c] = Mount(@, Root)]
    /\ cli' = [cli EXCEPT ![p].pc = "mountVols", ![p].k = 1, ![p].root = TRUE]
    /\ UNCHANGED <<disk, entry, history>>

(* A volume that cannot be mounted makes the command exit on the spot.      *)
MountVolume(p) ==
    LET c == cli[p].c  d == cli[p].vols[cli[p].k]
    IN  /\ cli[p].pc = "mountVols" /\ cli[p].k <= Len(cli[p].vols)
        /\ IF CanMount(mtab[c], d)
           THEN /\ mtab' = [mtab EXCEPT ![c] = Mount(@, d)]
                /\ cli' = [cli EXCEPT ![p].k = @ + 1]
                /\ UNCHANGED premature
           ELSE /\ Leave(p)
                /\ premature' = premature \cup {c}
                /\ UNCHANGED mtab
        /\ UNCHANGED <<disk, entry, made, faults>>

(* Fault: the last volume left out. *)
MountVolumesDoneEarly(p) ==
    /\ cli[p].pc = "mountVols" /\ cli[p].k = Len(cli[p].vols)
    /\ Goto(p, "clone")
    /\ UNCHANGED <<disk, mtab, entry, history>>

MountVolumesDone(p) ==
    /\ cli[p].pc = "mountVols" /\ cli[p].k = Len(cli[p].vols) + 1
    /\ Goto(p, "clone")
    /\ UNCHANGED <<disk, mtab, entry, history>>

(* The child gets a copy of the mounts, its own namespace, and blocks on    *)
(* the pipe until it is told to go or die.                                  *)
Clone(p, e) ==
    /\ cli[p].pc = "clone"
    /\ ~Exists(e)
    /\ entry' = [entry EXCEPT ![e] =
                   [st |-> "held", c |-> cli[p].c, vols |-> cli[p].vols,
                    view |-> mtab[cli[p].c], msg |-> "none"]]
    /\ cli' = [cli EXCEPT ![p].pc = "setup", ![p].child = e]
    /\ UNCHANGED <<disk, mtab, history>>

(* cgroups and network, then the word to the child: module Launch.  With    *)
(* the child dead the write raises SIGPIPE, which ends the command.         *)
Setup(p) ==
    LET e == cli[p].child
    IN  /\ cli[p].pc = "setup"
        /\ IF entry[e].st = "held"
           THEN /\ \E m \in {"go", "die"} : entry' = [entry EXCEPT ![e].msg = m]
                /\ Goto(p, "wait")
                /\ UNCHANGED premature
           ELSE /\ Leave(p)
                /\ premature' = premature \cup {cli[p].c}
                /\ UNCHANGED entry
        /\ UNCHANGED <<disk, mtab, made, faults>>

Wait(p) ==
    /\ cli[p].pc = "wait"
    /\ entry[cli[p].child].st = "zombie"
    /\ entry' = [entry EXCEPT ![cli[p].child] = NoEntry]
    /\ cli' = [cli EXCEPT ![p].pc = "cleanup", ![p].k = 1, ![p].child = None]
    /\ UNCHANGED <<disk, mtab, history>>

-----------------------------------------------------------------------------
(* UmountVolumes(): in the order in which the volumes were mounted, errors  *)
(* ignored.                                                                 *)
UmountVolume(p) ==
    /\ cli[p].pc \in Unmounting /\ cli[p].k <= Len(cli[p].vols)
    /\ mtab' = [mtab EXCEPT ![cli[p].c] = Umount(@, cli[p].vols[cli[p].k])]
    /\ cli' = [cli EXCEPT ![p].k = @ + 1]
    /\ UNCHANGED <<disk, entry, history>>

(* Fault: the flag cleared before it is tested. *)
UmountsRootByForceOnly(p) == cli[p].pc = "stale"

(* UmountRoot(): by force before the directories are made, otherwise only   *)
(* when this process mounted it.  The flag is cleared before the umount.    *)
UmountsRoot(p) == cli[p].pc = "stale" \/ cli[p].root

UmountRoot(p) ==
    /\ cli[p].pc \in Unmounting /\ cli[p].k = Len(cli[p].vols) + 1
    /\ mtab' = [mtab EXCEPT ![cli[p].c] =
                  IF UmountsRoot(p) THEN Umount(@, Root) ELSE @]
    /\ CASE cli[p].pc = "stale" ->
              cli' = [cli EXCEPT ![p].pc = "mkdirs", ![p].root = FALSE]
         [] cli[p].pc = "cleanup" ->   (* then ~ContainerInstance, once more *)
              cli' = [cli EXCEPT ![p].pc = "dtor", ![p].k = 1, ![p].root = FALSE]
         [] cli[p].pc = "dtor" -> Leave(p)
    /\ UNCHANGED <<disk, entry, history>>

-----------------------------------------------------------------------------
(* The container's first process                                            *)

(* With the parent dead the read returns at end of file and the child       *)
(* compares a buffer that was never written: it may find any word in it.    *)
MayEnter(e) == entry[e].msg = "go" \/ (entry[e].msg = "none" /\ ~ParentAlive(e))

Exited(e) == entry' = [entry EXCEPT ![e].st = "zombie"]

(* PivotRoot(), the mounts of /proc and /dev, execv().  Until the child     *)
(* makes its mounts private it sees those of the host, if the host shares   *)
(* them.                                                                    *)
Enter(e) ==
    LET c == entry[e].c
    IN  /\ entry[e].st = "held" /\ MayEnter(e)
        /\ \E v \in {entry[e].view, mtab[c]} :
             /\ \E i \in 1..Len(v) : v[i] = Root
             /\ entry' = [entry EXCEPT ![e].st = "running", ![e].view = v]
        /\ made' = IF made[c].valid THEN made
                   ELSE [made EXCEPT ![c] = Document(UserVolumes(entry[e].vols))]
        /\ UNCHANGED <<disk, mtab, cli, premature, faults>>

(* Told to die, told nothing (end of file), or one of those calls failed.   *)
EnterFails(e) ==
    /\ entry[e].st = "held"
    /\ entry[e].msg = "none" => ~ParentAlive(e)
    /\ Exited(e)
    /\ UNCHANGED <<disk, mtab, cli, history>>

EntryExits(e) ==
    /\ entry[e].st = "running"
    /\ Exited(e)
    /\ UNCHANGED <<disk, mtab, cli, history>>

(* A zombie whose parent is gone is reaped by init. *)
InitReaps(e) ==
    /\ entry[e].st = "zombie" /\ ~ParentAlive(e)
    /\ entry' = [entry EXCEPT ![e] = NoEntry]
    /\ UNCHANGED <<disk, mtab, cli, history>>

-----------------------------------------------------------------------------
(* The environment                                                          *)

Fault == faults < MaxFaults /\ faults' = faults + 1

(* A signal, or ExitOnErr() after any of the calls: exit() runs no          *)
(* destructor of a local object, so nothing is unmounted.                   *)
Crash(p) ==
    /\ Fault
    /\ Active(p)
    /\ Leave(p)
    /\ premature' = premature \cup {cli[p].c}
    /\ UNCHANGED <<disk, mtab, entry, made>>

KillHeld(e) ==
    /\ Fault
    /\ entry[e].st = "held"
    /\ Exited(e)
    /\ UNCHANGED <<disk, mtab, cli, made, premature>>

(* An orderly shutdown and boot: processes and mounts go, files stay.       *)
Reboot ==
    /\ Fault
    /\ cli' = [p \in Pids |-> NoCommand]
    /\ entry' = [p \in Pids |-> NoEntry]
    /\ mtab' = [c \in Containers |-> <<>>]
    /\ premature' = {}
    /\ UNCHANGED <<disk, made>>

(* The user detaches by hand what a dead command left (README.md:83-89).    *)
UserUnmounts(c) ==
    /\ ~Busy(c) /\ mtab[c] # <<>>
    /\ mtab' = [mtab EXCEPT ![c] = <<>>]
    /\ premature' = premature \ {c}
    /\ UNCHANGED <<disk, cli, entry, made, faults>>

(* rm_container.sh on a stopped container that has no mounts left.          *)
Remove(c) ==
    /\ dir[c]
    /\ ~Busy(c) /\ mtab[c] = <<>>
    /\ dir' = [dir EXCEPT ![c] = FALSE]
    /\ pidFile' = [pidFile EXCEPT ![c] = None]
    /\ info' = [info EXCEPT ![c] = Unreadable]
    /\ made' = [made EXCEPT ![c] = Unreadable]
    /\ premature' = premature \ {c}
    /\ UNCHANGED <<mtab, cli, entry, faults>>

-----------------------------------------------------------------------------
CommandStep(p) ==
    \/ RunCheck(p) \/ StartCheck(p) \/ Refuse(p) \/ Load(p)
    \/ MakeDirs(p) \/ MakeDirsFails(p) \/ WritePid(p) \/ MakePoints(p)
    \/ TruncInfo(p) \/ WriteInfo(p)
    \/ UnionMountRoot(p) \/ MountVolume(p) \/ MountVolumesDone(p)
    \/ (\E e \in Pids : Clone(p, e)) \/ Setup(p) \/ Wait(p)
    \/ UmountVolume(p) \/ UmountRoot(p)

EntryStep(e) == Enter(e) \/ EnterFails(e) \/ EntryExits(e) \/ InitReaps(e)

Next ==
    \/ \E p \in Pids, c \in Containers, u \in Configs : Spawn(p, c, "run", u)
    \/ \E p \in Pids, c \in Containers : Spawn(p, c, "start", <<>>)
    \/ \E p \in Pids : CommandStep(p) \/ EntryStep(p) \/ Crash(p) \/ KillHeld(p)
    \/ Reboot
    \/ \E c \in Containers : Remove(c) \/ UserUnmounts(c)

Spec == Init /\ [][Next]_vars

-----------------------------------------------------------------------------
(* Every variable has the values the code can give it.                      *)
Commands ==
    [pc : PCs, cmd : {"run", "start"}, c : Containers \cup {None},
     vols : {<<>>} \cup VolumeLists, k : Nat, root : BOOLEAN, child : Pids \cup {None}]

Entries ==
    [st : {"none", "held", "running", "zombie"}, c : Containers \cup {None},
     vols : {<<>>} \cup VolumeLists, view : Seq(Dests \cup {Root}),
     msg : {"none", "go", "die"}]

TypeOK ==
    /\ dir \in [Containers -> BOOLEAN]
    /\ pidFile \in [Containers -> Pids \cup {None}]
    /\ info \in [Containers -> Documents]
    /\ mtab \in [Containers -> Seq(Dests \cup {Root})]
    /\ cli \in [Pids -> Commands]
    /\ entry \in [Pids -> Entries]
    /\ made \in [Containers -> Documents]
    /\ premature \subseteq Containers
    /\ faults \in 0..MaxFaults

(* Clean-up: with no command at work on a container, and none that died     *)
(* half-way, the host has no mount left below the container's directory,    *)
(* whatever sequence of runs, refusals, failures and restarts led there     *)
(* (the two calls of Cleanup() that end cmd_run and cmd_start).             *)
Unattended(c) == ~ \E p \in Pids : Active(p) /\ cli[p].c = c

CleanWhenIdle ==
    \A c \in Containers : Unattended(c) /\ c \notin premature => mtab[c] = <<>>

(* Mount order: the command in a container finds each of its volumes at its *)
(* destination, none hidden by a mount made later, also when the mounts of  *)
(* a command that died half-way are still below (run(), MountVolumes()).    *)
EntrySeesVolumes ==
    \A e \in Pids : entry[e].st = "running" =>
        \A i \in 1..Len(entry[e].vols) : Visible(entry[e].view, entry[e].vols[i])

(* Resume: a container that ran once runs with the same volumes ever after, *)
(* across restarts, crashes and reboots (serialize(), deserialize()).       *)
ResumesAsCreated ==
    \A e \in Pids : entry[e].st = "running" =>
        /\ made[entry[e].c].valid
        /\ entry[e].vols = AllVolumes(made[entry[e].c].vols)

(* Durability: from the moment a container ran until it is removed, nothing *)
(* takes its directory away or touches its info.json any more, so that no   *)
(* later session, crash or reboot can lose what creation has put on the     *)
(* disk: only serialize() opens the file, and only run calls it.            *)
InfoSurvives ==
    [][\A c \in Containers : made[c].valid /\ made'[c].valid =>
           dir'[c] /\ info'[c] = info[c]]_vars

(* What README.md:110-112 says info.json is for: it is written when a new   *)
(* container is started and read when it is resumed; so there is something  *)
(* to read for every container that ran.                                    *)
RanIsResumable ==
    \A c \in Containers : made[c].valid => info[c].valid

(* What cmd_start.cpp:20 says its check does: `start` goes on only when no  *)
(* process of the container is alive.                                       *)
Alive(c) == \E e \in Pids : entry[e].st \in {"held", "running"} /\ entry[e].c = c

StartsOnlyStopped ==
    [][\A p \in Pids : cli[p].pc = "check" /\ cli'[p].pc = "load" =>
           ~Alive(cli[p].c)]_vars

(* What cmd_start.cpp:22 reports: a `start` that is refused as running meets *)
(* another command or a process of that container.                          *)
RefusedOnlyIfRunning ==
    \A p \in Pids : cli[p].pc = "refused" =>
        \/ Alive(cli[p].c)
        \/ \E q \in Pids \ {p} : Active(q) /\ cli[q].c = cli[p].c

(* What README.md:109 says pid.txt holds: the pid of the container's first  *)
(* ("entry") process.                                                       *)
PidFileNamesEntry ==
    \A e \in Pids : entry[e].st = "running" => pidFile[entry[e].c] = e

(* What cmd_run.cpp:36 says, "already exist": run makes a container only    *)
(* where there is none.                                                     *)
CreatesOnlyNew ==
    [][\A p \in Pids : cli[p].pc = "mkdirs" /\ cli'[p].pc = "pid" => ~dir[cli[p].c]]_vars

-----------------------------------------------------------------------------
(* The contract of module ContainerContract, of which the commands, the     *)
(* files and the processes are an implementation as long as users wait for  *)
(* one command to end before they issue the next on the same container.     *)
Running(c) == {e \in Pids : entry[e].st = "running" /\ entry[e].c = c}

RunsWith(c) ==
    IF Running(c) = {} THEN Unreadable
    ELSE Document(UserVolumes(entry[CHOOSE e \in Running(c) : TRUE].vols))

Contract == INSTANCE ContainerContract WITH
    Nil <- Unreadable,
    Configs <- {Document(u) : u \in Configs},
    present <- {c \in Containers : dir[c]},
    config <- made,
    running <- [c \in Containers |-> RunsWith(c)]

(* A container lives as the contract says, through crashes, reboots and     *)
(* left-over mounts (cmd_run.cpp, cmd_start.cpp).                           *)
LivesAsContracted == Contract!Spec

=============================================================================
