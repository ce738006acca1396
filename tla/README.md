# A verification project for diy_docker

`diy_docker` is a small container runner for Linux: `diy_docker run` creates a
container from an image and runs a command in it, `diy_docker start` resumes a
stopped one. Almost everything that can go wrong in it is a matter of *order*:
two processes, a pipe, a mount table, a few files and a kernel that cleans up
later, with errors that end the program wherever they happen. This directory
holds TLA+ specifications of that behaviour, TLC configurations that check them
on small instances, and theorems about them that TLAPS checks.

Paths below are relative to the repository's root, `container.cpp` and the like
stand for files of `src/container/`.

- [1. The system](#1-the-system)
- [2. Modules](#2-modules)
- [3. What is checked](#3-what-is-checked)
- [4. What is proved](#4-what-is-proved)
- [5. Where code and text disagree](#5-where-code-and-text-disagree)
- [6. What is not modelled, and the plan](#6-what-is-not-modelled-and-the-plan)

## 1. The system

| component | state it keeps | operations |
|---|---|---|
| commands `run`, `start` (`cmd_run.cpp`, `cmd_start.cpp`) | one process each; `_root_mounted` of its `ContainerInstance` | check, prepare, `run()`, `Cleanup()`, and `~ContainerInstance`, which calls `Cleanup()` again |
| container directory (`ContainerInfo`) | `/var/lib/docker_diy/containers/<c>/`: `pid.txt`, `info.json`, `upper`, `workdir`, `merge` | `AlreadyExist`, `isRunning`, `InitDirsAndFiles`, `serialize`, `deserialize` |
| union mount and volumes (`container.cpp`, `volume.cpp`) | the host's mounts at and below `<c>/merge` | `UnionMountRoot`, `MountVolumes`, `UmountVolumes`, `UmountRoot` |
| launch (`_clone_exec`, `run_cmd_in_docker`) | a pipe, a parent and a child process | `clone`, "go" or "die" over the pipe, `waitpid` |
| memory cgroup (`cgroup.cpp`) | `/sys/fs/cgroup/memory/<c>` and the flag `_created` | `Create`, `Apply`, `Remove`, the destructor |
| virtual network (`virtual_net.cpp`) | `veth0_<c>` and `veth1_<c>`, the network namespaces, their routes | `Bringup`; the kernel deletes what nobody refers to |
| netlink requests (`RtNlReq`) | one message buffer per request | `Add_rtattr`, `Close_rtattr` |
| command line (`cmd_option.cpp`, `main.cpp`) | the words not yet used, two maps of options | `Parse`, `ParseOptions`, `getOptionValue` |
| configuration (`image.cpp`, `Volume::_decompose`, `serialize`, `deserialize`) | what a `ContainerInstance` is made of, and its document `info.json` | split, validate, write, read back |
| pivot root (`pivot_root.cpp`) | the child's copy of the mounts, `/old_root` in the upper layer | `PivotRoot` |
| `rm_container.sh` | a container's directory, the mounts below it | list, unmount, `rm -rf` |
| `import_image.sh` | an image's directory, a tarball in `/tmp`, a temporary docker container | pull, run, export, unpack, clean up |

How they interact: a command reads and writes the container's directory, mounts,
creates the cgroup, and clones a child into new pid, mount, network, IPC and UTS
namespaces. The child blocks on the pipe while the parent puts it into the
cgroup and builds its network from outside (entering its network namespace and
coming back), and is then told "go" or "die". On "go" it pivots into the merge
directory, mounts `/proc` and `/dev` and executes the command. The parent waits
for it, unmounts everything and returns. Commands on several containers, or on
one, share the directories, the mount table, the process ids and the host's
network namespace, and take no lock.

What is hard about it, and what makes each part correct:

- *An error ends the program on the spot.* `ExitOnErr()` calls `exit()`, which
  runs no destructor of a local object, so every call that can fail is also a
  point at which mounts, cgroups and devices are left behind. Still, nothing may
  touch the files of a container that ran (`InfoSurvives`), it must resume with
  what it was created with (`ResumesAsCreated`), its volumes
  must be the visible ones even over left-over mounts (`EntrySeesVolumes`), and
  without such an exit nothing may be left (`CleanWhenIdle`).
- *`Cleanup()` runs twice* and a forced unmount comes before the mounts.
  `CleanWhenIdle` says that the combination removes exactly what was mounted.
- *The child exists before its surroundings do.* Only the word on the pipe keeps
  the command from running too early (`HoldsUntilReady`, `CommandOnline`); a
  descriptor left open or a word not sent makes one of the two wait for ever
  (`HeldIsReleased`, `LaunchesOrEnds`).
- *The bring-up works in two namespaces* with one sequence of calls, each of
  which may fail: no failure may let a call meant for the container's namespace
  act on the host's (`HostRouteKept`).
- *Nothing deletes the devices.* They go when the kernel destroys a namespace,
  asynchronously (`PairRemoved`).
- *A copy of the mounts that still propagates.* Until the child has made its
  mounts private, what it mounts appears on the host (`HostKept`); it must keep
  the volumes (`VolumesInside`) and leave nothing that stops the next session
  (`NeverBlocked`).
- *A removal that fails quietly*: `rmdir` of a cgroup with a process in it
  (`GroupRemoved`), `umount` of a mount with another below it.
- *Text that is taken apart and put together again*, in four places: options,
  specifications, image names, `info.json`. What a session is made of must be
  what was typed when the container was created (`ReadAsMeant`,
  `AcceptedAsWritten`, `StartedAsTyped`, `ImportedIsFound`).
- *Scripts that go on after a failure*, on directories others use and over
  mounts that are still there (`OthersKept`, `HostKept` of `RmContainer`,
  `StoppedIsRemoved`, `SuccessIsComplete`, `TarballsRemoved`).
- *Nothing is locked*, and "is it running?" is answered from a file and a pid.

`PROJECT.json` lists every such hazard at its line with the properties that
cover it, or why none does yet.

## 2. Modules

```
MountTable            mount(2), umount(2) on one merge directory     (library)
ContainerContract     what the commands promise about a container    (abstract)
  Lifecycle           run and start, the files, the mounts           (implements it; EXTENDS MountTable)
    MC_Lifecycle        volumes and volume lists for TLC
    LifecycleProofs     what umount does to a table; type correctness, clean-up
    ResumeProofs        durability, resumption, the contract, volumes in sight
LaunchContract        what one launch promises                       (abstract)
  Launch              parent, child, pipe, cgroup                    (implements it)
    MC_Launch, LaunchProofs
VirtualNet            the veth pair, namespaces, routes
  RtNlReq               the requests as bytes                        (INSTANCE)
    MC_VirtualNet, VirtualNetProofs
PivotRoot             the child's mounts and the host's              (EXTENDS MountTable)
    MC_PivotRoot, PivotProofs
CmdLine               argv to options
  Configure           a command line becomes a container             (EXTENDS CmdLine)
    InfoFile            options to info.json and back                (INSTANCE)
    MC_Configure, ConfigureProofs
RmContainer           rm_container.sh among running containers       (EXTENDS MountTable)
    MC_RmContainer, RmProofs
ImportImage           import_image.sh
    MC_ImportImage, ImportProofs
```

Every module is parameterised by CONSTANTS with named assumptions; no recursive
operator is used. Definitions that start with a comment "Fault:" belong to no
specification: each is a wrong version of a definition of the model (a guard
dropped, a flag not cleared, an order swapped), and replacing the right one by
it makes TLC find one particular property violated. They show that the
properties look at the code's behaviour; `PROJECT.json` pairs them.

### MountTable

The table of one merge directory is a sequence of mount points in mount order. A
path resolves to the last mount at or above it. `Umount` detaches the last mount
at its mount point unless a later mount covers it (`EINVAL`) or lies below it
(`EBUSY`), and leaves the table alone otherwise, as the callers ignore the error.
The module models the kernel, external to the repository, as far as
`Volume::Mount`, `Volume::Umount`, `UnionMountRoot` and `UmountRoot` rely on it.

### ContainerContract and Lifecycle

`ContainerContract` is a page: which containers exist, what each first ran with,
and what it runs with now. A container is entered only while it exists, once at
a time, and always with the volumes of its first session; faults may end
sessions, nothing else. `LivesAsContracted` maps `dir`, `made` and the entry
processes of `Lifecycle` to it.

State: the directories (`dir`, `pidFile`, `info`), the mount tables (`mtab`), the
running commands (`cli`, with a program counter, the volume list and
`_root_mounted`), the containers' first processes (`entry`), and three history
variables for the properties (`made`, `premature`, `faults`). One action is one
system call, or a run of calls of which nobody else can see the middle:

| code | actions |
|---|---|
| `cmd_run.cpp:24-85` | `Spawn`, `RunCheck`, then `UmountVolume`/`UmountRoot` at "stale" (by force) |
| `InitDirsAndFiles()`, `serialize()` | `MakeDirs` or `MakeDirsFails`, `WritePid`, `MakePoints`, `TruncInfo`, `WriteInfo` (twice) |
| `cmd_start.cpp` | `StartCheck`, `Refuse`, `Load`, `MakePoints` |
| `run()` | `UnionMountRoot`, `MountVolume`, `MountVolumesDone`, `Clone`, `Setup`, `Wait` |
| `Cleanup()` and `~ContainerInstance` | `UmountVolume`, `UmountRoot` at "cleanup", then at "dtor" |
| `run_cmd_in_docker()` | `Enter`, `EnterFails` |
| `ExitOnErr()`, signals | `Crash`, `KillHeld`; `Reboot` |
| the user, `rm_container.sh` | `UserUnmounts`, `Remove` |

Pids are reused as soon as their process is gone. `info.json` is unreadable when
it is missing, empty or cut (the parser throws, nobody catches): by a crash
between the calls, or because the write failed, which `WriteInfo` may always do
and no code looks at; `WritePid` likewise may leave `pid.txt` empty. What is between
`clone()` and `execv()` is abstracted to its outcome, which `Launch` refines. A
child whose parent died may go on or give up (see `ProceedsOnInstruction`).
`Overlap` says which commands users may issue for a container that is busy; `{}`
means that they wait. `Remove` is restricted to a container that is stopped and
has no mounts; what the script does otherwise is the subject of `RmContainer`.

### LaunchContract and Launch

`LaunchContract` has three variables: the command (none, held, running, ended),
whether its network is ready, and whether the caller has the mounts back. A
command runs only when it is ready, and nothing is released before it ended.

`Launch` is the code. `ppc` walks through `_CreateCGroups`, `pipe`/`clone`,
`_ApplyCgroups`, `Bringup`, the closing of the read end, the write, `waitpid` and
the destructors; `cpc` through closing the write end, the read, `PivotRoot`, the
mounts and `execv`. `ends` records which process holds which end of the pipe
open, so that the end of the file and SIGPIPE come out of who closed what.
`KillParent` and `KillChild` strike before any step. What `read()` leaves in the
buffer at the end of the file is undefined: the constant `Residue` is the set of
its outcomes. The cgroup's directory may be left from before, or busy. A write
to one of its files may fail and is not looked at. `Destroy` is the destructor's
`rmdir`, which fails, and leaves directory and flag, while a process is in the
group or a group inside it (`Occupied`); the latter only the command itself can
have made (`CommandNests`). (A `read()` that fails, which
makes the child give up, is not a case of its own: the child may also be killed
there, with the same effect.)

### VirtualNet

Sessions of several containers on one host, one action per call of
`_bringup_helper()`, each of which may fail. `pair[c]` says where the container's
end is and which ends are up; `parent[c]` has the program counter, the namespace
the parent is in and the two files it opened; `used`, `loUp` and `routed` belong
to the kernel. `DestroyNamespace` happens at any time after the last reference
went, and takes the pair with it. The host's default route is either there or
not from the start.

Simplifications: addresses are left out, since every container has the same ones
and the README allows only one container at a time (README.md:80); the model
allows several. A child whose parent died gives up (`OrphanEnds`), where `Launch`
has the exception. A command does not undo its own network. `Clone` waits for
the previous child of that container.

### RtNlReq

What the calls of `Add_rtattr()` and `Close_rtattr()` for one request do to the
buffer, as offsets and lengths in bytes, in the order of the code: alignment, the
length of a nested attribute filled in when it is closed, `_create_veth()`'s step
over the `ifinfomsg` of the peer, the limit of 1024 bytes. Against it stand the
nesting that the comment in `_create_veth()` draws (`VethTree`) and the walk by
which the reader of a message finds the attributes again (`Meets`). `VirtualNet`
says which request each call of a bring-up sends (`Requests`); the lengths that a
device's name may have are its constant `Lengths`.

### CmdLine, InfoFile and Configure

`CmdLine` is `CmdLine::Parse()` with one step per iteration of `ParseOptions()`
and one per decision after it, then `main()`'s dispatch and the checks at the top
of the commands. Words are strings of which only a leading "-" counts. Against
it stands `Meanings`, which reads the whole line at once and knows no parser.

`InfoFile` takes the texts of the options apart as `cmd_run()`,
`Volume::_decompose()` and `ImageInfo::Set()` do, writes `info.json`, mounts,
stops, and reads the document back in each later session. Texts are sequences of
tokens, in which ":", "," and "ro" count. `Pieces` and `Means` give the meaning
of a specification by its shape.

`Configure` composes them: what `Run` goes on with is `InfoFile`'s `given`.
`Text` gives the tokens of a word; `Tokens` is the set they are from, so that a
text is a sequence (`TextAssumption`) for the operators of `InfoFile` to be
reasoned about. Both are constants: nothing but the separators, "ro" and the
default tag "latest" is known of a token.

### PivotRoot

The sessions of one container: `host` and `child` are tables of `MountTable`,
`shared` says whether what happens on one side happens on the other as well.
The child makes one call of `PivotRoot()` per step, the `rmdir()` of an old
`/old_root` (`RmdirOld`) and the `mkdir()` of a new one included, and each may
fail, if `MayFail` says so; after a failed `umount2()` or last `rmdir()` it goes
on, as the code does. The parent unmounts step by step after it waited, and is killed at any
point; others unmount by hand what it left. `/old_root` survives in the upper
layer. `ours` is what the host's table would be without the child.

### RmContainer

Containers run, stop, clean up step by step, or are killed (`Stops`, `CleansUp`,
`Dies`), and the target is started again while at most `MaxMounts` mounts of it
are left (`Starts`), so that what the script meets is what sessions leave, never
an assumption. `CleansUp` has the order of both passes of `Cleanup()`: the
volumes, the root, the volumes. With the target stopped the script takes one
listing, unmounts line by line, and deletes, while the others go on. Lines of
several containers come in any order, those of one in mount order. A name that
begins with the target's matches. `rm -rf` empties the host's directory behind
every volume it can reach. `premature` records whose sessions were killed.

### ImportImage

One step per call of the script's chain in each shell; a failure goes to the
clean-up, as `&&` does. The tarball and the temporary container are named after
repo and tag joined by "_", so that two images may share them. Any shells work
together on any images; `met` records the names that two shells were using at
one time, which imports of one image do as well.

## 3. What is checked

Runs that pass:

| run | instance | distinct states | properties |
|---|---|---|---|
| `lifecycle_two` | 2 containers, 3 pids, `--volume` absent or `/srv`, 1 fault | 2750449 | `TypeOK`, `CleanWhenIdle`, `LivesAsContracted` |
| `lifecycle_faults` | 1 container, 3 pids, no volumes or `/srv` and `/srv/sub`, 2 faults | 52990 | `EntrySeesVolumes`, `ResumesAsCreated`, `InfoSurvives` |
| `launch_contract` | one launch, `Residue` without "go" | 463 | `TypeOK`, `GroupRemoved`, `HoldsUntilReady`, `HeldIsReleased`, `LaunchesOrEnds` |
| `net_two` | 2 containers, 3 namespaces, device names of 6 to 15 characters | 780192 | `TypeOK`, `CommandOnline`, `RequestsReadBack`, `HostRouteKept`, `PairRemoved` |
| `configure_all` | lines of up to 5 of 11 words; `--volume` texts of up to 7 tokens, lists of 3 specifications | 651130 | `ConfigureTypeOK`, `ReadAsMeant`, `AcceptedAsWritten`, `StartedAsTyped`, `ImportedIsFound`, `Ends` |
| `pivot_sessions` | nested volumes, shared host mounts, up to 8 of them left, every call but the first failing | 93159 | `TypeOK`, `HostKept`, `VolumesInside`, `NeverBlocked` |
| `rm_others` | 3 containers, one whose name begins with the target's; a volume in another; a session of the target over at most one left-over mount | 28700 | `TypeOK`, `OthersKept`, `HostKept`, `StoppedIsRemoved` |
| `import_two` | 3 images, two of which share a tarball; 2 shells on any images, 1 kill | 934783 | `TypeOK`, `SuccessIsComplete`, `TarballsRemoved` |

What they show:

- `CleanWhenIdle`: whatever sequence of runs, refusals, failed directories,
  failed bring-ups and restarts, when no command works on a container and none
  died half-way, the host has no mount below its directory.
- `LivesAsContracted`: `Lifecycle` implements `ContainerContract`.
- `EntrySeesVolumes`: the command finds each volume, none hidden by a later
  mount, also over the mounts that a dead command left and `start` does not
  clear.
- `ResumesAsCreated`: a container that ran once has the same volumes ever after;
  the name-resolution files are neither doubled nor lost through `info.json`.
- `InfoSurvives`: once a container ran, no step of any command, crash or reboot
  takes its directory away or changes its `info.json`, until it is removed. What
  creation wrote is what every later session finds. (Whether that is readable is
  another matter: `Lifecycle_disk.cfg` in section 5; and before the first launch a
  `run` that dies between `MkdirP` and `serialize` leaves a container that `run`
  refuses and `start` cannot read.)
- `HoldsUntilReady`, `HeldIsReleased`: `Launch` implements `LaunchContract`,
  safety and liveness, under the refinement mapping at the end of `Launch`.
- `LaunchesOrEnds`: parent and child never wait for one another for ever.
- `GroupRemoved`: no cgroup outlives a `run()` that returned, unless the command
  made one inside. The destructor's `rmdir` can fail, silently; it does not
  because the container's last process has been waited for by then.
- `CommandOnline`: a running command has both ends of its pair up, its loopback
  device and its route in its own namespace, while other sessions come and go
  and namespaces are used again.
- `HostRouteKept`: no failure makes the bring-up change the host's route.
- `PairRemoved`: a pair that left the host goes by itself after its session.
- `RequestsReadBack`: the kernel finds every attribute of a request on the level
  on which the code put it, whatever the lengths of the names.
- `ReadAsMeant`: a line that means something is read in that one way; a line
  that means nothing reaches no container. `Ends`: the parser comes to an end.
- `AcceptedAsWritten`: `run` takes exactly the `--volume` texts with a meaning.
- `StartedAsTyped`: every session of a container is made of what the line that
  created it means, in the first session and after any number of restarts.
- `ImportedIsFound`: program and script agree where an image is, for the names
  of one colon at most and for no others.
- `HostKept` (`PivotRoot`), `VolumesInside`, `NeverBlocked`: no call of the
  child reaches the host; its volumes are below its new root; a session that was
  cut short anywhere, or could not get rid of the old root or of `/old_root`,
  does not stop the next one.
- `OthersKept`, `HostKept` (`RmContainer`), `StoppedIsRemoved`: the removal
  takes nothing from a running container; it empties no directory of the host
  after sessions that exited in the ordinary way, although with a volume in
  another these leave mounts on which the script's loop may end; a container of
  which nothing is mounted is deleted, though the script may meet mounts of
  others that it cannot detach.
- `SuccessIsComplete`: a reported success is the whole image, whatever earlier
  attempts left and whatever other imports are at work, unless two imports with
  its name for their temporary files were at work at one time. `TypeOK` of
  `ImportImage`: even then a shell exports its own image only, since the
  temporary container's name is a lock.
- `TarballsRemoved`: with any imports at work, a tarball is in `/tmp` only while
  a shell that uses its name is at work, unless one was killed.

Bounds. Three pids are a command, its child, and one more process: a second
command, or an unrelated process with a reused pid. Two containers are what it
takes for one to disturb another. `MaxFaults` counts crashes, kills and reboots;
two are a crash of the command that created the container and one of a command
that resumes it. `MaxLeft` and `MaxMounts` bound the mounts a command may find
when it is issued (a crash of a `start` leaves up to six, a killed parent of
`PivotRoot` four); of `RmContainer`'s, one lets another session begin over the
root that an ordinary exit left, and none over more. Volume lists are chosen for the relation between their
destinations: beside one another, one below another. In `VirtualNet` a third
namespace lets one of two containers start again while the kernel still has its
old namespace; names of devices are "veth0_" or "veth1_" and the up to nine
characters that `exitIfNameInvalid()` lets pass. Five words are
a command with two options and their values; seven tokens are the
longest specification, `x:x:ro:`, and a comma. Three containers are the target,
one that its name matches and one that it does not. Two shells are what it takes
for imports to meet, and one kill to leave files under a name that another
image's import then finds. `Launch` has no bound: its state space is finite. Symmetry is used for safety
properties only. Deadlock checking is off where the program ends and nothing is
left to do: a launch, a refused command line, the script of `RmContainer`.

`pivot_sessions` leaves one call out of `MayFail`: "private", whose failure the
code passes over. Section 5 has what happens otherwise.

Fairness. `Launch` assumes weak fairness of the parent and of the child: the
system schedules both and their system calls return (the command itself may run
for ever, so `CommandEnds` has none, nor do the kills). `VirtualNet` assumes
weak fairness of `DestroyNamespace`: the kernel's worker gets round to it.
`Configure` assumes it of the steps that read the command line and hand it over:
a process that nobody stops. `RmContainer` assumes it of the script, not of the
other containers' commands, which may run for ever. `Lifecycle`, `PivotRoot` and
`ImportImage` state no liveness and no fairness.

## 4. What is proved

For every value of the constants that satisfies the named assumptions:

| theorem | statement | if | inductive invariant |
|---|---|---|---|
| `LifecycleProofs!TypeCorrect` | `Spec => []TypeOK` | | `TypeInv` |
| `LifecycleProofs!CleanUp` | `Spec => []CleanWhenIdle` | `Overlap = {}`, the volumes of every list pairwise unrelated | `TypeInv /\ CleanInv` |
| `ResumeProofs!InfoIsDurable` | `Spec => InfoSurvives` | `Overlap = {}` | `TypeInv /\ ResumeInv` |
| `ResumeProofs!ResumesWithItsVolumes` | `Spec => []ResumesAsCreated` | `Overlap = {}` | `TypeInv /\ ResumeInv` |
| `ResumeProofs!KeepsContract` | `Spec => LivesAsContracted` | `Overlap = {}` | `TypeInv /\ ResumeInv` |
| `ResumeProofs!EntriesSeeTheirVolumes` | `Spec => []EntrySeesVolumes` | `Overlap = {}`, no volume of a list strictly below a later one | `TypeInv /\ ResumeInv /\ StackInv` |
| `LaunchProofs!LaunchType` | `Spec => []TypeOK` | | `LaunchInv` |
| `LaunchProofs!GroupIsRemoved` | `Spec => []GroupRemoved` | | `LaunchInv` |
| `LaunchProofs!LaunchKeepsContract` | `Spec => HoldsUntilReady` | `"go" \notin Residue` | `LaunchInv` |
| `VirtualNetProofs!NetType` | `Spec => []TypeOK` | | `NetInv` |
| `VirtualNetProofs!CommandIsOnline` | `Spec => []CommandOnline` | | `NetInv` |
| `VirtualNetProofs!HostRouteIsKept` | `Spec => HostRouteKept` | | `NetInv` |
| `VirtualNetProofs!RequestsAreReadBack` | `Spec => []RequestsReadBack` | | (of every state) |
| `PivotProofs!PivotType` | `Spec => []TypeOK` | | `TypeOK` |
| `PivotProofs!HostIsKept` | `Spec => []HostKept` | `"private" \notin MayFail` | `PrivateInv` |
| `PivotProofs!NoSessionBlocksTheNext` | `Spec => []NeverBlocked` | | `BlockInv` |
| `PivotProofs!VolumesAreInside` | `Spec => []VolumesInside` | no volume at the root, none strictly below a later one | `TypeOK /\ InsideInv` |
| `RmProofs!RmType` | `Spec => []TypeOK` | | `TypeOK` |
| `RmProofs!OthersAreKept` | `Spec => []OthersKept` | `Volumes` not empty, none at the root | `TypeOK /\ KeptInv` |
| `RmProofs!HostFilesAreKept` | `Spec => []HostKept` | `Volumes` pairwise unrelated | `TypeOK /\ SparedInv` |
| `ConfigureProofs!LinesReadAsMeant` | `ConfigureSpec => []ReadAsMeant` | | `ParserInv` |
| `ConfigureProofs!ConfigureTypeCorrect` | `ConfigureSpec => []ConfigureTypeOK` | | `ParserInv /\ InfoInv` |
| `ConfigureProofs!TextsReadAsWritten` | `ConfigureSpec => []AcceptedAsWritten` | | `ParserInv /\ InfoInv` |
| `ConfigureProofs!SessionsAsTyped` | `ConfigureSpec => []StartedAsTyped` | | `ParserInv /\ InfoInv` |
| `ConfigureProofs!NamesOfOneColonAreFound` | `ConfigureSpec => []ImportedIsFound` | | `ParserInv /\ InfoInv` |
| `ImportProofs!ImportType` | `Spec => []TypeOK` | | `ImportInv` |
| `ImportProofs!SuccessMeansComplete` | `Spec => []SuccessIsComplete` | | `ImportInv /\ SoundInv` |
| `ImportProofs!NoTarballStays` | `Spec => []TarballsRemoved` | | `ImportInv` |

*Type correctness of Lifecycle* is not inductive by itself: that the list in
`info.json` is one a user may have passed needs that the list a command carries
is (`CommandsBound`), and that of a command that loads it needs the file
(`VolumeListFacts`: cutting the name-resolution files off a list and putting
them back gives the list).

*Clean-up.* `CleanInv` says what the mount table of a container must be at each
program counter of the one command that works on it: nothing, the root and the
volumes mounted so far, all of them, or the root and those not yet unmounted
(`Expected`). `OneCommand`, that commands of one container do not overlap, is
where `Overlap = {}` is used: without it the table belongs to nobody. That each
`umount` really detaches its volume, in mount order, is where the volumes must
be unrelated: `LifecycleProofs` first shows that the umount of the first of pairwise
unrelated mounts above the root detaches it, and that on an empty table umount
does nothing, which makes the second `Cleanup()` harmless. `lifecycle_nested` shows
that the condition on the volumes is needed, and `lifecycle_restart` how commands
of one container come to overlap.

*Durability and resumption.* `ResumeInv` says what is on the disk of a container
that ran: its directory, and an `info.json` that is either what it first ran with
or unreadable (`Kept`), since a write may have failed. That no step changes it
afterwards, which is `InfoSurvives`, needs that a command that makes directories or
writes works on a container that has not run, because `run` does not reach one
that exists and no other command is at work on it; that a command which loads a
document carries what the container first ran with is `CommandsFit`. A process of
the container runs with what its command carried (`EntriesFit`), there is one
command and one process per container (`OneCommand`, `OneEntry`), a command and
an earlier process are never at work together (`Apart`), and a command knows its
child (`ChildKnown`). `ResumesAsCreated` is read off that invariant.

*The contract of a container.* From the same invariant each step of `Lifecycle` is
a step of `ContainerContract` or changes nothing of it: `MakeDirs` is `Make`,
`Enter` is `Enter`, the ends of processes are `Leave`, `Remove` is `Discard`, and
`Reboot` makes all of them leave at once. `OneEntry` makes `RunsWith`, which picks
a process of the container, mean one.

*Volumes in sight.* However many mounts are left, the last ones are a root and
above it the volumes mounted so far, in order (`Stacked`); a volume of that stack
is visible if none above it covers it, which is the condition on the lists.

*The contract of a launch.* `LaunchInv` says that "go" is in the pipe only after
the network is up, that nothing was told before, and that the parent passes
`waitpid()` only with the child reaped; each step of `Launch` is then a step of
`LaunchContract` or changes none of its variables. The assumption on `Residue` is
exactly what `launch_residue` violates.

*The control group.* `GroupInOrder`, in `LaunchInv`, ties the directory to the flag
and the parent's place: what `Create()` made is there and the flag set until
`Destroy`, and the parent comes to `Destroy` through `waitpid()` only, with the
child in no state in which it could be in the group. What is left to make
`rmdir` fail is a group that the command made, which `GroupRemoved` excepts.

*The network.* `NetInv` ties, session by session, the program counter to what
has been brought up and where; a session's namespaces stay because the child or
an open file refers to them (`Places`). A step of one session keeps the others'
part, because the kernel's sets only grow under it (`SessionStep`), and the
destruction of a namespace because nobody refers to it.

*The requests.* `LengthAssumption` asks that two names leave room for the rest of a
request, as two of 15 characters amply do; the names need not be equally long.
All lengths and places are multiples of four, the names' own lengths apart
(`AlignFacts`), so an attribute is added where the last one ended (`Added`); closing
an attribute changes the length of that one alone (`Closed`). `VethLaidOut` is the
finished message byte by byte, `Meets` is then a matter of sums, and
`VethReadsBack` holds of every two names for which there is room.

*Pivot root.* `HostKept` needs that the child's mounts are private after its
first call, which is the assumption on `MayFail`; `PivotRoot_shared.cfg` shows
what happens without it. `NeverBlocked` holds because an `/old_root` that is
there after `RmdirOld` has something in it (`BlockInv`), which no call of
`PivotRoot()` puts there. For `VolumesInside` the child's table ends in a root
and all the volumes (`EndsInStack`) from the copy on, whatever lies below, and
the recursive bind mount copies exactly that end (`InnerIsStack`).

*Removal.* What grep finds of a running container begins with its root, and a
root with volumes above it is busy: `KeptInv` says that nothing was taken off the
front of such a listing. It is why a volume is needed (the three files of name
resolution always are). `HostFilesAreKept` follows the target's sessions:
`TableInOrder` says that while one runs the table is the root and its volumes,
that the *i*-th step of its clean-up finds what is left after the first *i* - 1
volumes (`Remaining`), and that nothing is left from the root's umount on, so
that `rm -rf` has nothing to cross. Each umount finds its volume detachable
because the volumes are unrelated (`RemainingUmount`); `RmContainer_deep.cfg` shows that some
such condition is needed, and `rm_volumes` what a killed session does.

*Import.* `ImportInv` holds of any imports at work together: the name of the
temporary container is a lock, as `docker run` refuses one that exists and only
who passed it gets to `docker rm` (`Locked`), and a tarball belongs to a shell
that has its `rm` before it, since whoever exports comes to the `rm` unless it is
killed (`TarballsOwned`). `SoundInv` adds that two shells at work under one name
have met (`Apart`), and of a shell whose name no two have met under what it has
made sure of call by call: from the check the directory, from `docker run` and
the export the tarball, and so that what `tar`
reads is of its own image (`Sound`). A step of another shell touches only what
goes by its own image's names (`SoundStep`).

*The command line.* `ParserInv` says what the parser has used of the line: in the
first phase nothing; in the second the command and *n* of its options with their
values, while the map of options holds what these *n* say (`Said`). Once a word
is met that is no option, the line can have these *n* options and no other
number (`StoppedAt`); where the parser stops for another reason, it has none
(`StuckAt`). So `Meanings`, which looks for a number of options that fits the
whole line, has the one member that the parser goes on with, or is empty. No
induction over the line is needed: the parser's own steps are the induction.

*Texts.* The same holds for the loop over the pieces of a `--volume` text. What
the invariant `InfoInv` says of it is `Walked`: the text left begins behind some
cut, and one volume has been taken from each stretch before it. `NextStretch` is
the step: the field that `getline` returns is the stretch up to the next cut.
`PiecesAre` ties the stretches to `Pieces`, where the stretch behind a last comma
is dropped because `getline` fails on an empty stream. `MeaningOfPiece` shows that
the three calls of `getline` on a piece accept it if and only if it `Means`
something, which is then what `Volume` makes of it; `ReadBack`, that the text
which `GetSpecString` writes of such a volume is read as that volume again, so
that `Deserialize` undoes `Serialize`. `OneColonOneDirectory` compares `strchr`
with awk's fields. `CmdLineAssumption` (the spellings start with "-", the names of
commands do not, a null pointer is no word) and `TextAssumption` are all that is
assumed.

With these, every invariant and every action property that a passing run checks, and the
safety part of both refinements, is a theorem. Only model-checked are
`HeldIsReleased`, `LaunchesOrEnds`, `PairRemoved`, `Ends` and `StoppedIsRemoved`,
which rest on fairness and are out of the prover's reach.

## 5. Where code and text disagree

Four runs are expected to fail; each checks one sentence of the repository
against what the code does, and TLC's counterexample is the explanation.

| run | the text | the code |
|---|---|---|
| `lifecycle_restart` | `cmd_start.cpp:20` checks whether the container is running | `start` never writes `pid.txt`, so after the first restart a second `start` passes |
| `lifecycle_nested` | README.md:83, clean-up fails on a *premature* exit | with nested volumes, outer first, an ordinary exit leaves the root mounted (`container.cpp:461`, `:322`) |
| `launch_residue` | `container.cpp:372`, the child receives an instruction | at the end of the file it reads an unwritten buffer (`:381-384`) |
| `rm_volumes` | `rm_container.sh:28-29`, a failed umount ends the script | the loop is a process of its own; `rm -rf` empties the host's directories that are still mounted |

Further statements that do not hold are kept beside them. Each has a
configuration of its own, with which TLC finds it violated
(`tlc -config <file> MC_<module>`):

| configuration | statement | what happens |
|---|---|---|
| `Lifecycle_refused.cfg` | `RefusedOnlyIfRunning` (`cmd_start.cpp:22`) | any process with the recorded pid counts, the container's or not |
| `Lifecycle_pid.cfg` | `PidFileNamesEntry` (README.md:109) | `pid.txt` has the pid of the command (`container.cpp:352`) |
| `Lifecycle_twice.cfg` | `CreatesOnlyNew` (`cmd_run.cpp:36`) | two runs pass the check before either made the directory |
| `Lifecycle_disk.cfg` | `RanIsResumable` (README.md:110-112) | a failed write of `info.json` goes unnoticed (`container.cpp:155`): the container runs and can never be resumed |
| `Launch_memory.cfg` | `RunsRestricted` (README.md:153) | failed writes to the cgroup's files go unnoticed (`cgroup.cpp:66`, `:100`) |
| `VirtualNet_return.cfg` | `ReturnLeavesNoPair` (README.md:83-87) | a failed bring-up leaves the pair after an ordinary return (`virtual_net.cpp:470-484`) |
| `Configure_start.cfg` | `NeverAborts` (`cmd_option.cpp:62`) | `start` without `--name` makes a string of a null pointer (`cmd_start.cpp:12`) |
| `Configure_memory.cfg` | `LimitKept` (README.md:153) | the limit is not in `info.json` and gone after a restart (`container.cpp:143`) |
| `Configure_readonly.cfg` | `ReadOnlyKept` (README.md:141) | `mount(2)` ignores `MS_RDONLY` beside `MS_BIND` (`volume.cpp:138`) |
| `PivotRoot_shared.cfg` | `HostKept` | the result of `mount(MS_PRIVATE)` is compared with 1 (`pivot_root.cpp:18`) |
| `PivotRoot_detach.cfg` | `HostHidden` (`pivot_root.cpp:54`) | a failed `umount2()` is passed over (`:55`) |
| `RmContainer_blocked.cfg` | `AlwaysRemoved` (README.md:194-196) | a running container whose name begins with the target's ends the loop |
| `RmContainer_deep.cfg` | `HostKept` (README.md:194-195) | with three volumes one in the other an ordinary exit leaves the outermost mounted, and the removal empties it |
| `ImportImage_both.cfg` | `SuccessIsSuccess` (`import_image.sh:60`) | of two imports with one name for their tarball one may unpack the other's image |
| `ImportImage_readonly.cfg` | `ImagesReadOnly` (README.md:104) | of two imports of one image the later one unpacks into the complete image (`import_image.sh:40-56`) |
| `ImportImage_again.cfg` | `RefusedIsComplete` (`import_image.sh:41`) | half an image left by a failed import counts as one that exists |

The theorem behind `ImportedIsFound` also says where the program and the script
part: for a name with a second colon, such as
`localhost:5000/u:v`, `image.cpp:22-23` takes all behind the first colon for the tag, and
`import_image.sh:34` only what is between the first two.

## 6. What is not modelled, and the plan

Not modelled:

- the contents of the upper layer and of images, and IP addresses: the former
  are data no decision of the program depends on, the latter are the same for
  every container (`virtual_net.cpp:464`), as README.md:80 says;
- the text of messages and of the usage pages, `vnet_todo.sh` and the Makefile;
- `cmd_option.cpp:139-150`, options with an optional value: no table has one, so
  the branch is unreachable;
- `ExitOnErr()`'s and `fs.cpp`'s own inside: they appear by their outcome
  (the end of the process; a directory made or not);
- `pivot_root(2)`'s own conditions beyond the propagation of the mounts, and a
  power failure that loses written data: `Reboot` is orderly.

Left of the plan:

1. `Session`: `Launch` and `VirtualNet` composed, in place of the outcome of
   `Bringup` and of `OrphanEnds`; `PivotRoot` in place of `Launch`'s `Prepare`.
2. `rm_container.sh` among commands that are *starting* (`RmContainer` has
   commands that run and that end).
