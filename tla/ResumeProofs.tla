----------------------------- MODULE ResumeProofs -----------------------------
(* Theorems about what a container keeps over its sessions: its info.json,  *)
(* the volumes it resumes with and finds, and ContainerContract; for every  *)
(* set of containers, processes and volume lists, nested volumes and mounts *)
(* left over included, and any number of crashes, kills and reboots.        *)
EXTENDS LifecycleProofs

Live(e) == entry[e].st # "none"

(* Where the commands that create a container are, and those whose volumes  *)
(* are the ones in info.json.  At "points" run has yet to write them.       *)
Creating(r) == r.pc \in {"stale", "mkdirs", "pid", "trunc", "write"}
               \/ (r.pc = "points" /\ r.cmd = "run")
Loaded(r) == r.pc \in {"mountRoot", "mountVols", "clone", "setup", "wait"}
             \/ (r.pc = "points" /\ r.cmd = "start")

(* What a command or a process that has these volumes may find of c: they   *)
(* are in info.json, unless the file was lost when it was written, and they *)
(* are what the container ran with first, if it ran.                        *)
Holds(c, vols) ==
    LET doc == Document(UserVolumes(vols))
    IN  /\ dir[c] /\ info[c] \in {doc, Unreadable}
        /\ made[c].valid => made[c] = doc

Kept ==
    \A c \in Containers : made[c].valid => dir[c] /\ info[c] \in {made[c], Unreadable}

Fits(r) ==
    /\ r.pc \in {"stale", "mkdirs", "pid"} => r.cmd = "run"
    /\ r.pc = "load" => r.cmd = "start" /\ dir[r.c]
    /\ r.pc \in {"pid", "points", "trunc", "write"} => dir[r.c]
    /\ Creating(r) => ~made[r.c].valid
    /\ Loaded(r) => Holds(r.c, r.vols)

CommandsFit == \A p \in Pids : Active(p) => Fits(cli[p])

OneEntry == \A e, f \in Pids : Live(e) /\ Live(f) /\ entry[e].c = entry[f].c => e = f

(* A container with a process is not being prepared or taken down.          *)
Apart ==
    \A p, e \in Pids : Active(p) /\ Live(e) /\ entry[e].c = cli[p].c =>
        cli[p].pc \in {"setup", "wait"}

ChildKnown ==
    \A p \in Pids : cli[p].pc \in {"setup", "wait"} =>
        /\ cli[p].child \in Pids /\ Live(cli[p].child)
        /\ entry[cli[p].child].c = cli[p].c
        /\ entry[cli[p].child].vols = cli[p].vols

EntriesFit ==
    \A e \in Pids :
        /\ entry[e].st \in {"held", "running"} => Holds(entry[e].c, entry[e].vols)
        /\ entry[e].st = "running" => made[entry[e].c].valid

ResumeInv ==
    /\ OneCommand /\ OneEntry /\ Apart /\ ChildKnown
    /\ CommandsFit /\ EntriesFit /\ Kept

-----------------------------------------------------------------------------
LEMMA ResumeInit == Init => ResumeInv
  BY DEF Init, ResumeInv, OneCommand, OneEntry, Apart, ChildKnown, CommandsFit, EntriesFit,
         Kept, Active, Live, NoCommand, NoEntry, Unreadable

(* A command ends and leaves the disk and the processes alone.              *)
LEMMA ResumeLeaves ==
    ASSUME TypeInv, ResumeInv, NEW p \in Pids, Leave(p), UNCHANGED <<dir, info, made, entry>>
    PROVE  ResumeInv'
<1>1. /\ \A q \in Pids \ {p} : cli'[q] = cli[q]
      /\ cli'[p].pc = "gone"
  BY DEF TypeInv, TypeOK, Leave, NoCommand
<1>2. OneCommand' /\ OneEntry' /\ Apart'
  BY <1>1 DEF ResumeInv, OneCommand, OneEntry, Apart, Active, Live
<1>3. ChildKnown'
  BY <1>1 DEF ResumeInv, ChildKnown, Live
<1>4. CommandsFit'
  BY <1>1 DEF ResumeInv, CommandsFit, Active, Fits, Creating, Loaded, Holds
<1>5. EntriesFit' /\ Kept'
  BY DEF ResumeInv, EntriesFit, Kept, Holds
<1> QED
  BY <1>2, <1>3, <1>4, <1>5 DEF ResumeInv

(* A step of a command without a process needs to be looked at for itself.  *)
LEMMA ResumeQuiet ==
    ASSUME TypeInv, ResumeInv, NEW p \in Pids, Active(p),
           \A q \in Pids \ {p} : cli'[q] = cli[q],
           UNCHANGED <<made, entry>>,
           \A c \in Containers \ {cli[p].c} : dir'[c] = dir[c] /\ info'[c] = info[c],
           cli[p].pc \notin {"setup", "wait"}, cli'[p].pc \notin {"setup", "wait"},
           cli'[p].pc # "gone" => cli'[p].c = cli[p].c /\ Fits(cli[p])',
           made[cli[p].c].valid => dir'[cli[p].c] /\ info'[cli[p].c] = info[cli[p].c]
    PROVE  ResumeInv'
<1> DEFINE c0 == cli[p].c
<1>1. /\ OneCommand /\ OneEntry /\ Apart /\ ChildKnown /\ CommandsFit /\ EntriesFit
      /\ Kept /\ CommandsBound /\ EntriesBound
  BY DEF ResumeInv, TypeInv
<1>2. \A q \in Pids \ {p} : Active(q)' <=> Active(q)
  BY DEF Active
<1>3. \A q \in Pids \ {p} : Active(q) => cli[q].c \in Containers \ {c0}
  BY <1>1 DEF OneCommand, CommandsBound
<1>4. \A e \in Pids : Live(e) => entry[e].c \in Containers \ {c0}
  BY <1>1 DEF Apart, EntriesBound, Live
<1>5. OneCommand'
  BY <1>1, <1>2, <1>3 DEF OneCommand, Active
<1>6. OneEntry'
  BY <1>1 DEF OneEntry, Live
<1>7. Apart'
  BY <1>1, <1>2, <1>4 DEF Apart, Active, Live
<1>8. ChildKnown'
  BY <1>1 DEF ChildKnown, Live
<1>9. CommandsFit'
  <2> SUFFICES ASSUME NEW q \in Pids, Active(q)' PROVE Fits(cli[q])'
    BY DEF CommandsFit
  <2>1. CASE q = p
    BY <2>1 DEF Active
  <2>2. CASE q # p
    <3>1. /\ cli'[q] = cli[q] /\ Fits(cli[q])
          /\ dir'[cli[q].c] = dir[cli[q].c] /\ info'[cli[q].c] = info[cli[q].c]
      BY <1>1, <1>2, <1>3, <2>2 DEF CommandsFit
    <3> QED
      BY <3>1 DEF Fits, Creating, Loaded, Holds
  <2> QED
    BY <2>1, <2>2
<1>10. EntriesFit'
  BY <1>1, <1>4 DEF EntriesFit, Holds, Live
<1>11. Kept'
  BY <1>1 DEF Kept
<1> QED
  BY <1>5, <1>6, <1>7, <1>8, <1>9, <1>10, <1>11 DEF ResumeInv

(* What happens to a process and to nothing else.                           *)
LEMMA ResumeEntry ==
    ASSUME TypeInv, ResumeInv, NEW e \in Pids,
           UNCHANGED <<dir, info, made, cli>>,
           \A f \in Pids \ {e} : entry'[f] = entry[f],
           Live(e),
           \/ entry'[e].st = "none" /\ ~ParentAlive(e)
           \/ /\ entry'[e].st = "zombie"
              /\ entry'[e].c = entry[e].c /\ entry'[e].vols = entry[e].vols
    PROVE  ResumeInv'
<1>1. /\ OneCommand /\ OneEntry /\ Apart /\ ChildKnown /\ CommandsFit /\ EntriesFit
      /\ Kept
  BY DEF ResumeInv
<1>2. OneEntry'
  BY <1>1 DEF OneEntry, Live
<1>3. Apart'
  BY <1>1 DEF Apart, Live, Active
<1>4. ChildKnown'
  BY <1>1 DEF ChildKnown, Live, ParentAlive, Active
<1>5. EntriesFit'
  BY <1>1 DEF EntriesFit, Holds
<1>6. OneCommand' /\ CommandsFit' /\ Kept'
  BY <1>1 DEF OneCommand, CommandsFit, Active, Fits, Creating, Loaded, Holds, Kept
<1> QED
  BY <1>1, <1>2, <1>3, <1>4, <1>5, <1>6 DEF ResumeInv

LEMMA ResumeNext ==
    ASSUME Overlap = {}
    PROVE  TypeInv /\ ResumeInv /\ [Next]_vars => ResumeInv'
<1> SUFFICES ASSUME TypeInv, ResumeInv, [Next]_vars PROVE ResumeInv'
  OBVIOUS
<1>C. cli \in [Pids -> Commands] /\ CommandsBound
  BY DEF TypeInv, TypeOK
<1>E. entry \in [Pids -> Entries] /\ EntriesBound
  BY DEF TypeInv, TypeOK
<1>O. /\ dir \in [Containers -> BOOLEAN] /\ info \in [Containers -> Documents]
      /\ made \in [Containers -> Documents]
  BY DEF TypeInv, TypeOK
<1>I. /\ OneCommand /\ OneEntry /\ Apart /\ ChildKnown /\ CommandsFit /\ EntriesFit
      /\ Kept
  BY DEF ResumeInv
<1>X. \A p \in Pids : Active(p) =>
        /\ cli[p].c \in Containers /\ cli[p].vols \in VolumeLists /\ cli[p].k \in Nat
        /\ Fits(cli[p]) /\ cli[p].cmd \in {"run", "start"}
  BY <1>C, <1>I DEF CommandsBound, CommandsFit, Commands
<1>G. NoCommand.pc = "gone" /\ NoEntry.st = "none"
  BY DEF NoCommand, NoEntry
<1>1. ASSUME NEW p \in Pids, NEW c \in Containers, NEW cmd \in {"run", "start"},
             NEW u \in Configs, Spawn(p, c, cmd, u)
      PROVE  ResumeInv'
  <2>1. /\ ~Active(p)
        /\ \A q \in Pids : Active(q) => cli[q].c # c
        /\ \A e \in Pids : Live(e) => entry[e].c # c
    BY <1>1 DEF Spawn, Exists, Busy, Live
  <2>2. /\ cli'[p].pc = "check" /\ cli'[p].c = c /\ \A q \in Pids \ {p} : cli'[q] = cli[q]
        /\ UNCHANGED <<dir, info, made, entry>>
    BY <1>1, <1>C DEF Spawn, disk, history
  <2>3. OneCommand' /\ Apart'
    BY <1>I, <2>1, <2>2 DEF OneCommand, Apart, Active, Live
  <2>4. ChildKnown'
    BY <1>I, <2>2 DEF ChildKnown, Live
  <2>5. CommandsFit'
    BY <1>I, <2>1, <2>2 DEF CommandsFit, Active, Fits, Creating, Loaded, Holds
  <2>6. OneEntry' /\ EntriesFit' /\ Kept'
    BY <1>I, <2>2 DEF OneEntry, EntriesFit, Kept, Live, Holds
  <2> QED
    BY <2>3, <2>4, <2>5, <2>6 DEF ResumeInv
<1>2. ASSUME NEW p \in Pids, RunCheck(p) PROVE ResumeInv'
  <2>1. Active(p) /\ cli[p].pc = "check" /\ cli[p].cmd = "run" /\ UNCHANGED <<dir, info, made, entry>>
    BY <1>2 DEF RunCheck, Active, disk, history
  <2>2. CASE MayCreate(cli[p].c)
    <3>1. /\ \A q \in Pids \ {p} : cli'[q] = cli[q]
          /\ cli'[p].pc = "stale" /\ cli'[p].c = cli[p].c /\ cli'[p].cmd = "run"
      BY <1>2, <1>C, <2>1, <2>2 DEF RunCheck, GotoFirst, Commands
    <3>2. ~made[cli[p].c].valid
      BY <1>I, <1>X, <2>1, <2>2 DEF MayCreate, Kept
    <3>3. Fits(cli[p])'
      BY <2>1, <3>1, <3>2 DEF Fits, Creating, Loaded
    <3> QED
      BY <1>I, <1>X, <2>1, <3>1, <3>3, ResumeQuiet DEF Kept
  <2>3. CASE ~MayCreate(cli[p].c)
    BY <1>2, <2>1, <2>3, ResumeLeaves DEF RunCheck
  <2> QED
    BY <2>2, <2>3
<1>3. ASSUME NEW p \in Pids, StartCheck(p) PROVE ResumeInv'
  <2>1. Active(p) /\ cli[p].pc = "check" /\ cli[p].cmd = "start" /\ UNCHANGED <<dir, info, made, entry>>
    BY <1>3 DEF StartCheck, Active, disk, history
  <2>2. CASE Leave(p)
    BY <2>1, <2>2, ResumeLeaves
  <2>3. ASSUME NEW pc \in {"refused", "load"}, Goto(p, pc), dir[cli[p].c]
        PROVE  ResumeInv'
    <3>1. /\ \A q \in Pids \ {p} : cli'[q] = cli[q]
          /\ cli'[p].pc = pc /\ cli'[p].c = cli[p].c /\ cli'[p].cmd = "start"
      BY <2>3, <1>C, <2>1 DEF Goto, Commands
    <3>2. Fits(cli[p])'
      BY <2>1, <2>3, <3>1 DEF Fits, Creating, Loaded
    <3> QED
      BY <1>I, <1>X, <2>1, <3>1, <3>2, ResumeQuiet DEF Kept
  <2> QED
    BY <1>3, <2>2, <2>3 DEF StartCheck
<1>4. ASSUME NEW p \in Pids, Refuse(p) PROVE ResumeInv'
  BY <1>4, ResumeLeaves DEF Refuse, disk, history
<1>5. ASSUME NEW p \in Pids, Load(p) PROVE ResumeInv'
  <2> DEFINE doc == info[cli[p].c]
  <2>1. Active(p) /\ cli[p].pc = "load" /\ UNCHANGED <<dir, info, made, entry>>
    BY <1>5 DEF Load, Active, disk, history
  <2>2. CASE doc.valid
    <3>1. /\ \A q \in Pids \ {p} : cli'[q] = cli[q]
          /\ cli'[p].pc = "points" /\ cli'[p].c = cli[p].c /\ cli'[p].cmd = cli[p].cmd
          /\ cli'[p].vols = AllVolumes(doc.vols)
      BY <1>5, <1>C, <2>1, <2>2 DEF Load, Commands
    <3>2. cli[p].cmd = "start" /\ dir[cli[p].c]
      BY <1>X, <2>1 DEF Fits
    <3>3. doc = Document(UserVolumes(AllVolumes(doc.vols)))
      <4>1. PICK u \in Configs : doc = Document(u)
        BY <1>O, <1>X, <2>1, <2>2 DEF Documents, Unreadable
      <4> HIDE DEF doc
      <4>2. doc.vols = u
        BY <4>1 DEF Document
      <4> QED
        BY <4>1, <4>2, VolumeListFacts
    <3> HIDE DEF doc
    <3>4. Fits(cli[p])'
      <4>1. made[cli[p].c].valid => made[cli[p].c] = doc
        BY <1>I, <1>X, <2>1, <2>2 DEF Kept, Unreadable, doc
      <4> QED
        BY <2>1, <3>1, <3>2, <3>3, <4>1 DEF Fits, Creating, Loaded, Holds, doc
    <3> QED
      BY <1>I, <1>X, <2>1, <3>1, <3>4, ResumeQuiet DEF Kept
  <2>3. CASE ~doc.valid
    BY <1>5, <2>1, <2>3, ResumeLeaves DEF Load
  <2> QED
    BY <2>2, <2>3
<1>6. ASSUME NEW p \in Pids, MakeDirs(p) PROVE ResumeInv'
  <2>1. Active(p) /\ cli[p].pc = "mkdirs" /\ UNCHANGED <<info, made, entry>>
    BY <1>6 DEF MakeDirs, Active, history
  <2>2. /\ \A q \in Pids \ {p} : cli'[q] = cli[q]
        /\ cli'[p].pc = "pid" /\ cli'[p].c = cli[p].c /\ cli'[p].cmd = cli[p].cmd
        /\ dir'[cli[p].c] = TRUE
        /\ \A c \in Containers \ {cli[p].c} : dir'[c] = dir[c]
    BY <1>6, <1>C, <1>O, <1>X, <2>1 DEF MakeDirs, Goto, Commands
  <2>3. Fits(cli[p])'
    BY <1>X, <2>1, <2>2 DEF Fits, Creating, Loaded
  <2> QED
    BY <2>1, <2>2, <2>3, ResumeQuiet
<1>7. ASSUME NEW p \in Pids, MakeDirsFails(p) PROVE ResumeInv'
  <2>1. Active(p) /\ cli[p].pc = "mkdirs" /\ UNCHANGED <<info, made, entry>>
    BY <1>7 DEF MakeDirsFails, Active, history
  <2>2. /\ \A q \in Pids \ {p} : cli'[q] = cli[q]
        /\ cli'[p].pc = "dtor" /\ cli'[p].c = cli[p].c
        /\ \A c \in Containers \ {cli[p].c} : dir'[c] = dir[c]
    <3>1. PICK b : dir' = [dir EXCEPT ![cli[p].c] = b]
      BY <1>7 DEF MakeDirsFails
    <3>2. /\ \A q \in Pids \ {p} : cli'[q] = cli[q]
          /\ cli'[p].pc = "dtor" /\ cli'[p].c = cli[p].c
      BY <1>7, <1>C, <2>1 DEF MakeDirsFails, GotoFirst, Commands
    <3> QED
      BY <1>O, <3>1, <3>2
  <2>3. Fits(cli[p])'
    BY <2>2 DEF Fits, Creating, Loaded
  <2>4. ~made[cli[p].c].valid
    BY <1>X, <2>1 DEF Fits, Creating
  <2> QED
    BY <2>1, <2>2, <2>3, <2>4, ResumeQuiet
<1>8. ASSUME NEW p \in Pids, WritePid(p) PROVE ResumeInv'
  <2>1. Active(p) /\ cli[p].pc = "pid" /\ UNCHANGED <<dir, info, made, entry>>
    BY <1>8 DEF WritePid, Active, history
  <2>2. /\ \A q \in Pids \ {p} : cli'[q] = cli[q]
        /\ cli'[p].pc = "points" /\ cli'[p].c = cli[p].c /\ cli'[p].cmd = cli[p].cmd
    BY <1>8, <1>C, <2>1 DEF WritePid, Goto, Commands
  <2>3. Fits(cli[p]) /\ cli[p].cmd = "run"
    BY <1>X, <2>1 DEF Fits
  <2>4. Fits(cli[p])'
    BY <2>1, <2>2, <2>3 DEF Fits, Creating, Loaded
  <2> QED
    BY <1>I, <1>X, <2>1, <2>2, <2>4, ResumeQuiet DEF Kept
<1>9. ASSUME NEW p \in Pids, MakePoints(p) PROVE ResumeInv'
  <2>1. Active(p) /\ cli[p].pc = "points" /\ UNCHANGED <<dir, info, made, entry>>
    BY <1>9 DEF MakePoints, Active, disk, history
  <2>2. /\ \A q \in Pids \ {p} : cli'[q] = cli[q]
        /\ cli'[p].pc = IF cli[p].cmd = "run" THEN "trunc" ELSE "mountRoot"
        /\ cli'[p].c = cli[p].c /\ cli'[p].cmd = cli[p].cmd /\ cli'[p].vols = cli[p].vols
    BY <1>9, <1>C, <2>1 DEF MakePoints, GotoFirst, Commands
  <2>3. Fits(cli[p])'
    BY <1>X, <2>1, <2>2 DEF Fits, Creating, Loaded, Holds
  <2> QED
    BY <1>I, <1>X, <2>1, <2>2, <2>3, ResumeQuiet DEF Kept
<1>10. ASSUME NEW p \in Pids, TruncInfo(p) PROVE ResumeInv'
  <2>1. Active(p) /\ cli[p].pc = "trunc" /\ UNCHANGED <<dir, made, entry>>
    BY <1>10 DEF TruncInfo, Active, history
  <2>2. /\ \A q \in Pids \ {p} : cli'[q] = cli[q]
        /\ cli'[p].pc = "write" /\ cli'[p].c = cli[p].c
        /\ \A c \in Containers \ {cli[p].c} : info'[c] = info[c]
    BY <1>10, <1>C, <1>O, <2>1 DEF TruncInfo, Goto, Commands
  <2>3. Fits(cli[p])' /\ ~made[cli[p].c].valid
    BY <1>X, <2>1, <2>2 DEF Fits, Creating, Loaded
  <2> QED
    BY <2>1, <2>2, <2>3, ResumeQuiet
<1>11. ASSUME NEW p \in Pids, WriteInfo(p) PROVE ResumeInv'
  <2>1. Active(p) /\ cli[p].pc = "write" /\ UNCHANGED <<dir, made, entry>>
    BY <1>11 DEF WriteInfo, Active, history
  <2>2. /\ \A q \in Pids \ {p} : cli'[q] = cli[q]
        /\ cli'[p].pc \in {"trunc", "mountRoot"} /\ cli'[p].c = cli[p].c
        /\ cli'[p].vols = cli[p].vols
    BY <1>11, <1>C, <2>1 DEF WriteInfo, Commands
  <2>3. /\ info'[cli[p].c] \in {Document(UserVolumes(cli[p].vols)), Unreadable}
        /\ \A c \in Containers \ {cli[p].c} : info'[c] = info[c]
    BY <1>11, <1>O, <1>X, <2>1 DEF WriteInfo, Serialized
  <2>4. Fits(cli[p])' /\ ~made[cli[p].c].valid
    BY <1>X, <2>1, <2>2, <2>3 DEF Fits, Creating, Loaded, Holds
  <2> QED
    BY <2>1, <2>2, <2>3, <2>4, ResumeQuiet
<1>12. ASSUME NEW p \in Pids, UnionMountRoot(p) PROVE ResumeInv'
  <2>1. Active(p) /\ cli[p].pc = "mountRoot" /\ UNCHANGED <<dir, info, made, entry>>
    BY <1>12 DEF UnionMountRoot, Active, disk, history
  <2>2. /\ \A q \in Pids \ {p} : cli'[q] = cli[q]
        /\ cli'[p].pc = "mountVols" /\ cli'[p].c = cli[p].c /\ cli'[p].vols = cli[p].vols
    BY <1>12, <1>C, <2>1 DEF UnionMountRoot, Commands
  <2>3. Fits(cli[p])'
    BY <1>X, <2>1, <2>2 DEF Fits, Creating, Loaded, Holds
  <2> QED
    BY <1>I, <1>X, <2>1, <2>2, <2>3, ResumeQuiet DEF Kept
<1>13. ASSUME NEW p \in Pids, MountVolume(p) PROVE ResumeInv'
  <2>1. Active(p) /\ cli[p].pc = "mountVols" /\ UNCHANGED <<dir, info, made, entry>>
    BY <1>13 DEF MountVolume, Active, disk
  <2>2. CASE Leave(p)
    BY <2>1, <2>2, ResumeLeaves
  <2>3. CASE cli' = [cli EXCEPT ![p].k = @ + 1]
    <3>1. /\ \A q \in Pids \ {p} : cli'[q] = cli[q]
          /\ cli'[p].pc = "mountVols" /\ cli'[p].c = cli[p].c /\ cli'[p].vols = cli[p].vols
      BY <1>C, <2>1, <2>3 DEF Commands
    <3>2. Fits(cli[p])'
      BY <1>X, <2>1, <3>1 DEF Fits, Creating, Loaded, Holds
    <3> QED
      BY <1>I, <1>X, <2>1, <3>1, <3>2, ResumeQuiet DEF Kept
  <2> QED
    BY <1>13, <2>2, <2>3 DEF MountVolume
<1>14. ASSUME NEW p \in Pids, MountVolumesDone(p) PROVE ResumeInv'
  <2>1. Active(p) /\ cli[p].pc = "mountVols" /\ UNCHANGED <<dir, info, made, entry>>
    BY <1>14 DEF MountVolumesDone, Active, disk, history
  <2>2. /\ \A q \in Pids \ {p} : cli'[q] = cli[q]
        /\ cli'[p].pc = "clone" /\ cli'[p].c = cli[p].c /\ cli'[p].vols = cli[p].vols
    BY <1>14, <1>C, <2>1 DEF MountVolumesDone, Goto, Commands
  <2>3. Fits(cli[p])'
    BY <1>X, <2>1, <2>2 DEF Fits, Creating, Loaded, Holds
  <2> QED
    BY <1>I, <1>X, <2>1, <2>2, <2>3, ResumeQuiet DEF Kept
<1>15. ASSUME NEW p \in Pids, NEW e \in Pids, Clone(p, e) PROVE ResumeInv'
  <2>1. /\ Active(p) /\ cli[p].pc = "clone" /\ ~Live(e) /\ UNCHANGED <<dir, info, made>>
        /\ \A f \in Pids : Live(f) => entry[f].c # cli[p].c
    BY <1>15, <1>I DEF Clone, Active, Exists, Live, disk, history, Apart
  <2>2. /\ \A q \in Pids \ {p} : cli'[q] = cli[q]
        /\ cli'[p].pc = "setup" /\ cli'[p].c = cli[p].c /\ cli'[p].vols = cli[p].vols
        /\ cli'[p].child = e
    BY <1>15, <1>C, <2>1 DEF Clone, Commands
  <2>3. /\ \A f \in Pids \ {e} : entry'[f] = entry[f]
        /\ entry'[e].st = "held" /\ entry'[e].c = cli[p].c /\ entry'[e].vols = cli[p].vols
    BY <1>15, <1>E DEF Clone
  <2>4. Holds(cli[p].c, cli[p].vols)
    BY <1>X, <2>1 DEF Fits, Loaded
  <2>5. OneCommand' /\ OneEntry'
    BY <1>I, <2>1, <2>2, <2>3 DEF OneCommand, OneEntry, Active, Live
  <2>6. Apart'
    <3> SUFFICES ASSUME NEW q \in Pids, NEW f \in Pids, Active(q)', Live(f)',
                        entry'[f].c = cli'[q].c
                 PROVE  cli'[q].pc \in {"setup", "wait"}
      BY DEF Apart
    <3>1. CASE q = p
      BY <2>2, <3>1
    <3>2. CASE q # p /\ f = e
      BY <1>I, <2>1, <2>2, <2>3, <3>2 DEF OneCommand, Active
    <3>3. CASE q # p /\ f # e
      BY <1>I, <2>2, <2>3, <3>3 DEF Apart, Active, Live
    <3> QED
      BY <3>1, <3>2, <3>3
  <2>7. ChildKnown'
    <3> SUFFICES ASSUME NEW q \in Pids, cli'[q].pc \in {"setup", "wait"}
                 PROVE  /\ cli'[q].child \in Pids /\ Live(cli[q].child)'
                        /\ entry'[cli'[q].child].c = cli'[q].c
                        /\ entry'[cli'[q].child].vols = cli'[q].vols
      BY DEF ChildKnown
    <3>1. CASE q = p
      BY <2>2, <2>3, <3>1 DEF Live
    <3>2. CASE q # p
      BY <1>I, <2>1, <2>2, <2>3, <3>2 DEF ChildKnown, Live
    <3> QED
      BY <3>1, <3>2
  <2>8. CommandsFit'
    BY <1>I, <2>1, <2>2, <2>4 DEF CommandsFit, Active, Fits, Creating, Loaded, Holds
  <2>9. EntriesFit' /\ Kept'
    BY <1>I, <2>1, <2>3, <2>4 DEF EntriesFit, Kept, Holds
  <2> QED
    BY <2>5, <2>6, <2>7, <2>8, <2>9 DEF ResumeInv
<1>16. ASSUME NEW p \in Pids, Setup(p) PROVE ResumeInv'
  <2> DEFINE e == cli[p].child
  <2>1. /\ Active(p) /\ cli[p].pc = "setup" /\ e \in Pids /\ entry[e].c = cli[p].c
        /\ UNCHANGED <<dir, info, made>>
    BY <1>16, <1>I DEF Setup, Active, disk, ChildKnown
  <2>2. CASE entry[e].st = "held"
    <3>1. /\ \A q \in Pids \ {p} : cli'[q] = cli[q]
          /\ cli'[p].pc = "wait" /\ cli'[p].c = cli[p].c /\ cli'[p].vols = cli[p].vols
          /\ cli'[p].child = e
      BY <1>16, <1>C, <2>1, <2>2 DEF Setup, Goto, Commands
    <3>2. \A f \in Pids : /\ entry'[f].st = entry[f].st /\ entry'[f].c = entry[f].c
                          /\ entry'[f].vols = entry[f].vols
      <4>1. PICK m : entry' = [entry EXCEPT ![e].msg = m]
        BY <1>16, <2>2 DEF Setup
      <4> QED
        BY <1>E, <2>1, <4>1 DEF Entries
    <3>3. OneCommand' /\ OneEntry' /\ Apart'
      BY <1>I, <2>1, <3>1, <3>2 DEF OneCommand, OneEntry, Apart, Active, Live
    <3>4. ChildKnown'
      BY <1>I, <2>1, <3>1, <3>2 DEF ChildKnown, Live
    <3>5. CommandsFit'
      BY <1>I, <2>1, <3>1 DEF CommandsFit, Active, Fits, Creating, Loaded, Holds
    <3>6. EntriesFit' /\ Kept'
      BY <1>I, <2>1, <3>2 DEF EntriesFit, Kept, Holds
    <3> QED
      BY <3>3, <3>4, <3>5, <3>6 DEF ResumeInv
  <2>3. CASE entry[e].st # "held"
    BY <1>16, <2>1, <2>3, ResumeLeaves DEF Setup
  <2> QED
    BY <2>2, <2>3
<1>17. ASSUME NEW p \in Pids, Wait(p) PROVE ResumeInv'
  <2> DEFINE e == cli[p].child
  <2>1. /\ Active(p) /\ cli[p].pc = "wait" /\ e \in Pids /\ Live(e) /\ entry[e].c = cli[p].c
        /\ UNCHANGED <<dir, info, made>>
    BY <1>17, <1>I DEF Wait, Active, disk, history, ChildKnown
  <2>2. /\ \A q \in Pids \ {p} : cli'[q] = cli[q]
        /\ cli'[p].pc = "cleanup" /\ cli'[p].c = cli[p].c
    BY <1>17, <1>C, <2>1 DEF Wait, Commands
  <2>3. /\ \A f \in Pids \ {e} : entry'[f] = entry[f]
        /\ entry'[e].st = "none"
    BY <1>17, <1>E, <1>G, <2>1 DEF Wait
  <2> HIDE DEF e
  <2>4. OneCommand' /\ OneEntry'
    BY <1>I, <2>1, <2>2, <2>3 DEF OneCommand, OneEntry, Active, Live
  <2>5. Apart'
    BY <1>I, <2>1, <2>2, <2>3 DEF Apart, OneEntry, Active, Live
  <2>6. ChildKnown'
    <3> SUFFICES ASSUME NEW q \in Pids, cli'[q].pc \in {"setup", "wait"}
                 PROVE  /\ cli'[q].child \in Pids /\ Live(cli[q].child)'
                        /\ entry'[cli'[q].child].c = cli'[q].c
                        /\ entry'[cli'[q].child].vols = cli'[q].vols
      BY DEF ChildKnown
    <3>1. q # p /\ cli'[q] = cli[q] /\ Active(q)
      BY <2>2 DEF Active
    <3>2. cli[q].child # e
      BY <1>I, <2>1, <3>1 DEF ChildKnown, OneCommand
    <3> QED
      BY <1>I, <2>3, <3>1, <3>2 DEF ChildKnown, Live
  <2>7. CommandsFit'
    BY <1>I, <2>1, <2>2 DEF CommandsFit, Active, Fits, Creating, Loaded, Holds
  <2>8. EntriesFit' /\ Kept'
    BY <1>I, <2>1, <2>3 DEF EntriesFit, Kept, Holds
  <2> QED
    BY <2>4, <2>5, <2>6, <2>7, <2>8 DEF ResumeInv
<1>18. ASSUME NEW p \in Pids, UmountVolume(p) PROVE ResumeInv'
  <2>1. Active(p) /\ cli[p].pc \in Unmounting /\ UNCHANGED <<dir, info, made, entry>>
    BY <1>18 DEF UmountVolume, Active, Unmounting, disk, history
  <2>2. /\ \A q \in Pids \ {p} : cli'[q] = cli[q]
        /\ cli'[p].pc = cli[p].pc /\ cli'[p].c = cli[p].c /\ cli'[p].cmd = cli[p].cmd
    BY <1>18, <1>C, <2>1 DEF UmountVolume, Commands
  <2>3. Fits(cli[p])'
    BY <1>X, <2>1, <2>2 DEF Fits, Creating, Loaded, Unmounting
  <2> QED
    BY <1>I, <1>X, <2>1, <2>2, <2>3, ResumeQuiet DEF Kept, Unmounting
<1>19. ASSUME NEW p \in Pids, UmountRoot(p) PROVE ResumeInv'
  <2>1. Active(p) /\ cli[p].pc \in Unmounting /\ UNCHANGED <<dir, info, made, entry>>
    BY <1>19 DEF UmountRoot, Active, Unmounting, disk, history
  <2>2. CASE cli[p].pc = "dtor"
    BY <1>19, <2>1, <2>2, ResumeLeaves DEF UmountRoot
  <2>3. CASE cli[p].pc \in {"stale", "cleanup"}
    <3>1. /\ \A q \in Pids \ {p} : cli'[q] = cli[q]
          /\ cli'[p].pc = IF cli[p].pc = "stale" THEN "mkdirs" ELSE "dtor"
          /\ cli'[p].c = cli[p].c /\ cli'[p].cmd = cli[p].cmd
      <4>1. \/ cli[p].pc = "stale" /\ cli' = [cli EXCEPT ![p].pc = "mkdirs", ![p].root = FALSE]
            \/ /\ cli[p].pc = "cleanup"
               /\ cli' = [cli EXCEPT ![p].pc = "dtor", ![p].k = 1, ![p].root = FALSE]
        BY <1>19, <2>3 DEF UmountRoot
      <4> QED
        BY <1>C, <4>1 DEF Commands
    <3>2. Fits(cli[p])'
      BY <1>X, <2>1, <2>3, <3>1 DEF Fits, Creating, Loaded
    <3> QED
      BY <1>I, <1>X, <2>1, <2>3, <3>1, <3>2, ResumeQuiet DEF Kept
  <2> QED
    BY <2>1, <2>2, <2>3 DEF Unmounting
<1>20. ASSUME NEW e \in Pids, Enter(e) PROVE ResumeInv'
  <2> DEFINE c == entry[e].c
  <2>1. /\ entry[e].st = "held" /\ Live(e) /\ c \in Containers
        /\ Holds(c, entry[e].vols) /\ UNCHANGED <<dir, info, cli>>
    BY <1>20, <1>E, <1>I DEF Enter, Live, EntriesBound, EntriesFit, disk
  <2>2. /\ \A f \in Pids \ {e} : entry'[f] = entry[f]
        /\ entry'[e].st = "running" /\ entry'[e].c = c /\ entry'[e].vols = entry[e].vols
    BY <1>20, <1>E DEF Enter, Entries
  <2>3. /\ \A d \in Containers \ {c} : made'[d] = made[d]
        /\ made[c].valid => made'[c] = made[c]
        /\ ~made[c].valid => made'[c] = Document(UserVolumes(entry[e].vols))
    BY <1>20, <1>O, <2>1 DEF Enter
  <2>4. made'[c].valid
    BY <2>3 DEF Document
  <2>5. Kept'
    BY <1>I, <2>1, <2>3 DEF Kept, Holds
  <2>6. OneCommand' /\ OneEntry' /\ Apart' /\ ChildKnown'
    BY <1>I, <2>1, <2>2 DEF OneCommand, OneEntry, Apart, ChildKnown, Active, Live
  <2>7. CommandsFit'
    <3> SUFFICES ASSUME NEW p \in Pids, Active(p) PROVE Fits(cli[p])'
      BY <2>1 DEF CommandsFit, Active
    <3>1. CASE cli[p].c = c
      <4>1. cli[p].pc \in {"setup", "wait"}
        BY <1>I, <2>1, <3>1 DEF Apart
      <4>2. cli[p].child = e /\ cli[p].vols = entry[e].vols
        BY <1>I, <2>1, <3>1, <4>1 DEF ChildKnown, OneEntry
      <4> QED
        BY <1>X, <2>1, <2>3, <3>1, <4>1, <4>2 DEF Fits, Creating, Loaded, Holds
    <3>2. CASE cli[p].c # c
      BY <1>X, <2>1, <2>3, <3>2 DEF Fits, Creating, Loaded, Holds
    <3> QED
      BY <3>1, <3>2
  <2>8. EntriesFit'
    <3> SUFFICES ASSUME NEW f \in Pids
                 PROVE  /\ entry'[f].st \in {"held", "running"} => Holds(entry[f].c, entry[f].vols)'
                        /\ entry'[f].st = "running" => made'[entry'[f].c].valid
      BY DEF EntriesFit
    <3>1. CASE f = e
      BY <2>1, <2>2, <2>3, <2>4, <3>1 DEF Holds
    <3>2. CASE f # e
      <4>1. Live(f) => entry[f].c \in Containers \ {c}
        BY <1>E, <1>I, <2>1, <3>2 DEF OneEntry, EntriesBound, Live
      <4> QED
        BY <1>I, <2>1, <2>2, <2>3, <3>2, <4>1 DEF EntriesFit, Holds, Live
    <3> QED
      BY <3>1, <3>2
  <2> QED
    BY <2>5, <2>6, <2>7, <2>8 DEF ResumeInv
<1>21. ASSUME NEW e \in Pids, EnterFails(e) \/ EntryExits(e) \/ KillHeld(e) PROVE ResumeInv'
  <2>1. /\ UNCHANGED <<dir, info, made, cli>> /\ Live(e)
        /\ \A f \in Pids \ {e} : entry'[f] = entry[f]
        /\ entry'[e].st = "zombie"
        /\ entry'[e].c = entry[e].c /\ entry'[e].vols = entry[e].vols
    BY <1>21, <1>E DEF EnterFails, EntryExits, KillHeld, Exited, Live, Entries, disk, history
  <2> QED
    BY <2>1, ResumeEntry
<1>22. ASSUME NEW e \in Pids, InitReaps(e) PROVE ResumeInv'
  <2>1. /\ UNCHANGED <<dir, info, made, cli>> /\ Live(e) /\ ~ParentAlive(e)
        /\ \A f \in Pids \ {e} : entry'[f] = entry[f]
        /\ entry'[e].st = "none"
    BY <1>22, <1>E, <1>G DEF InitReaps, Live, disk, history
  <2> QED
    BY <2>1, ResumeEntry
<1>23. ASSUME NEW p \in Pids, Crash(p) PROVE ResumeInv'
  BY <1>23, ResumeLeaves DEF Crash, disk
<1>24. ASSUME Reboot PROVE ResumeInv'
  <2>1. /\ \A p \in Pids : cli'[p].pc = "gone" /\ entry'[p].st = "none"
        /\ UNCHANGED <<dir, info, made>>
    BY <1>24, <1>G DEF Reboot, disk
  <2> QED
    BY <1>I, <2>1
    DEF ResumeInv, OneCommand, OneEntry, Apart, ChildKnown, CommandsFit, EntriesFit,
        Kept, Active, Live
<1>25. ASSUME NEW c \in Containers, Remove(c) PROVE ResumeInv'
  <2>1. /\ \A p \in Pids : Active(p) => cli[p].c # c
        /\ \A e \in Pids : Live(e) => entry[e].c # c
        /\ UNCHANGED <<cli, entry>>
    BY <1>25 DEF Remove, Busy, Live
  <2>2. /\ \A d \in Containers \ {c} : /\ dir'[d] = dir[d] /\ info'[d] = info[d]
                                       /\ made'[d] = made[d]
        /\ ~made'[c].valid
    BY <1>25, <1>O DEF Remove, Unreadable
  <2>3. Kept'
    BY <1>I, <2>2 DEF Kept
  <2>4. OneCommand' /\ OneEntry' /\ Apart' /\ ChildKnown'
    BY <1>I, <2>1 DEF OneCommand, OneEntry, Apart, ChildKnown, Active, Live
  <2>5. CommandsFit'
    <3> SUFFICES ASSUME NEW p \in Pids, Active(p) PROVE Fits(cli[p])'
      BY <2>1 DEF CommandsFit, Active
    <3>1. cli[p].c \in Containers \ {c}
      BY <1>X, <2>1
    <3> QED
      BY <1>X, <2>1, <2>2, <3>1 DEF Fits, Creating, Loaded, Holds
  <2>6. EntriesFit'
    <3>1. \A e \in Pids : Live(e) => entry[e].c \in Containers \ {c}
      BY <1>E, <2>1 DEF EntriesBound, Live
    <3> QED
      BY <1>I, <2>1, <2>2, <3>1 DEF EntriesFit, Holds, Live
  <2> QED
    BY <2>3, <2>4, <2>5, <2>6 DEF ResumeInv
<1>26. ASSUME UNCHANGED <<dir, info, made, cli, entry>> PROVE ResumeInv'
  BY <1>26, <1>I
  DEF ResumeInv, OneCommand, OneEntry, Apart, ChildKnown, CommandsFit, EntriesFit,
      Kept, Active, Live, Fits, Creating, Loaded, Holds
<1>27. ASSUME NEW c \in Containers, UserUnmounts(c) PROVE ResumeInv'
  BY <1>26, <1>27 DEF UserUnmounts, disk
<1>28. CASE UNCHANGED vars
  BY <1>26, <1>28 DEF vars
<1> QED
  BY <1>1, <1>2, <1>3, <1>4, <1>5, <1>6, <1>7, <1>8, <1>9, <1>10, <1>11, <1>12,
     <1>13, <1>14, <1>15, <1>16, <1>17, <1>18, <1>19, <1>20, <1>21, <1>22, <1>23,
     <1>24, <1>25, <1>27, <1>28, ConfigAssumption
  DEF Next, CommandStep, EntryStep

LEMMA ResumeAlways ==
    ASSUME Overlap = {}
    PROVE  Spec => [](TypeInv /\ ResumeInv)
<1>1. TypeInv /\ ResumeInv /\ [Next]_vars => ResumeInv'
  BY ResumeNext
<1> QED
  BY <1>1, ResumeInit, TypeInit, TypeNext, PTL DEF Spec

(* Durability, for any number of containers, processes, volumes, crashes    *)
(* and reboots: when users wait for a container to end before they issue    *)
(* the next command for it, no step after its first run touches its         *)
(* info.json or its directory, until it is removed.                         *)
THEOREM InfoIsDurable ==
    ASSUME Overlap = {}
    PROVE  Spec => InfoSurvives
<1> DEFINE Stays == \A c \in Containers : made[c].valid /\ made'[c].valid =>
                        dir'[c] /\ info'[c] = info[c]
<1>1. TypeInv /\ ResumeInv /\ [Next]_vars => [Stays]_vars
  <2> SUFFICES ASSUME TypeInv, ResumeInv, Next PROVE Stays
    OBVIOUS
  <2>O. /\ dir \in [Containers -> BOOLEAN] /\ info \in [Containers -> Documents]
        /\ made \in [Containers -> Documents] /\ Kept
        /\ \A p \in Pids : Active(p) => Fits(cli[p]) /\ cli[p].c \in Containers
    BY DEF TypeInv, TypeOK, ResumeInv, CommandsFit, CommandsBound
  <2>1. ASSUME UNCHANGED <<dir, info>> PROVE Stays
    BY <2>1, <2>O DEF Kept
  <2>2. ASSUME NEW p \in Pids, Active(p), ~made[cli[p].c].valid, UNCHANGED made,
               \A c \in Containers \ {cli[p].c} : dir'[c] = dir[c] /\ info'[c] = info[c]
        PROVE  Stays
    BY <2>2, <2>O DEF Kept
  <2>3. ASSUME NEW p \in Pids, MakeDirs(p) \/ MakeDirsFails(p) PROVE Stays
    <3>1. Active(p) /\ cli[p].pc = "mkdirs" /\ UNCHANGED <<info, made>>
      BY <2>3 DEF MakeDirs, MakeDirsFails, Active, history
    <3>2. PICK b : dir' = [dir EXCEPT ![cli[p].c] = b]
      BY <2>3 DEF MakeDirs, MakeDirsFails
    <3> QED
      BY <2>2, <2>O, <3>1, <3>2 DEF Fits, Creating
  <2>4. ASSUME NEW p \in Pids, TruncInfo(p) \/ WriteInfo(p) PROVE Stays
    <3>1. Active(p) /\ cli[p].pc \in {"trunc", "write"} /\ UNCHANGED <<dir, made>>
      BY <2>4 DEF TruncInfo, WriteInfo, Active, history
    <3>2. PICK doc : info' = [info EXCEPT ![cli[p].c] = doc]
      BY <2>4 DEF TruncInfo, WriteInfo
    <3> QED
      BY <2>2, <2>O, <3>1, <3>2 DEF Fits, Creating
  <2>5. ASSUME NEW c \in Containers, Remove(c) PROVE Stays
    BY <2>5, <2>O DEF Remove, Kept, Unreadable
  <2>6. ASSUME NEW p \in Pids, NEW c, NEW cmd, NEW u, Spawn(p, c, cmd, u) PROVE Stays
    BY <2>1, <2>6 DEF Spawn, disk
  <2>7. ASSUME NEW p \in Pids, CommandStep(p) PROVE Stays
    <3>1. \/ MakeDirs(p) \/ MakeDirsFails(p) \/ TruncInfo(p) \/ WriteInfo(p)
          \/ UNCHANGED <<dir, info>>
      BY <2>7
      DEF CommandStep, RunCheck, StartCheck, Refuse, Load, WritePid, MakePoints,
          UnionMountRoot, MountVolume, MountVolumesDone, Clone, Setup, Wait,
          UmountVolume, UmountRoot, disk
    <3> QED
      BY <2>1, <2>3, <2>4, <3>1
  <2>8. ASSUME NEW e \in Pids, EntryStep(e) \/ Crash(e) \/ KillHeld(e) PROVE Stays
    BY <2>1, <2>8 DEF EntryStep, Enter, EnterFails, EntryExits, InitReaps, Crash, KillHeld, disk
  <2>9. ASSUME Reboot \/ \E c \in Containers : UserUnmounts(c) PROVE Stays
    BY <2>1, <2>9 DEF Reboot, UserUnmounts, disk
  <2> QED
    BY <2>5, <2>6, <2>7, <2>8, <2>9 DEF Next
<1> HIDE DEF Stays
<1>2. [][Stays]_vars => InfoSurvives
  BY PTL DEF InfoSurvives, Stays
<1>3. Spec => [][Next]_vars
  BY PTL DEF Spec
<1> QED
  BY <1>1, <1>2, <1>3, ResumeAlways, PTL

(* Resume, under the same assumption: a container runs with the volumes it  *)
(* ran with first, whichever sessions, crashes and reboots lie between.     *)
THEOREM ResumesWithItsVolumes ==
    ASSUME Overlap = {}
    PROVE  Spec => []ResumesAsCreated
<1>1. TypeInv /\ ResumeInv => ResumesAsCreated
  <2> SUFFICES ASSUME TypeInv, ResumeInv, NEW e \in Pids, entry[e].st = "running"
               PROVE  /\ made[entry[e].c].valid
                      /\ entry[e].vols = AllVolumes(made[entry[e].c].vols)
    BY DEF ResumesAsCreated
  <2>1. /\ entry[e].c \in Containers /\ entry[e].vols \in VolumeLists
        /\ made[entry[e].c].valid
    BY DEF TypeInv, EntriesBound, ResumeInv, EntriesFit
  <2>2. made[entry[e].c] = Document(UserVolumes(entry[e].vols))
    BY <2>1 DEF ResumeInv, EntriesFit, Holds
  <2>3. PICK u \in Configs : entry[e].vols = AllVolumes(u)
    BY <2>1 DEF VolumeLists
  <2>4. UserVolumes(entry[e].vols) = u
    BY <2>3, VolumeListFacts
  <2> QED
    BY <2>1, <2>2, <2>3, <2>4 DEF Document
<1> QED
  BY <1>1, ResumeAlways, PTL

-----------------------------------------------------------------------------
(* Refinement of ContainerContract.                                         *)

(* The process that runs in a container, as the contract sees it.           *)
LEMMA RunsWithOne ==
    ASSUME OneEntry, NEW e \in Pids, entry[e].st = "running"
    PROVE  RunsWith(entry[e].c) = Document(UserVolumes(entry[e].vols))
<1>1. Running(entry[e].c) = {e}
  BY DEF Running, OneEntry, Live
<1>2. (CHOOSE f \in Running(entry[e].c) : TRUE) = e
  BY <1>1
<1> QED
  BY <1>1, <1>2 DEF RunsWith

(* Nothing the contract sees of a container changes unless a process starts *)
(* or stops running in it.                                                  *)
LEMMA RunsWithSame ==
    ASSUME NEW c, \A e \in Pids : \/ entry'[e] = entry[e]
                                  \/ e \notin Running(c) /\ e \notin Running(c)'
    PROVE  RunsWith(c)' = RunsWith(c)
<1>1. Running(c)' = Running(c)
  BY DEF Running
<1>2. CASE Running(c) = {}
  BY <1>1, <1>2 DEF RunsWith
<1>3. CASE Running(c) # {}
  <2> DEFINE f == CHOOSE e \in Running(c) : TRUE
  <2>1. f \in Running(c) /\ (CHOOSE e \in Running(c)' : TRUE) = f
    BY <1>1, <1>3
  <2>2. entry'[f] = entry[f]
    BY <2>1 DEF Running
  <2> QED
    BY <1>1, <1>3, <2>1, <2>2 DEF RunsWith
<1> QED
  BY <1>2, <1>3

(* Steps that are none of the contract's.                                   *)
LEMMA ContractQuiet ==
    ASSUME UNCHANGED <<dir, made>>,
           \A e \in Pids : \/ entry'[e] = entry[e]
                           \/ entry[e].st # "running" /\ entry'[e].st # "running"
    PROVE  UNCHANGED Contract!vars
<1>1. \A c \in Containers : RunsWith(c)' = RunsWith(c)
  BY RunsWithSame DEF Running
<1> QED
  BY <1>1 DEF Contract!vars

LEMMA ContractNext ==
    ASSUME TypeInv, ResumeInv, Next
    PROVE  Contract!Next \/ UNCHANGED Contract!vars
<1>E. entry \in [Pids -> Entries] /\ EntriesBound
  BY DEF TypeInv, TypeOK
<1>O. /\ dir \in [Containers -> BOOLEAN] /\ made \in [Containers -> Documents]
      /\ \A p \in Pids : Active(p) => cli[p].c \in Containers
  BY DEF TypeInv, TypeOK, CommandsBound
<1>I. OneEntry /\ ChildKnown /\ EntriesFit /\ Kept
  BY DEF ResumeInv
<1>G. NoEntry.st = "none"
  BY DEF NoEntry
<1>1. ASSUME UNCHANGED <<dir, made, entry>> PROVE UNCHANGED Contract!vars
  BY <1>1, ContractQuiet
<1>2. ASSUME NEW p \in Pids, NEW c \in Containers, NEW cmd, NEW u, Spawn(p, c, cmd, u)
      PROVE  UNCHANGED Contract!vars
  BY <1>1, <1>2 DEF Spawn, disk, history
<1>3. ASSUME NEW p \in Pids,
             \/ RunCheck(p) \/ StartCheck(p) \/ Refuse(p) \/ Load(p)
             \/ WritePid(p) \/ MakePoints(p) \/ TruncInfo(p) \/ WriteInfo(p)
             \/ UnionMountRoot(p) \/ MountVolume(p) \/ MountVolumesDone(p)
             \/ UmountVolume(p) \/ UmountRoot(p) \/ Crash(p)
      PROVE  UNCHANGED Contract!vars
  <2>1. UNCHANGED <<dir, made, entry>>
    BY <1>3
    DEF RunCheck, StartCheck, Refuse, Load, WritePid, MakePoints, TruncInfo, WriteInfo,
        UnionMountRoot, MountVolume, MountVolumesDone, UmountVolume, UmountRoot, Crash,
        disk, history
  <2> QED
    BY <1>1, <2>1
<1>4. ASSUME NEW p \in Pids, MakeDirs(p) \/ MakeDirsFails(p)
      PROVE  Contract!Next \/ UNCHANGED Contract!vars
  <2>1. cli[p].c \in Containers /\ UNCHANGED <<made, entry>>
    BY <1>4, <1>O DEF MakeDirs, MakeDirsFails, Active, history
  <2> PICK c \in Containers : c = cli[p].c
    BY <2>1
  <2>2. PICK b \in {dir[c], TRUE} : dir' = [dir EXCEPT ![c] = b]
    BY <1>4 DEF MakeDirs, MakeDirsFails
  <2>3. \A d \in Containers : RunsWith(d)' = RunsWith(d)
    BY <2>1, RunsWithSame
  <2>4. CASE b = dir[c]
    <3>1. dir' = dir
      BY <1>O, <2>1, <2>2, <2>4
    <3> QED
      BY <1>1, <2>1, <3>1
  <2>5. CASE b = TRUE
    <3>1. {d \in Containers : dir'[d]} = {d \in Containers : dir[d]} \cup {c}
      BY <1>O, <2>1, <2>2, <2>5
    <3>2. Contract!Make(c)
      BY <2>1, <2>3, <3>1 DEF Contract!Make
    <3> QED
      BY <2>1, <3>2 DEF Contract!Next
  <2> QED
    BY <2>2, <2>4, <2>5
<1>5. ASSUME NEW p \in Pids, NEW e \in Pids, Clone(p, e) PROVE UNCHANGED Contract!vars
  <2>1. /\ UNCHANGED <<dir, made>> /\ entry[e].st = "none"
        /\ \A f \in Pids \ {e} : entry'[f] = entry[f]
        /\ entry'[e].st = "held"
    BY <1>5, <1>E DEF Clone, Exists, disk, history
  <2> QED
    BY <2>1, ContractQuiet
<1>6. ASSUME NEW p \in Pids, Setup(p) PROVE UNCHANGED Contract!vars
  <2> DEFINE e == cli[p].child
  <2>1. e \in Pids /\ UNCHANGED <<dir, made>>
    BY <1>6, <1>I DEF Setup, ChildKnown, disk
  <2>2. CASE entry[e].st = "held"
    <3>1. PICK m : entry' = [entry EXCEPT ![e].msg = m]
      BY <1>6, <2>2 DEF Setup
    <3>2. /\ \A f \in Pids \ {e} : entry'[f] = entry[f]
          /\ entry'[e].st = "held"
      BY <1>E, <2>1, <2>2, <3>1 DEF Entries
    <3> QED
      BY <2>1, <2>2, <3>2, ContractQuiet
  <2>3. CASE entry[e].st # "held"
    BY <1>1, <1>6, <2>1, <2>3 DEF Setup
  <2> QED
    BY <2>2, <2>3
<1>7. ASSUME NEW p \in Pids, Wait(p) PROVE UNCHANGED Contract!vars
  <2> DEFINE e == cli[p].child
  <2>1. /\ e \in Pids /\ entry[e].st = "zombie" /\ UNCHANGED <<dir, made>>
        /\ entry' = [entry EXCEPT ![e] = NoEntry]
    BY <1>7, <1>I DEF Wait, ChildKnown, disk, history
  <2>2. /\ \A f \in Pids \ {e} : entry'[f] = entry[f]
        /\ entry'[e].st = "none"
    BY <1>E, <1>G, <2>1
  <2> QED
    BY <2>1, <2>2, ContractQuiet
<1>8. ASSUME NEW e \in Pids, EnterFails(e) \/ InitReaps(e) \/ KillHeld(e)
      PROVE  UNCHANGED Contract!vars
  <2>1. /\ entry[e].st # "running" /\ UNCHANGED <<dir, made>>
        /\ \A f \in Pids \ {e} : entry'[f] = entry[f]
        /\ entry'[e].st # "running"
    BY <1>8, <1>E, <1>G DEF EnterFails, InitReaps, KillHeld, Exited, Entries, disk, history
  <2> QED
    BY <2>1, ContractQuiet
<1>9. ASSUME NEW e \in Pids, Enter(e) PROVE Contract!Next
  <2> PICK c, u : c = entry[e].c /\ u = Document(UserVolumes(entry[e].vols))
    OBVIOUS
  <2>1. /\ c \in Containers /\ entry[e].vols \in VolumeLists
        /\ entry[e].st = "held" /\ dir[c] /\ UNCHANGED dir
        /\ made[c].valid => made[c] = u
    BY <1>9, <1>E, <1>I DEF Enter, EntriesBound, EntriesFit, Holds, disk
  <2>2. u \in {Document(w) : w \in Configs} /\ u.valid
    <3>1. PICK w \in Configs : entry[e].vols = AllVolumes(w)
      BY <2>1 DEF VolumeLists
    <3>2. UserVolumes(entry[e].vols) = w
      BY <3>1, VolumeListFacts
    <3> QED
      BY <3>2 DEF Document
  <2>3. Running(c) = {}
    BY <1>I, <2>1 DEF Running, OneEntry, Live
  <2>4. RunsWith(c) = Unreadable
    BY <2>3 DEF RunsWith
  <2>5. made[c] \in {Unreadable, u} /\ made' = [made EXCEPT ![c] = u]
    <3>1. CASE made[c].valid
      <4>1. made[c] = u
        BY <2>1, <3>1
      <4> QED
        BY <1>9, <1>O, <2>1, <3>1, <4>1 DEF Enter
    <3>2. CASE ~made[c].valid
      <4>1. made[c] = Unreadable
        BY <1>O, <2>1, <3>2 DEF Documents, Document
      <4> QED
        BY <1>9, <3>2, <4>1 DEF Enter
    <3> QED
      BY <3>1, <3>2
  <2>6. /\ \A f \in Pids \ {e} : entry'[f] = entry[f]
        /\ entry'[e].st = "running" /\ entry'[e].c = c /\ entry'[e].vols = entry[e].vols
    BY <1>9, <1>E DEF Enter, Entries
  <2>7. \A d \in Containers \ {c} : RunsWith(d)' = RunsWith(d)
    BY <2>6, RunsWithSame DEF Running
  <2>8. RunsWith(c)' = u
    <3>1. Running(c)' = {e}
      BY <2>3, <2>6 DEF Running
    <3>2. (CHOOSE f \in Running(c)' : TRUE) = e
      BY <3>1
    <3> QED
      BY <2>6, <3>1, <3>2 DEF RunsWith
  <2>9. [d \in Containers |-> RunsWith(d)'] =
           [[d \in Containers |-> RunsWith(d)] EXCEPT ![c] = u]
    BY <2>1, <2>7, <2>8
  <2>10. Contract!Enter(c, u)
    BY <2>1, <2>4, <2>5, <2>9 DEF Contract!Enter
  <2> QED
    BY <2>1, <2>2, <2>10 DEF Contract!Next
<1>10. ASSUME NEW e \in Pids, EntryExits(e) PROVE Contract!Next
  <2> PICK c : c = entry[e].c
    OBVIOUS
  <2>1. /\ c \in Containers /\ entry[e].st = "running" /\ UNCHANGED <<dir, made>>
    BY <1>10, <1>E DEF EntryExits, EntriesBound, disk, history
  <2>2. /\ \A f \in Pids \ {e} : entry'[f] = entry[f]
        /\ entry'[e].st = "zombie"
    BY <1>10, <1>E DEF EntryExits, Exited, Entries
  <2>3. Running(c)' = {}
    BY <1>I, <2>1, <2>2 DEF Running, OneEntry, Live
  <2>4. RunsWith(c)' = Unreadable
    BY <2>3 DEF RunsWith
  <2>5. \A d \in Containers \ {c} : RunsWith(d)' = RunsWith(d)
    BY <2>2, RunsWithSame DEF Running
  <2>6. Contract!Leave({c})
    BY <2>1, <2>4, <2>5 DEF Contract!Leave
  <2> QED
    BY <2>1, <2>6 DEF Contract!Next
<1>11. ASSUME Reboot PROVE Contract!Next
  <2>1. UNCHANGED <<dir, made>> /\ \A c \in Containers : Running(c)' = {}
    BY <1>11, <1>G DEF Reboot, Running, disk
  <2>2. \A c \in Containers : RunsWith(c)' = Unreadable
    BY <2>1 DEF RunsWith
  <2>3. Contract!Leave(Containers)
    BY <2>1, <2>2 DEF Contract!Leave
  <2> QED
    BY <2>3 DEF Contract!Next
<1>12. ASSUME NEW c \in Containers, Remove(c) PROVE Contract!Next
  <2>1. /\ Running(c) = {} /\ UNCHANGED entry
        /\ dir' = [dir EXCEPT ![c] = FALSE] /\ made' = [made EXCEPT ![c] = Unreadable]
    BY <1>12 DEF Remove, Busy, Running
  <2>2. RunsWith(c) = Unreadable /\ \A d \in Containers : RunsWith(d)' = RunsWith(d)
    BY <2>1, RunsWithSame DEF RunsWith
  <2>3. {d \in Containers : dir'[d]} = {d \in Containers : dir[d]} \ {c}
    BY <1>O, <2>1
  <2>4. Contract!Discard(c)
    BY <2>1, <2>2, <2>3 DEF Contract!Discard
  <2> QED
    BY <2>4 DEF Contract!Next
<1>13. ASSUME NEW c \in Containers, UserUnmounts(c) PROVE UNCHANGED Contract!vars
  BY <1>1, <1>13 DEF UserUnmounts, disk
<1> QED
  BY <1>2, <1>3, <1>4, <1>5, <1>6, <1>7, <1>8, <1>9, <1>10, <1>11, <1>12, <1>13
  DEF Next, CommandStep, EntryStep

(* With users who wait for a command to end, the commands, the files and    *)
(* the processes implement ContainerContract: a container runs once at a    *)
(* time, only while its directory is there, always with the volumes of its  *)
(* first session.                                                           *)
THEOREM KeepsContract ==
    ASSUME Overlap = {}
    PROVE  Spec => LivesAsContracted
<1>1. Init => Contract!Init
  <2> SUFFICES ASSUME Init PROVE Contract!Init
    OBVIOUS
  <2>1. \A c \in Containers : Running(c) = {} /\ ~dir[c]
    BY DEF Init, Running, NoEntry
  <2>2. \A c \in Containers : RunsWith(c) = Unreadable
    BY <2>1 DEF RunsWith
  <2> QED
    BY <2>1, <2>2 DEF Init, Contract!Init
<1>2. TypeInv /\ ResumeInv /\ [Next]_vars => [Contract!Next]_(Contract!vars)
  <2>1. UNCHANGED vars => UNCHANGED Contract!vars
    BY ContractQuiet DEF vars
  <2> QED
    BY <2>1, ContractNext
<1> QED
  BY <1>1, <1>2, ResumeAlways, PTL DEF Spec, LivesAsContracted, Contract!Spec

-----------------------------------------------------------------------------
(* What the command in a container finds of its volumes.                    *)

(* The last k mounts of T are a root and on it the first k - 1 of vols.     *)
Stacked(T, vols, k) ==
    LET b == Len(T) - k
    IN  /\ k <= Len(T) /\ T[b + 1] = Root
        /\ \A i \in 1..(k - 1) : T[b + 1 + i] = vols[i]

StackedWhole(T, vols) == Stacked(T, vols, Len(vols) + 1)

StacksSoFar(r) ==
    /\ r.pc = "mountVols" => /\ r.k \in 1..(Len(r.vols) + 1)
                             /\ Stacked(mtab[r.c], r.vols, r.k)
    /\ r.pc = "clone" => StackedWhole(mtab[r.c], r.vols)

CommandsStack == \A p \in Pids : Active(p) => StacksSoFar(cli[p])

EntriesStack ==
    \A e \in Pids :
        /\ entry[e].st \in {"held", "running"} => StackedWhole(entry[e].view, entry[e].vols)
        /\ entry[e].st = "held" => mtab[entry[e].c] = entry[e].view

StackInv == CommandsStack /\ EntriesStack

LEMMA StackedRoot ==
    ASSUME NEW T \in Seq(Dests \cup {Root}), NEW vols
    PROVE  Stacked(Mount(T, Root), vols, 1)
BY DEF Stacked, Mount

LEMMA StackedNext ==
    ASSUME NEW T \in Seq(Dests \cup {Root}), NEW vols \in Seq(Dests),
           NEW k \in 1..Len(vols), Stacked(T, vols, k)
    PROVE  Stacked(Mount(T, vols[k]), vols, k + 1)
<1> DEFINE U == Append(T, vols[k])
<1>1. /\ Len(U) = Len(T) + 1 /\ U[Len(T) + 1] = vols[k]
      /\ \A i \in 1..Len(T) : U[i] = T[i]
  OBVIOUS
<1>2. Len(T) \in Nat /\ k <= Len(T) /\ T[Len(T) - k + 1] = Root
      /\ \A i \in 1..(k - 1) : T[Len(T) - k + 1 + i] = vols[i]
  BY DEF Stacked
<1> HIDE DEF U
<1>3. Len(U) - (k + 1) = Len(T) - k
  BY <1>1, <1>2
<1>4. U[Len(T) - k + 1] = Root
  BY <1>1, <1>2
<1>5. ASSUME NEW i \in 1..k PROVE U[Len(T) - k + 1 + i] = vols[i]
  <2>1. CASE i = k
    BY <1>1, <1>2, <2>1
  <2>2. CASE i # k
    BY <1>1, <1>2, <2>2
  <2> QED
    BY <2>1, <2>2
<1>6. k + 1 <= Len(U) + 1 /\ (k + 1) - 1 = k
  BY <1>1, <1>2
<1>7. Stacked(U, vols, k + 1)
  BY <1>1, <1>3, <1>4, <1>5, <1>6 DEF Stacked
<1> QED
  BY <1>7 DEF Mount, U

(* In a stack in which no volume comes before one that it lies in, nothing  *)
(* hides a volume, whatever is mounted below.                               *)
LEMMA StackedVisible ==
    ASSUME NEW T \in Seq(Dests \cup {Root}), NEW vols \in Seq(Dests),
           StackedWhole(T, vols),
           \A i, j \in 1..Len(vols) : i < j => ~StrictlyBelow(vols[i], vols[j]),
           NEW i \in 1..Len(vols)
    PROVE  Visible(T, vols[i])
<1> DEFINE b == Len(T) - (Len(vols) + 1)
           n == b + 1 + i
<1>1. /\ Len(T) \in Nat /\ Len(vols) \in Nat /\ b \in Nat
      /\ \A j \in 1..Len(vols) : T[b + 1 + j] = vols[j]
  BY DEF StackedWhole, Stacked
<1>2. n \in 1..Len(T) /\ T[n] = vols[i]
  BY <1>1
<1>3. ASSUME NEW m \in 1..Len(T), m > n PROVE ~StrictlyBelow(vols[i], T[m])
  <2>1. m - (b + 1) \in 1..Len(vols) /\ i < m - (b + 1) /\ b + 1 + (m - (b + 1)) = m
    BY <1>1, <1>3
  <2>2. T[m] = vols[m - (b + 1)]
    BY <1>1, <2>1
  <2> QED
    BY <2>1, <2>2
<1> QED
  BY <1>2, <1>3 DEF Visible

(* A command that neither mounts nor is about to clone.                     *)
LEMMA StackStill ==
    ASSUME StackInv, NEW p \in Pids, \A q \in Pids \ {p} : cli'[q] = cli[q],
           UNCHANGED <<mtab, entry>>, cli'[p].pc \notin {"mountVols", "clone"}
    PROVE  StackInv'
BY DEF StackInv, CommandsStack, StacksSoFar, EntriesStack, Active

(* A command that changes its container's mounts, in which nothing runs.    *)
LEMMA StackMoves ==
    ASSUME TypeInv, ResumeInv, StackInv, NEW p \in Pids, Active(p),
           \A q \in Pids \ {p} : cli'[q] = cli[q], UNCHANGED entry,
           \A c \in Containers \ {cli[p].c} : mtab'[c] = mtab[c],
           cli[p].pc \notin {"setup", "wait"}, StacksSoFar(cli[p])'
    PROVE  StackInv'
<1>1. OneCommand /\ Apart /\ CommandsBound /\ EntriesBound /\ CommandsStack /\ EntriesStack
  BY DEF TypeInv, ResumeInv, StackInv
<1>2. ASSUME NEW q \in Pids, Active(q)' PROVE StacksSoFar(cli[q])'
  <2>1. CASE q = p
    BY <2>1
  <2>2. CASE q # p
    <3>1. cli'[q] = cli[q] /\ Active(q)
      BY <1>2, <2>2 DEF Active
    <3>2. mtab'[cli[q].c] = mtab[cli[q].c]
      BY <1>1, <2>2, <3>1 DEF OneCommand, CommandsBound
    <3> QED
      BY <1>1, <3>1, <3>2 DEF CommandsStack, StacksSoFar
  <2> QED
    BY <2>1, <2>2
<1>3. \A e \in Pids : Live(e) => mtab'[entry[e].c] = mtab[entry[e].c]
  BY <1>1 DEF Apart, EntriesBound, Live
<1>4. EntriesStack'
  BY <1>1, <1>3 DEF EntriesStack, Live
<1> QED
  BY <1>2, <1>4 DEF StackInv, CommandsStack

LEMMA StackNext == TypeInv /\ ResumeInv /\ StackInv /\ [Next]_vars => StackInv'
<1> SUFFICES ASSUME TypeInv, ResumeInv, StackInv, [Next]_vars PROVE StackInv'
  OBVIOUS
<1>C. cli \in [Pids -> Commands] /\ CommandsBound
  BY DEF TypeInv, TypeOK
<1>E. entry \in [Pids -> Entries] /\ EntriesBound
  BY DEF TypeInv, TypeOK
<1>M. mtab \in [Containers -> Seq(Dests \cup {Root})]
  BY DEF TypeInv, TypeOK
<1>I. CommandsStack /\ EntriesStack /\ ChildKnown /\ Apart
  BY DEF StackInv, ResumeInv
<1>X. \A p \in Pids : Active(p) =>
        /\ cli[p].c \in Containers /\ cli[p].vols \in Seq(Dests) /\ StacksSoFar(cli[p])
  BY <1>C, <1>I, VolumeListType DEF CommandsBound, CommandsStack
<1>G. NoCommand.pc = "gone" /\ NoEntry.st = "none"
  BY DEF NoCommand, NoEntry
<1>1. ASSUME NEW p \in Pids, NEW c \in Containers, NEW cmd, NEW u, Spawn(p, c, cmd, u)
      PROVE  StackInv'
  <2>1. /\ \A q \in Pids \ {p} : cli'[q] = cli[q]
        /\ cli'[p].pc = "check" /\ UNCHANGED <<mtab, entry>>
    BY <1>1, <1>C DEF Spawn
  <2> QED
    BY <2>1, StackStill
<1>2. ASSUME NEW p \in Pids, Leave(p), UNCHANGED <<mtab, entry>> PROVE StackInv'
  <2>1. /\ \A q \in Pids \ {p} : cli'[q] = cli[q]
        /\ cli'[p].pc = "gone"
    BY <1>2, <1>C, <1>G DEF Leave
  <2> QED
    BY <1>2, <2>1, StackStill
<1>3. ASSUME NEW p \in Pids, NEW pc \in PCs \ {"mountVols", "clone"},
             Goto(p, pc) \/ GotoFirst(p, pc), UNCHANGED <<mtab, entry>>
      PROVE  StackInv'
  <2>1. /\ \A q \in Pids \ {p} : cli'[q] = cli[q]
        /\ cli'[p].pc = pc
    BY <1>3, <1>C DEF Goto, GotoFirst, Commands
  <2> QED
    BY <1>3, <2>1, StackStill
<1>4. ASSUME NEW p \in Pids, RunCheck(p) \/ StartCheck(p) \/ Refuse(p) PROVE StackInv'
  BY <1>2, <1>3, <1>4 DEF RunCheck, StartCheck, Refuse, PCs, Unmounting
<1>5. ASSUME NEW p \in Pids, Load(p) PROVE StackInv'
  <2>1. CASE info[cli[p].c].valid
    <3>1. /\ \A q \in Pids \ {p} : cli'[q] = cli[q]
          /\ cli'[p].pc = "points" /\ UNCHANGED <<mtab, entry>>
      BY <1>5, <1>C, <2>1 DEF Load, Commands
    <3> QED
      BY <3>1, StackStill
  <2>2. CASE ~info[cli[p].c].valid
    BY <1>2, <1>5, <2>2 DEF Load
  <2> QED
    BY <2>1, <2>2
<1>6. ASSUME NEW p \in Pids,
             MakeDirs(p) \/ MakeDirsFails(p) \/ WritePid(p) \/ MakePoints(p) \/ TruncInfo(p)
      PROVE  StackInv'
  BY <1>3, <1>6 DEF MakeDirs, MakeDirsFails, WritePid, MakePoints, TruncInfo, PCs, Unmounting
<1>7. ASSUME NEW p \in Pids, WriteInfo(p) PROVE StackInv'
  <2>1. /\ \A q \in Pids \ {p} : cli'[q] = cli[q]
        /\ cli'[p].pc \in {"trunc", "mountRoot"} /\ UNCHANGED <<mtab, entry>>
    BY <1>7, <1>C DEF WriteInfo, Commands
  <2> QED
    BY <2>1, StackStill
<1>8. ASSUME NEW p \in Pids, UnionMountRoot(p) PROVE StackInv'
  <2> PICK c \in Containers : c = cli[p].c
    BY <1>8, <1>X DEF UnionMountRoot, Active
  <2>1. /\ Active(p) /\ cli[p].pc = "mountRoot" /\ UNCHANGED entry
        /\ mtab' = [mtab EXCEPT ![c] = Mount(@, Root)]
    BY <1>8 DEF UnionMountRoot, Active
  <2>2. /\ \A q \in Pids \ {p} : cli'[q] = cli[q]
        /\ cli'[p].pc = "mountVols" /\ cli'[p].c = c /\ cli'[p].vols = cli[p].vols
        /\ cli'[p].k = 1
    BY <1>8, <1>C DEF UnionMountRoot, Commands
  <2>3. /\ mtab'[c] = Mount(mtab[c], Root) /\ mtab[c] \in Seq(Dests \cup {Root})
        /\ \A d \in Containers \ {c} : mtab'[d] = mtab[d]
    BY <1>M, <2>1
  <2>4. StacksSoFar(cli[p])'
    <3>1. Stacked(mtab'[c], cli[p].vols, 1)
      BY <2>3, StackedRoot
    <3>2. 1 \in 1..(Len(cli[p].vols) + 1)
      BY <1>X, <2>1
    <3> QED
      BY <2>2, <3>1, <3>2 DEF StacksSoFar
  <2> QED
    BY <2>1, <2>2, <2>3, <2>4, StackMoves
<1>9. ASSUME NEW p \in Pids, MountVolume(p) PROVE StackInv'
  <2> PICK c \in Containers : c = cli[p].c
    BY <1>9, <1>X DEF MountVolume, Active
  <2> DEFINE d == cli[p].vols[cli[p].k]
  <2>1. Active(p) /\ cli[p].pc = "mountVols" /\ UNCHANGED entry
    BY <1>9 DEF MountVolume, Active
  <2>2. CASE CanMount(mtab[c], d)
    <3>1. mtab' = [mtab EXCEPT ![c] = Mount(@, d)] /\ cli' = [cli EXCEPT ![p].k = @ + 1]
      BY <1>9, <2>2 DEF MountVolume
    <3>2. /\ \A q \in Pids \ {p} : cli'[q] = cli[q]
          /\ cli'[p].pc = "mountVols" /\ cli'[p].c = c /\ cli'[p].vols = cli[p].vols
          /\ cli'[p].k = cli[p].k + 1
      BY <1>C, <2>1, <3>1 DEF Commands
    <3>3. /\ mtab'[c] = Mount(mtab[c], d) /\ mtab[c] \in Seq(Dests \cup {Root})
          /\ \A x \in Containers \ {c} : mtab'[x] = mtab[x]
      BY <1>M, <3>1
    <3>4. /\ cli[p].vols \in Seq(Dests) /\ cli[p].k \in 1..Len(cli[p].vols)
          /\ Stacked(mtab[c], cli[p].vols, cli[p].k)
      <4>1. /\ cli[p].vols \in Seq(Dests) /\ cli[p].k \in 1..(Len(cli[p].vols) + 1)
            /\ Stacked(mtab[c], cli[p].vols, cli[p].k)
        BY <1>X, <2>1 DEF StacksSoFar
      <4>2. cli[p].k <= Len(cli[p].vols)
        BY <1>9 DEF MountVolume
      <4> QED
        BY <4>1, <4>2
    <3>5. Stacked(mtab'[c], cli[p].vols, cli[p].k + 1)
      BY <3>3, <3>4, StackedNext
    <3>6. cli[p].k + 1 \in 1..(Len(cli[p].vols) + 1)
      BY <3>4
    <3>7. StacksSoFar(cli[p])'
      BY <3>2, <3>5, <3>6 DEF StacksSoFar
    <3> QED
      BY <2>1, <3>2, <3>3, <3>7, StackMoves
  <2>3. CASE ~CanMount(mtab[c], d)
    BY <1>2, <1>9, <2>3 DEF MountVolume
  <2> QED
    BY <2>2, <2>3
<1>10. ASSUME NEW p \in Pids, MountVolumesDone(p) PROVE StackInv'
  <2>1. /\ Active(p) /\ cli[p].pc = "mountVols" /\ UNCHANGED <<mtab, entry>>
        /\ cli[p].k = Len(cli[p].vols) + 1
    BY <1>10 DEF MountVolumesDone, Active
  <2>2. /\ \A q \in Pids \ {p} : cli'[q] = cli[q]
        /\ cli'[p].pc = "clone" /\ cli'[p].c = cli[p].c /\ cli'[p].vols = cli[p].vols
    BY <1>10, <1>C DEF MountVolumesDone, Goto, Commands
  <2>3. StacksSoFar(cli[p])'
    BY <1>X, <2>1, <2>2 DEF StacksSoFar, StackedWhole
  <2> QED
    BY <2>1, <2>2, <2>3, StackMoves
<1>11. ASSUME NEW p \in Pids, NEW e \in Pids, Clone(p, e) PROVE StackInv'
  <2>1. /\ Active(p) /\ cli[p].pc = "clone" /\ UNCHANGED mtab
        /\ StackedWhole(mtab[cli[p].c], cli[p].vols)
    BY <1>11, <1>X DEF Clone, Active, StacksSoFar
  <2>2. /\ \A q \in Pids \ {p} : cli'[q] = cli[q]
        /\ cli'[p].pc = "setup"
    BY <1>11, <1>C DEF Clone, Commands
  <2>3. /\ \A f \in Pids \ {e} : entry'[f] = entry[f]
        /\ entry'[e].st = "held" /\ entry'[e].c = cli[p].c /\ entry'[e].vols = cli[p].vols
        /\ entry'[e].view = mtab[cli[p].c]
    BY <1>11, <1>E DEF Clone
  <2>4. CommandsStack'
    BY <1>I, <2>1, <2>2 DEF CommandsStack, StacksSoFar, Active
  <2>5. EntriesStack'
    BY <1>I, <2>1, <2>3 DEF EntriesStack
  <2> QED
    BY <2>4, <2>5 DEF StackInv
<1>12. ASSUME NEW p \in Pids, Setup(p) PROVE StackInv'
  <2> PICK e \in Pids : e = cli[p].child
    BY <1>12, <1>I DEF Setup, ChildKnown
  <2>1. CASE entry[e].st = "held"
    <3>1. PICK m : entry' = [entry EXCEPT ![e].msg = m]
      BY <1>12, <2>1 DEF Setup
    <3>2. \A f \in Pids : /\ entry'[f].st = entry[f].st /\ entry'[f].c = entry[f].c
                          /\ entry'[f].vols = entry[f].vols /\ entry'[f].view = entry[f].view
      BY <1>E, <3>1 DEF Entries
    <3>3. /\ \A q \in Pids \ {p} : cli'[q] = cli[q]
          /\ cli'[p].pc = "wait" /\ UNCHANGED mtab
      BY <1>12, <1>C, <2>1 DEF Setup, Goto, Commands
    <3>4. CommandsStack'
      BY <1>I, <3>3 DEF CommandsStack, StacksSoFar, Active
    <3>5. EntriesStack'
      BY <1>I, <3>2, <3>3 DEF EntriesStack
    <3> QED
      BY <3>4, <3>5 DEF StackInv
  <2>2. CASE entry[e].st # "held"
    BY <1>2, <1>12, <2>2 DEF Setup
  <2> QED
    BY <2>1, <2>2
<1>13. ASSUME NEW p \in Pids, Wait(p) PROVE StackInv'
  <2>1. /\ \A q \in Pids \ {p} : cli'[q] = cli[q]
        /\ cli'[p].pc = "cleanup" /\ UNCHANGED mtab
    BY <1>13, <1>C DEF Wait, Commands
  <2>2. \A f \in Pids : entry'[f] = entry[f] \/ entry'[f].st = "none"
    BY <1>13, <1>E, <1>G DEF Wait
  <2>3. CommandsStack'
    BY <1>I, <2>1 DEF CommandsStack, StacksSoFar, Active
  <2>4. EntriesStack'
    BY <1>I, <2>1, <2>2 DEF EntriesStack
  <2> QED
    BY <2>3, <2>4 DEF StackInv
<1>14. ASSUME NEW p \in Pids, UmountVolume(p) \/ UmountRoot(p) PROVE StackInv'
  <2> PICK c \in Containers : c = cli[p].c
    BY <1>14, <1>X DEF UmountVolume, UmountRoot, Active, Unmounting
  <2>1. Active(p) /\ cli[p].pc \in Unmounting /\ UNCHANGED entry
    BY <1>14 DEF UmountVolume, UmountRoot, Active, Unmounting
  <2>2. PICK T : mtab' = [mtab EXCEPT ![c] = T]
    BY <1>14 DEF UmountVolume, UmountRoot
  <2>3. \A d \in Containers \ {c} : mtab'[d] = mtab[d]
    BY <1>M, <2>2
  <2>4. CASE UmountVolume(p)
    <3>1. /\ \A q \in Pids \ {p} : cli'[q] = cli[q]
          /\ cli'[p].pc \in Unmounting
      BY <1>C, <2>1, <2>4 DEF UmountVolume, Commands
    <3> QED
      BY <2>1, <2>3, <3>1, StackMoves DEF StacksSoFar, Unmounting
  <2>5. CASE UmountRoot(p)
    <3>1. /\ \A q \in Pids \ {p} : cli'[q] = cli[q]
          /\ cli'[p].pc \in {"mkdirs", "dtor", "gone"}
      <4>1. \/ cli' = [cli EXCEPT ![p].pc = "mkdirs", ![p].root = FALSE]
            \/ cli' = [cli EXCEPT ![p].pc = "dtor", ![p].k = 1, ![p].root = FALSE]
            \/ Leave(p)
        BY <2>1, <2>5 DEF UmountRoot, Unmounting
      <4> QED
        BY <1>C, <1>G, <4>1 DEF Leave, Commands
    <3> QED
      BY <2>1, <2>3, <3>1, StackMoves DEF StacksSoFar, Unmounting
  <2> QED
    BY <1>14, <2>4, <2>5
<1>15. ASSUME NEW e \in Pids, Enter(e) PROVE StackInv'
  <2>1. /\ entry[e].st = "held" /\ UNCHANGED <<mtab, cli>>
        /\ StackedWhole(entry[e].view, entry[e].vols) /\ mtab[entry[e].c] = entry[e].view
    BY <1>15, <1>I DEF Enter, EntriesStack
  <2>2. entry' = [entry EXCEPT ![e].st = "running", ![e].view = mtab[entry[e].c]]
    BY <1>15, <2>1 DEF Enter
  <2>3. /\ \A f \in Pids \ {e} : entry'[f] = entry[f]
        /\ entry'[e].st = "running" /\ entry'[e].vols = entry[e].vols
        /\ entry'[e].view = entry[e].view
    BY <1>E, <2>1, <2>2 DEF Entries
  <2>4. EntriesStack'
    BY <1>I, <2>1, <2>3 DEF EntriesStack
  <2> QED
    BY <1>I, <2>1, <2>4 DEF StackInv, CommandsStack, StacksSoFar, Active
<1>16. ASSUME NEW e \in Pids, EnterFails(e) \/ EntryExits(e) \/ InitReaps(e) \/ KillHeld(e)
       PROVE  StackInv'
  <2>1. /\ UNCHANGED <<mtab, cli>>
        /\ \A f \in Pids \ {e} : entry'[f] = entry[f]
        /\ entry'[e].st \in {"zombie", "none"}
    BY <1>16, <1>E, <1>G DEF EnterFails, EntryExits, InitReaps, KillHeld, Exited, Entries
  <2>2. EntriesStack'
    BY <1>I, <2>1 DEF EntriesStack
  <2> QED
    BY <1>I, <2>1, <2>2 DEF StackInv, CommandsStack, StacksSoFar, Active
<1>17. ASSUME NEW p \in Pids, Crash(p) PROVE StackInv'
  BY <1>2, <1>17 DEF Crash
<1>18. ASSUME Reboot PROVE StackInv'
  BY <1>18, <1>G DEF Reboot, StackInv, CommandsStack, EntriesStack, Active
<1>19. ASSUME NEW c \in Containers, UserUnmounts(c) PROVE StackInv'
  <2>1. /\ \A p \in Pids : Active(p) => cli[p].c # c
        /\ \A e \in Pids : Live(e) => entry[e].c # c
        /\ UNCHANGED <<cli, entry>>
        /\ \A d \in Containers \ {c} : mtab'[d] = mtab[d]
    BY <1>19, <1>M DEF UserUnmounts, Busy, Live
  <2>2. CommandsStack'
    BY <1>C, <1>I, <2>1 DEF CommandsStack, CommandsBound, StacksSoFar, Active
  <2>3. EntriesStack'
    BY <1>E, <1>I, <2>1 DEF EntriesStack, EntriesBound, Live
  <2> QED
    BY <2>2, <2>3 DEF StackInv
<1>20. ASSUME UNCHANGED <<mtab, cli, entry>> PROVE StackInv'
  BY <1>20, <1>I DEF StackInv, CommandsStack, StacksSoFar, EntriesStack, Active
<1>21. ASSUME NEW c \in Containers, Remove(c) PROVE StackInv'
  BY <1>20, <1>21 DEF Remove
<1>22. CASE UNCHANGED vars
  BY <1>20, <1>22 DEF vars
<1> QED
  BY <1>1, <1>4, <1>5, <1>6, <1>7, <1>8, <1>9, <1>10, <1>11, <1>12, <1>13, <1>14, <1>15,
     <1>16, <1>17, <1>18, <1>19, <1>21, <1>22
  DEF Next, CommandStep, EntryStep

(* With users who wait for a command to end, and no volume listed before    *)
(* one that it lies in, the command in a container finds each of its        *)
(* volumes, whatever an earlier command left mounted below.                 *)
THEOREM EntriesSeeTheirVolumes ==
    ASSUME Overlap = {},
           \A v \in VolumeLists :
               \A i, j \in 1..Len(v) : i < j => ~StrictlyBelow(v[i], v[j])
    PROVE  Spec => []EntrySeesVolumes
<1>1. Init => StackInv
  BY DEF Init, StackInv, CommandsStack, EntriesStack, Active, NoCommand, NoEntry
<1>2. TypeInv /\ ResumeInv /\ StackInv /\ [Next]_vars => StackInv'
  BY StackNext
<1>3. TypeInv /\ StackInv => EntrySeesVolumes
  <2> SUFFICES ASSUME TypeInv, StackInv, NEW e \in Pids, entry[e].st = "running",
                      NEW i \in 1..Len(entry[e].vols)
               PROVE  Visible(entry[e].view, entry[e].vols[i])
    BY DEF EntrySeesVolumes
  <2>1. /\ entry[e].vols \in VolumeLists /\ entry[e].vols \in Seq(Dests)
        /\ entry[e].view \in Seq(Dests \cup {Root})
        /\ StackedWhole(entry[e].view, entry[e].vols)
    BY VolumeListType DEF TypeInv, TypeOK, Entries, EntriesBound, StackInv, EntriesStack
  <2> QED
    BY <2>1, StackedVisible
<1> QED
  BY <1>1, <1>2, <1>3, ResumeAlways, PTL DEF Spec

=============================================================================
