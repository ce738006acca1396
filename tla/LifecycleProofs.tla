--------------------------- MODULE LifecycleProofs ---------------------------
(* Theorems about Lifecycle for every set of containers, processes and      *)
(* volume lists, and any number of crashes and reboots.                     *)
EXTENDS Lifecycle, SequenceTheorems, TLAPS

-----------------------------------------------------------------------------
(* What the sequence of mounts and the sequence of umounts of one container *)
(* do to its mount table.                                                   *)

(* The overlay with volumes a..b of the list vols mounted on it. *)
Stack(vols, a, b) ==
    [i \in 1..(b - a + 2) |-> IF i = 1 THEN Root ELSE vols[a + i - 2]]

(* A stack is a sequence of the expected length. *)
LEMMA StackIsSeq ==
    ASSUME NEW S, NEW vols \in Seq(S), NEW a \in Nat \ {0}, NEW b \in 0..Len(vols), a <= b + 1
    PROVE  Stack(vols, a, b) \in Seq(S \cup {Root}) /\ Len(Stack(vols, a, b)) = b - a + 2
<1>1. b - a + 2 \in Nat
  OBVIOUS
<1>2. \A i \in 1..(b - a + 2) : (IF i = 1 THEN Root ELSE vols[a + i - 2]) \in S \cup {Root}
  OBVIOUS
<1>3. Stack(vols, a, b) \in [1..(b - a + 2) -> S \cup {Root}]
  BY <1>2 DEF Stack
<1> QED
  BY <1>1, <1>3

(* The overlay is mounted first. *)
LEMMA MountRootFirst ==
    ASSUME NEW S, NEW vols \in Seq(S)
    PROVE  Mount(<<>>, Root) = Stack(vols, 1, 1 - 1)
<1>1. Append(<<>>, Root) = [i \in 1..1 |-> Root]
  OBVIOUS
<1>2. Stack(vols, 1, 1 - 1) = [i \in 1..1 |-> Root]
  BY DEF Stack
<1> QED
  BY <1>1, <1>2 DEF Mount

(* Mounting the next volume of the list extends the stack by it. *)
LEMMA MountNext ==
    ASSUME NEW S, NEW vols \in Seq(S), NEW k \in 1..Len(vols)
    PROVE  Mount(Stack(vols, 1, k - 1), vols[k]) = Stack(vols, 1, k)
<1> DEFINE T == Stack(vols, 1, k - 1)  U == Stack(vols, 1, k)
<1> HIDE DEF T, U
<1>0. /\ k \in Nat \ {0} /\ 1 \in Nat \ {0}
      /\ k - 1 \in 0..Len(vols) /\ 1 <= (k - 1) + 1
      /\ k \in 0..Len(vols) /\ 1 <= k + 1
  OBVIOUS
<1>1. T \in Seq(S \cup {Root}) /\ Len(T) = k
  <2>1. T \in Seq(S \cup {Root}) /\ Len(T) = (k - 1) - 1 + 2
    BY <1>0, StackIsSeq DEF T
  <2> QED
    BY <1>0, <2>1
<1>2. U \in Seq(S \cup {Root}) /\ Len(U) = k + 1
  <2>1. U \in Seq(S \cup {Root}) /\ Len(U) = k - 1 + 2
    BY <1>0, StackIsSeq DEF U
  <2> QED
    BY <1>0, <2>1
<1>3. /\ Append(T, vols[k]) \in Seq(S \cup {Root})
      /\ Len(Append(T, vols[k])) = k + 1
      /\ \A i \in 1..k : Append(T, vols[k])[i] = T[i]
      /\ Append(T, vols[k])[k + 1] = vols[k]
  <2>1. vols[k] \in S \cup {Root}
    OBVIOUS
  <2> QED
    BY <1>1, <2>1, AppendProperties
<1>4. \A i \in 1..(k + 1) : Append(T, vols[k])[i] = U[i]
  <2>1. \A i \in 1..k : T[i] = U[i]
    BY DEF T, U, Stack
  <2>2. U[k + 1] = vols[k]
    BY DEF U, Stack
  <2> QED
    BY <1>3, <2>1, <2>2
<1>5. Append(T, vols[k]) = U
  BY <1>2, <1>3, <1>4, SeqEqual
<1> QED
  BY <1>5 DEF Mount, T, U

(* Unmounting the first volume still mounted of a list of unrelated mount   *)
(* points succeeds, although others were mounted after it.                  *)
LEMMA UmountFirst ==
    ASSUME NEW S, NEW vols \in Seq(S), PairwiseUnrelated(vols), NEW k \in 1..Len(vols)
    PROVE  Umount(Stack(vols, k, Len(vols)), vols[k]) = Stack(vols, k + 1, Len(vols))
<1> DEFINE n == Len(vols)  T == Stack(vols, k, n)  U == Stack(vols, k + 1, n)  d == vols[k]
<1> HIDE DEF T, U
<1>0. n \in Nat /\ k \in Nat \ {0} /\ k <= n + 1 /\ n \in 0..Len(vols)
  OBVIOUS
<1>1. /\ T \in Seq(S \cup {Root}) /\ Len(T) = n - k + 2
      /\ T[1] = Root /\ \A i \in 2..(n - k + 2) : T[i] = vols[k + i - 2]
  <2>1. T \in Seq(S \cup {Root}) /\ Len(T) = n - k + 2
    BY <1>0, StackIsSeq DEF T
  <2>2. T[1] = Root /\ \A i \in 2..(n - k + 2) : T[i] = vols[k + i - 2]
    BY <1>0 DEF T, Stack
  <2> QED
    BY <2>1, <2>2
<1>2. T[2] = d
  BY <1>1
<1>3. \A j \in 1..Len(T) : j > 2 => ~Related(T[j], d)
  <2> SUFFICES ASSUME NEW j \in 1..Len(T), j > 2 PROVE ~Related(T[j], d)
    OBVIOUS
  <2>1. T[j] = vols[k + j - 2] /\ k + j - 2 \in 1..n /\ k + j - 2 # k
    BY <1>1
  <2> QED
    BY <2>1 DEF PairwiseUnrelated
<1>4. Detachable(T, d, 2)
  BY <1>2, <1>3 DEF Detachable
<1>5. ASSUME NEW i \in 1..Len(T), Detachable(T, d, i) PROVE i = 2
  <2>1. Related(d, d)
    BY DEF Related
  <2>2. ~(i < 2)
    BY <1>1, <1>2, <1>5, <2>1 DEF Detachable
  <2>3. ~(i > 2)
    BY <1>3, <1>5, <2>1 DEF Detachable
  <2> QED
    BY <1>1, <2>2, <2>3
<1>6. 2 \in 1..Len(T)
  BY <1>1
<1>7. (CHOOSE i \in 1..Len(T) : Detachable(T, d, i)) = 2
  BY <1>4, <1>5, <1>6
<1>8. Without(T, 2) = U
  <2>1. Len(T) - 1 = n - (k + 1) + 2
    BY <1>1
  <2>2. \A j \in 1..(Len(T) - 1) :
          (IF j < 2 THEN T[j] ELSE T[j + 1]) = (IF j = 1 THEN Root ELSE vols[(k + 1) + j - 2])
    BY <1>1
  <2> QED
    BY <2>1, <2>2 DEF Without, Stack, U
<1> QED
  BY <1>4, <1>6, <1>7, <1>8 DEF Umount, T, U

(* With no volume left on it the overlay itself can be unmounted. *)
LEMMA UmountBareRoot ==
    ASSUME NEW S, NEW vols \in Seq(S)
    PROVE  Umount(Stack(vols, Len(vols) + 1, Len(vols)), Root) = <<>>
<1> DEFINE T == Stack(vols, Len(vols) + 1, Len(vols))
<1> HIDE DEF T
<1>0. /\ Len(vols) \in Nat /\ Len(vols) + 1 \in Nat \ {0}
      /\ Len(vols) \in 0..Len(vols) /\ Len(vols) + 1 <= Len(vols) + 1
  OBVIOUS
<1>1. T \in Seq(S \cup {Root}) /\ Len(T) = 1 /\ T[1] = Root
  <2>1. T \in Seq(S \cup {Root}) /\ Len(T) = Len(vols) - (Len(vols) + 1) + 2
    BY <1>0, StackIsSeq DEF T
  <2>2. T[1] = Root
    BY <1>0 DEF T, Stack
  <2> QED
    BY <1>0, <2>1, <2>2
<1>2. Detachable(T, Root, 1)
  BY <1>1 DEF Detachable
<1>3. (CHOOSE i \in 1..Len(T) : Detachable(T, Root, i)) = 1
  BY <1>1, <1>2
<1>4. Without(T, 1) = <<>>
  BY <1>1 DEF Without
<1>5. \E i \in 1..Len(T) : Detachable(T, Root, i)
  BY <1>1, <1>2
<1>6. Umount(T, Root) = <<>>
  BY <1>3, <1>4, <1>5, Zenon DEF Umount
<1> QED
  BY <1>6 DEF T

(* There is nothing to unmount in an empty table. *)
LEMMA UmountNothing == ASSUME NEW d PROVE Umount(<<>>, d) = <<>>
  BY DEF Umount

(* Mounting and unmounting keep a table a table. *)
LEMMA TableType ==
    ASSUME NEW S, NEW T \in Seq(S), NEW d \in S
    PROVE  Mount(T, d) \in Seq(S) /\ Umount(T, d) \in Seq(S)
<1>1. Mount(T, d) \in Seq(S)
  BY DEF Mount
<1>2. ASSUME NEW i \in 1..Len(T) PROVE Without(T, i) \in Seq(S)
  <2>1. Len(T) - 1 \in Nat
    BY <1>2
  <2>2. Without(T, i) \in [1..(Len(T) - 1) -> S]
    BY <1>2 DEF Without
  <2> QED
    BY <2>1, <2>2
<1> QED
  BY <1>1, <1>2 DEF Umount

-----------------------------------------------------------------------------
(* What a command at work and a live entry process always carry.            *)
CommandsBound ==
    \A p \in Pids : Active(p) =>
        /\ cli[p].c \in Containers
        /\ cli[p].vols \in VolumeLists
        /\ cli[p].k \in Nat \ {0}

EntriesBound ==
    \A e \in Pids : entry[e].st # "none" =>
        entry[e].c \in Containers /\ entry[e].vols \in VolumeLists

TypeInv == TypeOK /\ CommandsBound /\ EntriesBound

(* A list of all volumes is a sequence of destinations, and the user's part *)
(* of it is what the user gave.                                             *)
LEMMA VolumeListFacts ==
    ASSUME NEW u \in Configs
    PROVE  /\ AllVolumes(u) \in VolumeLists
           /\ AllVolumes(u) \in Seq(Dests)
           /\ UserVolumes(AllVolumes(u)) = u
<1>1. u \in Seq(Dests)
  BY ConfigAssumption
<1>2. FileVolumes \in Seq(Dests) /\ Len(FileVolumes) = 3
  BY FileVolumesAssumption DEF FileVolumes
<1> DEFINE v == FileVolumes \o u
<1>3. /\ v \in Seq(Dests) /\ Len(v) = 3 + Len(u)
      /\ \A i \in 1..Len(u) : v[i + 3] = u[i]
  <2>1. v \in Seq(Dests) /\ Len(v) = Len(FileVolumes) + Len(u)
    BY <1>1, <1>2, ConcatProperties
  <2>2. \A i \in 1..Len(FileVolumes) + Len(u) :
           v[i] = IF i <= Len(FileVolumes) THEN FileVolumes[i] ELSE u[i - Len(FileVolumes)]
    BY <1>1, <1>2, ConcatProperties
  <2>3. \A i \in 1..Len(u) : i + 3 \in 1..3 + Len(u) /\ ~(i + 3 <= 3) /\ (i + 3) - 3 = i
    BY <1>1
  <2> QED
    BY <1>1, <1>2, <2>1, <2>2, <2>3
<1>4. SubSeq(v, 4, Len(v)) = u
  <2> HIDE DEF v
  <2>1. 4 \in 1..(Len(v) + 1) /\ Len(v) \in 3..Len(v)
    BY <1>1, <1>3
  <2>2. /\ SubSeq(v, 4, Len(v)) \in Seq(Dests)
        /\ Len(SubSeq(v, 4, Len(v))) = Len(u)
    BY <1>1, <1>3, <2>1, SubSeqProperties
  <2>3. \A i \in 1..Len(u) : SubSeq(v, 4, Len(v))[i] = u[i]
    BY <1>1, <1>3, <2>1, SubSeqProperties
  <2> QED
    BY <1>1, <2>2, <2>3, SeqEqual
<1> QED
  BY <1>2, <1>3, <1>4 DEF AllVolumes, VolumeLists, UserVolumes

LEMMA VolumeListType ==
    ASSUME NEW v \in VolumeLists
    PROVE  v \in Seq(Dests) /\ Document(UserVolumes(v)) \in Documents
  BY VolumeListFacts DEF VolumeLists, Documents

-----------------------------------------------------------------------------
LEMMA TypeInit == Init => TypeInv
<1> SUFFICES ASSUME Init PROVE TypeInv
  OBVIOUS
<1>1. NoCommand \in Commands
  BY DEF NoCommand, Commands, PCs, Unmounting
<1>2. NoEntry \in Entries
  BY DEF NoEntry, Entries
<1>3. TypeOK
  BY <1>1, <1>2, BoundAssumption DEF Init, TypeOK, Documents
<1>4. CommandsBound /\ EntriesBound
  BY DEF Init, CommandsBound, EntriesBound, Active, NoCommand, NoEntry
<1> QED
  BY <1>3, <1>4 DEF TypeInv

(* A command that moves on, and one that ends, keep the table of commands   *)
(* well formed.                                                             *)
LEMMA CommandMoves ==
    ASSUME TypeInv, NEW p \in Pids, Active(p), NEW r \in Commands,
           cli' = [cli EXCEPT ![p] = r],
           r.c = cli[p].c, r.vols \in VolumeLists, r.k \in Nat \ {0}
    PROVE  cli' \in [Pids -> Commands] /\ CommandsBound'
<1>1. cli \in [Pids -> Commands] /\ CommandsBound
  BY DEF TypeInv, TypeOK
<1>2. cli' \in [Pids -> Commands]
  BY <1>1
<1>3. \A q \in Pids : cli'[q] = IF q = p THEN r ELSE cli[q]
  BY <1>1
<1>4. r.c \in Containers
  BY <1>1 DEF CommandsBound
<1> QED
  BY <1>1, <1>2, <1>3, <1>4 DEF CommandsBound, Active

LEMMA CommandLeaves ==
    ASSUME TypeInv, NEW p \in Pids, Leave(p)
    PROVE  cli' \in [Pids -> Commands] /\ CommandsBound'
<1>1. cli \in [Pids -> Commands] /\ CommandsBound
  BY DEF TypeInv, TypeOK
<1>2. NoCommand \in Commands /\ NoCommand.pc = "gone"
  BY DEF NoCommand, Commands, PCs
<1>3. cli' \in [Pids -> Commands]
  BY <1>1, <1>2 DEF Leave
<1>4. \A q \in Pids : cli'[q] = IF q = p THEN NoCommand ELSE cli[q]
  BY <1>1 DEF Leave
<1> QED
  BY <1>1, <1>2, <1>3, <1>4 DEF CommandsBound, Active

LEMMA CommandGoes ==
    ASSUME TypeInv, NEW p \in Pids, Active(p), NEW pc \in PCs, Goto(p, pc) \/ GotoFirst(p, pc)
    PROVE  cli' \in [Pids -> Commands] /\ CommandsBound'
<1> DEFINE x == cli[p]
<1>1. x \in Commands /\ x.vols \in VolumeLists /\ x.k \in Nat \ {0} /\ 1 \in Nat \ {0}
  BY DEF TypeInv, TypeOK, CommandsBound
<1> HIDE DEF x
<1>2. CASE Goto(p, pc)
  <2> DEFINE r == [x EXCEPT !.pc = pc]
  <2>1. r \in Commands /\ r.c = x.c /\ r.vols = x.vols /\ r.k = x.k
    BY <1>1 DEF Commands
  <2>2. cli' = [cli EXCEPT ![p] = r]
    BY <1>2 DEF Goto, x
  <2> HIDE DEF r
  <2> QED
    BY <1>1, <2>1, <2>2, CommandMoves DEF x
<1>3. CASE GotoFirst(p, pc)
  <2> DEFINE r == [x EXCEPT !.pc = pc, !.k = 1]
  <2>1. r \in Commands /\ r.c = x.c /\ r.vols = x.vols /\ r.k = 1
    BY <1>1 DEF Commands
  <2>2. cli' = [cli EXCEPT ![p] = r]
    BY <1>3, TypeInv DEF GotoFirst, x, TypeInv, TypeOK
  <2> HIDE DEF r
  <2> QED
    BY <1>1, <2>1, <2>2, CommandMoves DEF x
<1> QED
  BY <1>2, <1>3

(* One step per action; under it the conjuncts of TypeInv that it disturbs. *)
LEMMA TypeNext == TypeInv /\ [Next]_vars => TypeInv'
<1> SUFFICES ASSUME TypeInv, [Next]_vars PROVE TypeInv'
  OBVIOUS
<1>P. PCs = {"stale", "cleanup", "dtor", "gone", "check", "refused", "load", "mkdirs",
             "pid", "points", "trunc", "write", "mountRoot", "mountVols", "clone",
             "setup", "wait"}
  BY DEF PCs, Unmounting
<1>C. cli \in [Pids -> Commands] /\ CommandsBound
  BY DEF TypeInv, TypeOK
<1>E. entry \in [Pids -> Entries] /\ EntriesBound
  BY DEF TypeInv, TypeOK
<1>O. /\ dir \in [Containers -> BOOLEAN] /\ pidFile \in [Containers -> Pids \cup {None}]
      /\ info \in [Containers -> Documents] /\ mtab \in [Containers -> Seq(Dests \cup {Root})]
      /\ made \in [Containers -> Documents] /\ premature \subseteq Containers
      /\ faults \in 0..MaxFaults
  BY DEF TypeInv, TypeOK
<1>X. \A p \in Pids : Active(p) =>
        /\ cli[p] \in Commands /\ cli[p].c \in Containers
        /\ cli[p].vols \in VolumeLists /\ cli[p].k \in Nat \ {0} /\ 1 \in Nat \ {0}
  BY <1>C DEF CommandsBound
<1>Z. NoEntry \in Entries /\ NoEntry.st = "none" /\ Unreadable \in Documents
  BY DEF NoEntry, Entries, Documents
<1>1. ASSUME NEW p \in Pids, NEW c \in Containers, NEW cmd \in {"run", "start"},
             NEW u \in Configs, Spawn(p, c, cmd, u)
      PROVE  TypeInv'
  <2>1. AllVolumes(u) \in VolumeLists
    BY VolumeListFacts
  <2>2. cli' \in [Pids -> Commands]
    BY <1>1, <1>C, <1>P, <2>1 DEF Spawn, Commands
  <2>3. CommandsBound'
    BY <1>1, <1>C, <2>1 DEF Spawn, CommandsBound, Active
  <2> QED
    BY <1>1, <1>E, <1>O, <2>2, <2>3
    DEF Spawn, TypeInv, TypeOK, disk, history, EntriesBound
<1>2. ASSUME NEW p \in Pids, RunCheck(p) PROVE TypeInv'
  <2>1. cli' \in [Pids -> Commands] /\ CommandsBound'
    BY <1>2, <1>P, CommandGoes, CommandLeaves DEF RunCheck, Active
  <2> QED
    BY <1>2, <1>E, <1>O, <2>1
    DEF RunCheck, TypeInv, TypeOK, disk, history, EntriesBound
<1>3. ASSUME NEW p \in Pids, StartCheck(p) PROVE TypeInv'
  <2>1. cli' \in [Pids -> Commands] /\ CommandsBound'
    BY <1>3, <1>P, CommandGoes, CommandLeaves DEF StartCheck, Active
  <2> QED
    BY <1>3, <1>E, <1>O, <2>1
    DEF StartCheck, TypeInv, TypeOK, disk, history, EntriesBound
<1>4. ASSUME NEW p \in Pids, Refuse(p) PROVE TypeInv'
  <2>1. cli' \in [Pids -> Commands] /\ CommandsBound'
    BY <1>4, <1>P, CommandGoes, CommandLeaves DEF Refuse, Active
  <2> QED
    BY <1>4, <1>E, <1>O, <2>1
    DEF Refuse, TypeInv, TypeOK, disk, history, EntriesBound
<1>5. ASSUME NEW p \in Pids, Load(p) PROVE TypeInv'
  <2> DEFINE doc == info[cli[p].c]
  <2>1. CASE doc.valid
    <3> DEFINE r == [cli[p] EXCEPT !.pc = "points", !.vols = AllVolumes(doc.vols)]
    <3>1. AllVolumes(doc.vols) \in VolumeLists
      <4>1. doc \in Documents /\ Active(p)
        BY <1>5, <1>O, <1>X DEF Load, Active
      <4> HIDE DEF doc
      <4>2. doc # Unreadable
        BY <2>1 DEF Unreadable
      <4>3. PICK u \in Configs : doc = Document(u)
        BY <4>1, <4>2 DEF Documents
      <4>4. doc.vols = u
        BY <4>3 DEF Document
      <4> QED
        BY <4>4, VolumeListFacts
    <3>2. cli[p] \in Commands /\ cli[p].k \in Nat \ {0} /\ Active(p)
      BY <1>5, <1>X DEF Load, Active
    <3>3. r \in Commands /\ r.c = cli[p].c /\ r.vols \in VolumeLists /\ r.k \in Nat \ {0}
      BY <1>P, <3>1, <3>2 DEF Commands
    <3>4. cli' = [cli EXCEPT ![p] = r]
      BY <1>5, <2>1, <1>C DEF Load
    <3> HIDE DEF r
    <3>5. cli' \in [Pids -> Commands] /\ CommandsBound'
      BY <3>2, <3>3, <3>4, CommandMoves
    <3> QED
      BY <1>5, <1>E, <1>O, <3>5 DEF Load, TypeInv, TypeOK, disk, history, EntriesBound
  <2>2. CASE ~doc.valid
    <3>1. cli' \in [Pids -> Commands] /\ CommandsBound'
      BY <1>5, <2>2, CommandLeaves DEF Load
    <3> QED
      BY <1>5, <1>E, <1>O, <3>1 DEF Load, TypeInv, TypeOK, disk, history, EntriesBound
  <2> QED
    BY <2>1, <2>2
<1>6. ASSUME NEW p \in Pids, MakeDirs(p) PROVE TypeInv'
  <2>1. cli' \in [Pids -> Commands] /\ CommandsBound'
    BY <1>6, <1>P, CommandGoes, CommandLeaves DEF MakeDirs, Active
  <2>2. dir' \in [Containers -> BOOLEAN]
    BY <1>6, <1>O DEF MakeDirs
  <2> QED
    BY <1>6, <1>E, <1>O, <2>1, <2>2
    DEF MakeDirs, TypeInv, TypeOK, disk, history, EntriesBound
<1>7. ASSUME NEW p \in Pids, MakeDirsFails(p) PROVE TypeInv'
  <2>1. cli' \in [Pids -> Commands] /\ CommandsBound'
    BY <1>7, <1>P, CommandGoes, CommandLeaves DEF MakeDirsFails, Active
  <2>2. dir' \in [Containers -> BOOLEAN]
    BY <1>7, <1>O, <1>X DEF MakeDirsFails, Active
  <2> QED
    BY <1>7, <1>E, <1>O, <2>1, <2>2
    DEF MakeDirsFails, TypeInv, TypeOK, disk, history, EntriesBound
<1>8. ASSUME NEW p \in Pids, WritePid(p) PROVE TypeInv'
  <2>1. cli' \in [Pids -> Commands] /\ CommandsBound'
    BY <1>8, <1>P, CommandGoes, CommandLeaves DEF WritePid, Active
  <2>2. pidFile' \in [Containers -> Pids \cup {None}]
    <3>1. PICK pid \in {p, None} : pidFile' = [pidFile EXCEPT ![cli[p].c] = pid]
      BY <1>8 DEF WritePid
    <3> QED
      BY <1>O, <3>1
  <2> QED
    BY <1>8, <1>E, <1>O, <2>1, <2>2
    DEF WritePid, TypeInv, TypeOK, disk, history, EntriesBound
<1>9. ASSUME NEW p \in Pids, MakePoints(p) PROVE TypeInv'
  <2>1. cli' \in [Pids -> Commands] /\ CommandsBound'
    BY <1>9, <1>P, CommandGoes, CommandLeaves DEF MakePoints, Active
  <2> QED
    BY <1>9, <1>E, <1>O, <2>1
    DEF MakePoints, TypeInv, TypeOK, disk, history, EntriesBound
<1>10. ASSUME NEW p \in Pids, TruncInfo(p) PROVE TypeInv'
  <2>1. cli' \in [Pids -> Commands] /\ CommandsBound'
    BY <1>10, <1>P, CommandGoes, CommandLeaves DEF TruncInfo, Active
  <2>2. info' \in [Containers -> Documents]
    BY <1>10, <1>O, <1>Z DEF TruncInfo
  <2> QED
    BY <1>10, <1>E, <1>O, <2>1, <2>2
    DEF TruncInfo, TypeInv, TypeOK, disk, history, EntriesBound
<1>11. ASSUME NEW p \in Pids, WriteInfo(p) PROVE TypeInv'
  <2> DEFINE again == [cli[p] EXCEPT !.pc = "trunc", !.k = @ + 1]
             done == [cli[p] EXCEPT !.pc = "mountRoot"]
  <2>1. /\ cli[p] \in Commands /\ cli[p].k \in Nat \ {0} /\ Active(p)
        /\ cli[p].c \in Containers /\ cli[p].vols \in VolumeLists
    BY <1>11, <1>X DEF WriteInfo, Active
  <2>2. again \in Commands /\ again.c = cli[p].c /\ again.vols \in VolumeLists
        /\ again.k \in Nat \ {0}
    <3> DEFINE j == cli[p].k + 1
    <3>1. j \in Nat \ {0} /\ again = [cli[p] EXCEPT !.pc = "trunc", !.k = j]
      BY <2>1
    <3> HIDE DEF j, again
    <3> QED
      BY <1>P, <2>1, <3>1 DEF Commands
  <2>3. done \in Commands /\ done.c = cli[p].c /\ done.vols \in VolumeLists
        /\ done.k \in Nat \ {0}
    BY <1>P, <2>1 DEF Commands
  <2>4. cli' = [cli EXCEPT ![p] = again] \/ cli' = [cli EXCEPT ![p] = done]
    BY <1>11, <1>C DEF WriteInfo
  <2> HIDE DEF again, done
  <2>5. cli' \in [Pids -> Commands] /\ CommandsBound'
    BY <2>1, <2>2, <2>3, <2>4, CommandMoves
  <2>6. info' \in [Containers -> Documents]
    BY <1>11, <1>O, <1>Z, <2>1, VolumeListType DEF WriteInfo, Serialized
  <2> QED
    BY <1>11, <1>E, <1>O, <2>5, <2>6
    DEF WriteInfo, TypeInv, TypeOK, disk, history, EntriesBound
<1>12. ASSUME NEW p \in Pids, UnionMountRoot(p) PROVE TypeInv'
  <2> DEFINE r == [cli[p] EXCEPT !.pc = "mountVols", !.k = 1, !.root = TRUE]
  <2>1. /\ cli[p] \in Commands /\ cli[p].k \in Nat \ {0} /\ 1 \in Nat \ {0} /\ Active(p)
        /\ cli[p].c \in Containers /\ cli[p].vols \in VolumeLists
    BY <1>12, <1>X DEF UnionMountRoot, Active
  <2>2. r \in Commands /\ r.c = cli[p].c /\ r.vols \in VolumeLists /\ r.k \in Nat \ {0}
    BY <1>P, <2>1 DEF Commands
  <2>3. cli' = [cli EXCEPT ![p] = r]
    BY <1>12, <1>C DEF UnionMountRoot
  <2> HIDE DEF r
  <2>4. cli' \in [Pids -> Commands] /\ CommandsBound'
    BY <2>1, <2>2, <2>3, CommandMoves
  <2>5. mtab' \in [Containers -> Seq(Dests \cup {Root})]
    BY <1>12, <1>O, <2>1, TableType DEF UnionMountRoot
  <2> QED
    BY <1>12, <1>E, <1>O, <2>4, <2>5
    DEF UnionMountRoot, TypeInv, TypeOK, disk, history, EntriesBound
<1>13. ASSUME NEW p \in Pids, MountVolume(p) PROVE TypeInv'
  <2> DEFINE c == cli[p].c  d == cli[p].vols[cli[p].k]
  <2>1. /\ cli[p] \in Commands /\ cli[p].k \in Nat \ {0} /\ Active(p)
        /\ cli[p].c \in Containers /\ cli[p].vols \in VolumeLists
    BY <1>13, <1>X DEF MountVolume, Active
  <2>2. CASE CanMount(mtab[c], d)
    <3> DEFINE r == [cli[p] EXCEPT !.k = @ + 1]
    <3>1. r \in Commands /\ r.c = cli[p].c /\ r.vols \in VolumeLists /\ r.k \in Nat \ {0}
      BY <2>1 DEF Commands
    <3>2. cli' = [cli EXCEPT ![p] = r]
      BY <1>13, <1>C, <2>2 DEF MountVolume
    <3> HIDE DEF r
    <3>3. cli' \in [Pids -> Commands] /\ CommandsBound'
      BY <2>1, <3>1, <3>2, CommandMoves
    <3>4. d \in Dests \cup {Root}
      <4>1. cli[p].vols \in Seq(Dests)
        BY <2>1, VolumeListType
      <4>2. cli[p].k \in 1..Len(cli[p].vols)
        BY <1>13, <2>1, <4>1 DEF MountVolume
      <4> QED
        BY <4>1, <4>2
    <3>5. Mount(mtab[c], d) \in Seq(Dests \cup {Root})
      BY <1>O, <2>1, <3>4, TableType
    <3>6. mtab' \in [Containers -> Seq(Dests \cup {Root})]
      BY <1>13, <1>O, <2>2, <3>5 DEF MountVolume
    <3> QED
      BY <1>13, <1>E, <1>O, <2>2, <3>3, <3>6
      DEF MountVolume, TypeInv, TypeOK, disk, EntriesBound
  <2>3. CASE ~CanMount(mtab[c], d)
    <3>1. cli' \in [Pids -> Commands] /\ CommandsBound'
      BY <1>13, <2>3, CommandLeaves DEF MountVolume
    <3> QED
      BY <1>13, <1>E, <1>O, <2>1, <2>3, <3>1
      DEF MountVolume, TypeInv, TypeOK, disk, EntriesBound
  <2> QED
    BY <2>2, <2>3
<1>14. ASSUME NEW p \in Pids, MountVolumesDone(p) PROVE TypeInv'
  <2>1. cli' \in [Pids -> Commands] /\ CommandsBound'
    BY <1>14, <1>P, CommandGoes, CommandLeaves DEF MountVolumesDone, Active
  <2> QED
    BY <1>14, <1>E, <1>O, <2>1
    DEF MountVolumesDone, TypeInv, TypeOK, disk, history, EntriesBound
<1>15. ASSUME NEW p \in Pids, NEW e \in Pids, Clone(p, e) PROVE TypeInv'
  <2> DEFINE r == [cli[p] EXCEPT !.pc = "setup", !.child = e]
  <2>1. /\ cli[p] \in Commands /\ cli[p].k \in Nat \ {0} /\ 1 \in Nat \ {0} /\ Active(p)
        /\ cli[p].c \in Containers /\ cli[p].vols \in VolumeLists
    BY <1>15, <1>X DEF Clone, Active
  <2>2. r \in Commands /\ r.c = cli[p].c /\ r.vols \in VolumeLists /\ r.k \in Nat \ {0}
    BY <1>P, <2>1 DEF Commands
  <2>3. cli' = [cli EXCEPT ![p] = r]
    BY <1>15, <1>C DEF Clone
  <2> HIDE DEF r
  <2>4. cli' \in [Pids -> Commands] /\ CommandsBound'
    BY <2>1, <2>2, <2>3, CommandMoves
  <2>5. entry' \in [Pids -> Entries]
    BY <1>15, <1>E, <1>O, <2>1 DEF Clone, Entries
  <2>6. EntriesBound'
    BY <1>15, <1>E, <2>1 DEF Clone, EntriesBound
  <2> QED
    BY <1>15, <1>O, <2>4, <2>5, <2>6 DEF Clone, TypeInv, TypeOK, disk, history
<1>16. ASSUME NEW p \in Pids, Setup(p) PROVE TypeInv'
  <2>1. cli' \in [Pids -> Commands] /\ CommandsBound'
    BY <1>16, <1>P, CommandGoes, CommandLeaves DEF Setup, Active
  <2> DEFINE e == cli[p].child
  <2>2. \/ UNCHANGED entry
        \/ \E m \in {"go", "die"} : entry' = [entry EXCEPT ![e].msg = m]
    BY <1>16 DEF Setup
  <2>3. entry' \in [Pids -> Entries] /\ EntriesBound'
    <3>1. CASE UNCHANGED entry
      BY <1>E, <3>1 DEF EntriesBound
    <3>2. ASSUME NEW m \in {"go", "die"}, entry' = [entry EXCEPT ![e].msg = m]
          PROVE  entry' \in [Pids -> Entries] /\ EntriesBound'
      BY <1>E, <3>2 DEF Entries, EntriesBound
    <3> QED
      BY <2>2, <3>1, <3>2
  <2>4. premature' \subseteq Containers
    <3>1. premature' = premature \/ premature' = premature \cup {cli[p].c}
      BY <1>16 DEF Setup
    <3>2. cli[p].pc # "gone" => cli[p].c \in Containers
      BY <1>X DEF Active
    <3>3. cli[p].pc = "setup"
      BY <1>16 DEF Setup
    <3> QED
      BY <1>O, <3>1, <3>2, <3>3
  <2> QED
    BY <1>16, <1>O, <2>1, <2>3, <2>4 DEF Setup, TypeInv, TypeOK, disk
<1>17. ASSUME NEW p \in Pids, Wait(p) PROVE TypeInv'
  <2> DEFINE r == [cli[p] EXCEPT !.pc = "cleanup", !.k = 1, !.child = None]
  <2>1. /\ cli[p] \in Commands /\ cli[p].k \in Nat \ {0} /\ 1 \in Nat \ {0} /\ Active(p)
        /\ cli[p].c \in Containers /\ cli[p].vols \in VolumeLists
    BY <1>17, <1>X DEF Wait, Active
  <2>2. r \in Commands /\ r.c = cli[p].c /\ r.vols \in VolumeLists /\ r.k \in Nat \ {0}
    BY <1>P, <2>1 DEF Commands
  <2>3. cli' = [cli EXCEPT ![p] = r]
    BY <1>17, <1>C DEF Wait
  <2> HIDE DEF r
  <2>4. cli' \in [Pids -> Commands] /\ CommandsBound'
    BY <2>1, <2>2, <2>3, CommandMoves
  <2>5. entry' \in [Pids -> Entries] /\ EntriesBound'
    BY <1>17, <1>E, <1>Z DEF Wait, EntriesBound
  <2> QED
    BY <1>17, <1>O, <2>4, <2>5 DEF Wait, TypeInv, TypeOK, disk, history
<1>18. ASSUME NEW p \in Pids, UmountVolume(p) PROVE TypeInv'
  <2> DEFINE r == [cli[p] EXCEPT !.k = @ + 1]
  <2>1. /\ cli[p] \in Commands /\ cli[p].k \in Nat \ {0} /\ 1 \in Nat \ {0} /\ Active(p)
        /\ cli[p].c \in Containers /\ cli[p].vols \in VolumeLists
    BY <1>18, <1>X DEF UmountVolume, Active, Unmounting
  <2>2. r \in Commands /\ r.c = cli[p].c /\ r.vols \in VolumeLists /\ r.k \in Nat \ {0}
    BY <1>P, <2>1 DEF Commands
  <2>3. cli' = [cli EXCEPT ![p] = r]
    BY <1>18, <1>C DEF UmountVolume
  <2> HIDE DEF r
  <2>4. cli' \in [Pids -> Commands] /\ CommandsBound'
    BY <2>1, <2>2, <2>3, CommandMoves
  <2>5. mtab' \in [Containers -> Seq(Dests \cup {Root})]
    <3>1. cli[p].vols \in Seq(Dests)
      BY <2>1, VolumeListType
    <3>2. cli[p].k \in 1..Len(cli[p].vols)
      BY <1>18, <2>1, <3>1 DEF UmountVolume
    <3>3. cli[p].vols[cli[p].k] \in Dests \cup {Root}
      BY <3>1, <3>2
    <3>4. Umount(mtab[cli[p].c], cli[p].vols[cli[p].k]) \in Seq(Dests \cup {Root})
      BY <1>O, <2>1, <3>3, TableType
    <3> QED
      BY <1>18, <1>O, <3>4 DEF UmountVolume
  <2> QED
    BY <1>18, <1>E, <1>O, <2>4, <2>5
    DEF UmountVolume, TypeInv, TypeOK, disk, history, EntriesBound
<1>19. ASSUME NEW p \in Pids, UmountRoot(p) PROVE TypeInv'
  <2>1. /\ cli[p] \in Commands /\ cli[p].k \in Nat \ {0} /\ 1 \in Nat \ {0} /\ Active(p)
        /\ cli[p].c \in Containers /\ cli[p].vols \in VolumeLists
    BY <1>19, <1>X DEF UmountRoot, Active, Unmounting
  <2>2. mtab' \in [Containers -> Seq(Dests \cup {Root})]
    BY <1>19, <1>O, <2>1, TableType DEF UmountRoot
  <2>3. cli' \in [Pids -> Commands] /\ CommandsBound'
    <3>1. CASE cli[p].pc = "stale"
      <4> DEFINE r == [cli[p] EXCEPT !.pc = "mkdirs", !.root = FALSE]
      <4>1. r \in Commands /\ r.c = cli[p].c /\ r.vols \in VolumeLists /\ r.k \in Nat \ {0}
        BY <1>P, <2>1 DEF Commands
      <4>2. cli' = [cli EXCEPT ![p] = r]
        BY <1>19, <1>C, <3>1 DEF UmountRoot
      <4> HIDE DEF r
      <4> QED
        BY <2>1, <4>1, <4>2, CommandMoves
    <3>2. CASE cli[p].pc = "cleanup"
      <4> DEFINE r == [cli[p] EXCEPT !.pc = "dtor", !.k = 1, !.root = FALSE]
      <4>1. r \in Commands /\ r.c = cli[p].c /\ r.vols \in VolumeLists /\ r.k \in Nat \ {0}
        BY <1>P, <2>1 DEF Commands
      <4>2. cli' = [cli EXCEPT ![p] = r]
        BY <1>19, <1>C, <3>2 DEF UmountRoot
      <4> HIDE DEF r
      <4> QED
        BY <2>1, <4>1, <4>2, CommandMoves
    <3>3. CASE cli[p].pc = "dtor"
      BY <1>19, <3>3, CommandLeaves DEF UmountRoot
    <3> QED
      BY <1>19, <3>1, <3>2, <3>3 DEF UmountRoot, Unmounting
  <2> QED
    BY <1>19, <1>E, <1>O, <2>2, <2>3
    DEF UmountRoot, TypeInv, TypeOK, disk, history, EntriesBound
<1>20. ASSUME NEW e \in Pids, Enter(e) PROVE TypeInv'
  <2>1. entry[e].c \in Containers /\ entry[e].vols \in VolumeLists
    BY <1>20, <1>E DEF Enter, EntriesBound
  <2>2. entry' \in [Pids -> Entries]
    <3>1. PICK v \in {entry[e].view, mtab[entry[e].c]} :
             entry' = [entry EXCEPT ![e].st = "running", ![e].view = v]
      BY <1>20 DEF Enter
    <3>2. v \in Seq(Dests \cup {Root})
      BY <1>E, <1>O, <2>1 DEF Entries
    <3> QED
      BY <1>E, <3>1, <3>2 DEF Entries
  <2>3. EntriesBound'
    BY <1>20, <1>E DEF Enter, EntriesBound
  <2>4. made' \in [Containers -> Documents]
    BY <1>20, <1>O, <2>1, VolumeListType DEF Enter
  <2> QED
    BY <1>20, <1>C, <1>O, <2>2, <2>3, <2>4 DEF Enter, TypeInv, TypeOK, disk, CommandsBound, Active
<1>21. ASSUME NEW e \in Pids, EnterFails(e) PROVE TypeInv'
  <2>1. entry' \in [Pids -> Entries]
    BY <1>21, <1>E, <1>Z DEF EnterFails, Exited, Entries
  <2>2. EntriesBound'
    BY <1>21, <1>E, <1>Z DEF EnterFails, Exited, EntriesBound
  <2> QED
    BY <1>21, <1>C, <1>O, <2>1, <2>2
    DEF EnterFails, TypeInv, TypeOK, disk, history, CommandsBound, Active
<1>22. ASSUME NEW e \in Pids, EntryExits(e) PROVE TypeInv'
  <2>1. entry' \in [Pids -> Entries]
    BY <1>22, <1>E, <1>Z DEF EntryExits, Exited, Entries
  <2>2. EntriesBound'
    BY <1>22, <1>E, <1>Z DEF EntryExits, Exited, EntriesBound
  <2> QED
    BY <1>22, <1>C, <1>O, <2>1, <2>2
    DEF EntryExits, TypeInv, TypeOK, disk, history, CommandsBound, Active
<1>23. ASSUME NEW e \in Pids, InitReaps(e) PROVE TypeInv'
  <2>1. entry' \in [Pids -> Entries]
    BY <1>23, <1>E, <1>Z DEF InitReaps, Exited, Entries
  <2>2. EntriesBound'
    BY <1>23, <1>E, <1>Z DEF InitReaps, Exited, EntriesBound
  <2> QED
    BY <1>23, <1>C, <1>O, <2>1, <2>2
    DEF InitReaps, TypeInv, TypeOK, disk, history, CommandsBound, Active
<1>24. ASSUME NEW p \in Pids, Crash(p) PROVE TypeInv'
  <2>1. cli' \in [Pids -> Commands] /\ CommandsBound'
    BY <1>24, CommandLeaves DEF Crash
  <2>2. premature' \subseteq Containers /\ faults' \in 0..MaxFaults
    BY <1>24, <1>O, <1>X, BoundAssumption DEF Crash, Fault
  <2> QED
    BY <1>24, <1>E, <1>O, <2>1, <2>2 DEF Crash, TypeInv, TypeOK, disk, EntriesBound
<1>25. ASSUME NEW e \in Pids, KillHeld(e) PROVE TypeInv'
  <2>1. entry' \in [Pids -> Entries]
    BY <1>25, <1>E DEF KillHeld, Exited, Entries
  <2>2. EntriesBound'
    BY <1>25, <1>E DEF KillHeld, Exited, EntriesBound
  <2>3. faults' \in 0..MaxFaults
    BY <1>25, <1>O, BoundAssumption DEF KillHeld, Fault
  <2> QED
    BY <1>25, <1>C, <1>O, <2>1, <2>2, <2>3
    DEF KillHeld, TypeInv, TypeOK, disk, CommandsBound, Active
<1>26. ASSUME Reboot PROVE TypeInv'
  <2>1. NoCommand \in Commands /\ NoCommand.pc = "gone"
    BY DEF NoCommand, Commands, PCs
  <2>2. faults' \in 0..MaxFaults
    BY <1>26, <1>O, BoundAssumption DEF Reboot, Fault
  <2>3. /\ cli' \in [Pids -> Commands] /\ CommandsBound'
        /\ entry' \in [Pids -> Entries] /\ EntriesBound'
    BY <1>26, <1>Z, <2>1 DEF Reboot, CommandsBound, EntriesBound, Active
  <2> QED
    BY <1>26, <1>O, <2>2, <2>3 DEF Reboot, TypeInv, TypeOK, disk
<1>27. ASSUME NEW c \in Containers, Remove(c) PROVE TypeInv'
  BY <1>27, <1>C, <1>E, <1>O, <1>Z
  DEF Remove, TypeInv, TypeOK, CommandsBound, EntriesBound, Active
<1>28. ASSUME NEW c \in Containers, UserUnmounts(c) PROVE TypeInv'
  BY <1>28, <1>C, <1>E, <1>O
  DEF UserUnmounts, TypeInv, TypeOK, disk, CommandsBound, EntriesBound, Active
<1>29. ASSUME UNCHANGED vars PROVE TypeInv'
  BY <1>29, <1>C, <1>E, <1>O
  DEF vars, TypeInv, TypeOK, CommandsBound, EntriesBound, Active
<1> QED
  BY <1>1, <1>2, <1>3, <1>4, <1>5, <1>6, <1>7, <1>8, <1>9, <1>10, <1>11, <1>12,
     <1>13, <1>14, <1>15, <1>16, <1>17, <1>18, <1>19, <1>20, <1>21, <1>22, <1>23,
     <1>24, <1>25, <1>26, <1>27, <1>28, <1>29, ConfigAssumption
  DEF Next, CommandStep, EntryStep

(* Every variable keeps to the values the code can give it, whatever users  *)
(* do, and command lines, crashes and reboots come in whatever order.       *)
THEOREM TypeCorrect == Spec => []TypeOK
<1>1. TypeInv => TypeOK
  BY DEF TypeInv
<1> QED
  BY <1>1, TypeInit, TypeNext, PTL DEF Spec

-----------------------------------------------------------------------------
(* Clean-up.  While a command works, the mounts of its container are those  *)
(* its program counter says; that nothing else touches them takes the users' *)
(* discipline, that each umount succeeds takes unrelated destinations.      *)
HasOverlay == {"mountVols", "clone", "setup", "wait", "cleanup"}

Expected(x) ==
    IF x.pc = "mountVols" THEN Stack(x.vols, 1, x.k - 1)
    ELSE IF x.pc \in {"clone", "setup", "wait"} THEN Stack(x.vols, 1, Len(x.vols))
    ELSE IF x.pc = "cleanup" THEN Stack(x.vols, x.k, Len(x.vols))
    ELSE <<>>

InBounds(x) ==
    /\ x.pc \in HasOverlay => x.root
    /\ x.pc \in {"mountVols", "cleanup"} => x.k <= Len(x.vols) + 1

OneCommand ==
    \A p, q \in Pids : Active(p) /\ Active(q) /\ cli[p].c = cli[q].c => p = q

AsExpected ==
    \A p \in Pids : Active(p) =>
        /\ InBounds(cli[p])
        /\ cli[p].c \notin premature => mtab[cli[p].c] = Expected(cli[p])

CleanInv == OneCommand /\ AsExpected /\ CleanWhenIdle

(* A step of one command that leaves the other commands and the mounts of   *)
(* the other containers alone needs to be looked at for itself only.        *)
LEMMA CleanLocal ==
    ASSUME TypeInv, CleanInv, NEW p \in Pids, Active(p),
           \A q \in Pids \ {p} : cli'[q] = cli[q],
           \A c \in Containers \ {cli[p].c} : mtab'[c] = mtab[c],
           premature \subseteq premature',
           cli'[p].pc # "gone" => cli'[p].c = cli[p].c /\ InBounds(cli'[p]),
           cli'[p].pc # "gone" /\ cli[p].c \notin premature' => mtab'[cli[p].c] = Expected(cli'[p]),
           cli'[p].pc = "gone" /\ cli[p].c \notin premature' => mtab'[cli[p].c] = <<>>
    PROVE  CleanInv'
<1> DEFINE c0 == cli[p].c
<1>1. OneCommand /\ AsExpected /\ CleanWhenIdle /\ CommandsBound
  BY DEF CleanInv, TypeInv
<1>2. \A q \in Pids \ {p} : Active(q)' <=> Active(q)
  BY DEF Active
<1>3. \A q \in Pids \ {p} : Active(q) => cli[q].c # c0
  BY <1>1 DEF OneCommand
<1>4. OneCommand'
  BY <1>1, <1>2, <1>3 DEF OneCommand, Active
<1>5. AsExpected'
  <2> SUFFICES ASSUME NEW q \in Pids, Active(q)'
               PROVE  /\ InBounds(cli'[q])
                      /\ cli'[q].c \notin premature' => mtab'[cli'[q].c] = Expected(cli'[q])
    BY DEF AsExpected
  <2>1. CASE q = p
    BY <2>1 DEF Active
  <2>2. CASE q # p
    <3>1. cli'[q] = cli[q] /\ Active(q) /\ cli[q].c # c0 /\ cli[q].c \in Containers
      BY <1>1, <1>2, <1>3, <2>2 DEF CommandsBound
    <3>2. mtab'[cli[q].c] = mtab[cli[q].c]
      BY <3>1
    <3> QED
      BY <1>1, <3>1, <3>2 DEF AsExpected
  <2> QED
    BY <2>1, <2>2
<1>6. CleanWhenIdle'
  <2> SUFFICES ASSUME NEW c \in Containers, Unattended(c)', c \notin premature'
               PROVE  mtab'[c] = <<>>
    BY DEF CleanWhenIdle
  <2>1. CASE c = c0
    <3>1. cli'[p].pc = "gone"
      BY <2>1 DEF Unattended, Active
    <3> QED
      BY <2>1, <3>1
  <2>2. CASE c # c0
    <3>1. Unattended(c)
      BY <1>2, <2>2 DEF Unattended
    <3> QED
      BY <1>1, <2>2, <3>1 DEF CleanWhenIdle
  <2> QED
    BY <2>1, <2>2
<1> QED
  BY <1>4, <1>5, <1>6 DEF CleanInv

(* The same for a step before the overlay is mounted, or after it is gone.  *)
LEMMA CleanQuiet ==
    ASSUME TypeInv, CleanInv, NEW p \in Pids, Active(p),
           \A q \in Pids \ {p} : cli'[q] = cli[q],
           UNCHANGED <<mtab, premature>>,
           cli[p].pc \notin HasOverlay,
           cli'[p].pc # "gone" => cli'[p].c = cli[p].c /\ cli'[p].pc \notin HasOverlay
    PROVE  CleanInv'
<1>1. cli[p].c \notin premature => mtab[cli[p].c] = <<>>
  BY DEF CleanInv, AsExpected, Expected, HasOverlay
<1>2. cli'[p].pc # "gone" => InBounds(cli'[p]) /\ Expected(cli'[p]) = <<>>
  BY DEF InBounds, Expected, HasOverlay
<1> QED
  BY <1>1, <1>2, CleanLocal

LEMMA CleanNext ==
    ASSUME Overlap = {}, \A v \in VolumeLists : PairwiseUnrelated(v)
    PROVE  TypeInv /\ CleanInv /\ [Next]_vars => CleanInv'
<1> SUFFICES ASSUME TypeInv, CleanInv, [Next]_vars PROVE CleanInv'
  OBVIOUS
<1>C. cli \in [Pids -> Commands] /\ CommandsBound /\ mtab \in [Containers -> Seq(Dests \cup {Root})]
  BY DEF TypeInv, TypeOK
<1>I. OneCommand /\ AsExpected /\ CleanWhenIdle
  BY DEF CleanInv
<1>X. \A p \in Pids : Active(p) =>
        /\ cli[p].c \in Containers /\ cli[p].vols \in VolumeLists
        /\ cli[p].vols \in Seq(Dests) /\ PairwiseUnrelated(cli[p].vols)
        /\ cli[p].k \in Nat \ {0} /\ Len(cli[p].vols) \in Nat
        /\ InBounds(cli[p])
        /\ cli[p].c \notin premature => mtab[cli[p].c] = Expected(cli[p])
  BY <1>C, <1>I, VolumeListType DEF CommandsBound, AsExpected
<1>G. NoCommand.pc = "gone"
  BY DEF NoCommand
<1>1. ASSUME NEW p \in Pids, NEW c \in Containers, NEW cmd \in {"run", "start"},
             NEW u \in Configs, Spawn(p, c, cmd, u)
      PROVE  CleanInv'
  <2>1. ~Active(p) /\ \A q \in Pids : Active(q) => cli[q].c # c
    BY <1>1 DEF Spawn, Exists, Busy
  <2>2. /\ cli'[p].pc = "check" /\ cli'[p].c = c /\ \A q \in Pids \ {p} : cli'[q] = cli[q]
        /\ UNCHANGED <<mtab, premature>>
    BY <1>1, <1>C DEF Spawn, history
  <2>3. c \notin premature => mtab[c] = <<>>
    BY <2>1, <1>I DEF CleanWhenIdle, Unattended
  <2>4. InBounds(cli'[p]) /\ Expected(cli'[p]) = <<>>
    BY <2>2 DEF InBounds, Expected, HasOverlay
  <2>5. OneCommand'
    BY <1>I, <2>1, <2>2 DEF OneCommand, Active
  <2>6. AsExpected'
    BY <1>I, <2>1, <2>2, <2>3, <2>4 DEF AsExpected, Active
  <2>7. CleanWhenIdle'
    <3> SUFFICES ASSUME NEW d \in Containers, Unattended(d)', d \notin premature'
                 PROVE  mtab'[d] = <<>>
      BY DEF CleanWhenIdle
    <3>1. Unattended(d)
      BY <2>1, <2>2 DEF Unattended, Active
    <3> QED
      BY <1>I, <2>2, <3>1 DEF CleanWhenIdle
  <2> QED
    BY <2>5, <2>6, <2>7 DEF CleanInv
<1>2. ASSUME NEW p \in Pids, RunCheck(p) PROVE CleanInv'
  <2>1. Active(p) /\ cli[p].pc \notin HasOverlay /\ UNCHANGED <<mtab, premature>>
    BY <1>2 DEF RunCheck, Active, HasOverlay, history
  <2>2. /\ \A q \in Pids \ {p} : cli'[q] = cli[q]
        /\ cli'[p].pc # "gone" => cli'[p].c = cli[p].c /\ cli'[p].pc \notin HasOverlay
    <3>1. CASE MayCreate(cli[p].c)
      <4>1. GotoFirst(p, "stale")
        BY <1>2, <3>1 DEF RunCheck
      <4> QED
        BY <1>C, <1>G, <4>1 DEF HasOverlay, Commands, Leave, GotoFirst
    <3>2. CASE ~MayCreate(cli[p].c)
      <4>1. Leave(p)
        BY <1>2, <3>2 DEF RunCheck
      <4> QED
        BY <1>C, <1>G, <4>1 DEF HasOverlay, Commands, Leave, GotoFirst
    <3> QED
      BY <1>2, <3>1, <3>2 DEF RunCheck
  <2> QED
    BY <2>1, <2>2, CleanQuiet
<1>3. ASSUME NEW p \in Pids, StartCheck(p) PROVE CleanInv'
  <2>1. Active(p) /\ cli[p].pc \notin HasOverlay /\ UNCHANGED <<mtab, premature>>
    BY <1>3 DEF StartCheck, Active, HasOverlay, history
  <2>2. /\ \A q \in Pids \ {p} : cli'[q] = cli[q]
        /\ cli'[p].pc # "gone" => cli'[p].c = cli[p].c /\ cli'[p].pc \notin HasOverlay
    <3>1. CASE Leave(p)
      BY <1>3, <1>C, <1>G, <3>1 DEF StartCheck, HasOverlay, Leave, Goto
    <3>2. CASE Goto(p, "refused")
      BY <1>3, <1>C, <1>G, <3>2 DEF StartCheck, HasOverlay, Leave, Goto
    <3>3. CASE Goto(p, "load")
      BY <1>3, <1>C, <1>G, <3>3 DEF StartCheck, HasOverlay, Leave, Goto
    <3> QED
      BY <1>3, <3>1, <3>2, <3>3 DEF StartCheck
  <2> QED
    BY <2>1, <2>2, CleanQuiet
<1>4. ASSUME NEW p \in Pids, Refuse(p) PROVE CleanInv'
  <2>1. Active(p) /\ cli[p].pc \notin HasOverlay /\ UNCHANGED <<mtab, premature>>
    BY <1>4 DEF Refuse, Active, HasOverlay, history
  <2>2. /\ \A q \in Pids \ {p} : cli'[q] = cli[q]
        /\ cli'[p].pc # "gone" => cli'[p].c = cli[p].c /\ cli'[p].pc \notin HasOverlay
    BY <1>4, <1>C, <1>G DEF Refuse, HasOverlay, Leave
  <2> QED
    BY <2>1, <2>2, CleanQuiet
<1>5. ASSUME NEW p \in Pids, Load(p) PROVE CleanInv'
  <2>1. Active(p) /\ cli[p].pc \notin HasOverlay /\ UNCHANGED <<mtab, premature>>
    BY <1>5 DEF Load, Active, HasOverlay, history
  <2>2. /\ \A q \in Pids \ {p} : cli'[q] = cli[q]
        /\ cli'[p].pc # "gone" => cli'[p].c = cli[p].c /\ cli'[p].pc \notin HasOverlay
    <3>1. CASE info[cli[p].c].valid
      <4>1. cli' = [cli EXCEPT ![p].pc = "points", ![p].vols = AllVolumes(info[cli[p].c].vols)]
        BY <1>5, <3>1 DEF Load
      <4> QED
        BY <1>C, <1>G, <4>1 DEF HasOverlay, Commands, Leave
    <3>2. CASE ~info[cli[p].c].valid
      <4>1. Leave(p)
        BY <1>5, <3>2 DEF Load
      <4> QED
        BY <1>C, <1>G, <4>1 DEF HasOverlay, Commands, Leave
    <3> QED
      BY <1>5, <3>1, <3>2 DEF Load
  <2> QED
    BY <2>1, <2>2, CleanQuiet
<1>6. ASSUME NEW p \in Pids, MakeDirs(p) PROVE CleanInv'
  <2>1. Active(p) /\ cli[p].pc \notin HasOverlay /\ UNCHANGED <<mtab, premature>>
    BY <1>6 DEF MakeDirs, Active, HasOverlay, history
  <2>2. /\ \A q \in Pids \ {p} : cli'[q] = cli[q]
        /\ cli'[p].pc # "gone" => cli'[p].c = cli[p].c /\ cli'[p].pc \notin HasOverlay
    BY <1>6, <1>C, <1>G DEF MakeDirs, HasOverlay, Goto
  <2> QED
    BY <2>1, <2>2, CleanQuiet
<1>7. ASSUME NEW p \in Pids, MakeDirsFails(p) PROVE CleanInv'
  <2>1. Active(p) /\ cli[p].pc \notin HasOverlay /\ UNCHANGED <<mtab, premature>>
    BY <1>7 DEF MakeDirsFails, Active, HasOverlay, history
  <2>2. /\ \A q \in Pids \ {p} : cli'[q] = cli[q]
        /\ cli'[p].pc # "gone" => cli'[p].c = cli[p].c /\ cli'[p].pc \notin HasOverlay
    BY <1>7, <1>C, <1>G DEF MakeDirsFails, HasOverlay, GotoFirst
  <2> QED
    BY <2>1, <2>2, CleanQuiet
<1>8. ASSUME NEW p \in Pids, WritePid(p) PROVE CleanInv'
  <2>1. Active(p) /\ cli[p].pc \notin HasOverlay /\ UNCHANGED <<mtab, premature>>
    BY <1>8 DEF WritePid, Active, HasOverlay, history
  <2>2. /\ \A q \in Pids \ {p} : cli'[q] = cli[q]
        /\ cli'[p].pc # "gone" => cli'[p].c = cli[p].c /\ cli'[p].pc \notin HasOverlay
    BY <1>8, <1>C, <1>G DEF WritePid, HasOverlay, Goto
  <2> QED
    BY <2>1, <2>2, CleanQuiet
<1>9. ASSUME NEW p \in Pids, MakePoints(p) PROVE CleanInv'
  BY <1>9, <1>C, CleanQuiet DEF MakePoints, Active, HasOverlay, history, GotoFirst
<1>10. ASSUME NEW p \in Pids, TruncInfo(p) PROVE CleanInv'
  <2>1. Active(p) /\ cli[p].pc \notin HasOverlay /\ UNCHANGED <<mtab, premature>>
    BY <1>10 DEF TruncInfo, Active, HasOverlay, history
  <2>2. /\ \A q \in Pids \ {p} : cli'[q] = cli[q]
        /\ cli'[p].pc # "gone" => cli'[p].c = cli[p].c /\ cli'[p].pc \notin HasOverlay
    BY <1>10, <1>C, <1>G DEF TruncInfo, HasOverlay, Goto
  <2> QED
    BY <2>1, <2>2, CleanQuiet
<1>11. ASSUME NEW p \in Pids, WriteInfo(p) PROVE CleanInv'
  <2>1. Active(p) /\ cli[p].pc \notin HasOverlay /\ UNCHANGED <<mtab, premature>>
    BY <1>11 DEF WriteInfo, Active, HasOverlay, history
  <2>2. /\ \A q \in Pids \ {p} : cli'[q] = cli[q]
        /\ cli'[p].pc # "gone" => cli'[p].c = cli[p].c /\ cli'[p].pc \notin HasOverlay
    BY <1>11, <1>C, <1>G DEF WriteInfo, HasOverlay
  <2> QED
    BY <2>1, <2>2, CleanQuiet
<1>12. ASSUME NEW p \in Pids, UnionMountRoot(p) PROVE CleanInv'
  <2>1. /\ Active(p)
        /\ cli[p].c \notin premature => mtab[cli[p].c] = <<>>
        /\ cli[p].c \in Containers /\ cli[p].vols \in Seq(Dests) /\ Len(cli[p].vols) \in Nat
    BY <1>12, <1>X DEF UnionMountRoot, Active, Expected
  <2>2. /\ cli'[p].pc = "mountVols" /\ cli'[p].k = 1 /\ cli'[p].root /\ cli'[p].c = cli[p].c
        /\ cli'[p].vols = cli[p].vols
        /\ \A q \in Pids \ {p} : cli'[q] = cli[q]
        /\ \A c \in Containers \ {cli[p].c} : mtab'[c] = mtab[c]
        /\ mtab'[cli[p].c] = Mount(mtab[cli[p].c], Root)
        /\ UNCHANGED premature
    BY <1>12, <1>C, <2>1 DEF UnionMountRoot, history, Commands
  <2>3. InBounds(cli'[p])
    BY <2>1, <2>2 DEF InBounds
  <2>4. Mount(<<>>, Root) = Expected(cli'[p])
    BY <2>1, <2>2, MountRootFirst DEF Expected
  <2>5. cli[p].c \notin premature' => mtab'[cli[p].c] = Expected(cli'[p])
    BY <2>1, <2>2, <2>4
  <2> QED
    BY <2>1, <2>2, <2>3, <2>5, CleanLocal
<1>13. ASSUME NEW p \in Pids, MountVolume(p) PROVE CleanInv'
  <2> DEFINE c == cli[p].c  vols == cli[p].vols  k == cli[p].k
  <2>1. /\ Active(p)
        /\ c \notin premature => mtab[c] = Stack(vols, 1, k - 1)
        /\ c \in Containers /\ vols \in Seq(Dests) /\ k \in 1..Len(vols) /\ Len(vols) \in Nat
        /\ cli[p].pc = "mountVols" /\ cli[p].root
    BY <1>13, <1>X DEF MountVolume, Active, Expected, InBounds, HasOverlay
  <2>2. CASE CanMount(mtab[c], vols[k])
    <3>1. /\ cli'[p].pc = "mountVols" /\ cli'[p].k = k + 1 /\ cli'[p].root
          /\ cli'[p].c = c /\ cli'[p].vols = vols
          /\ \A q \in Pids \ {p} : cli'[q] = cli[q]
          /\ \A d \in Containers \ {c} : mtab'[d] = mtab[d]
          /\ mtab'[c] = Mount(mtab[c], vols[k])
          /\ UNCHANGED premature
      BY <1>13, <1>C, <2>1, <2>2 DEF MountVolume, Commands
    <3>2. InBounds(cli'[p])
      BY <2>1, <3>1 DEF InBounds
    <3>3. Mount(Stack(vols, 1, k - 1), vols[k]) = Stack(vols, 1, k)
      BY <2>1, MountNext
    <3>4. (k + 1) - 1 = k
      BY <2>1
    <3>5. Expected(cli'[p]) = Stack(vols, 1, k)
      BY <3>1, <3>4 DEF Expected
    <3>6. c \notin premature' => mtab'[c] = Expected(cli'[p])
      BY <2>1, <3>1, <3>3, <3>5
    <3> QED
      BY <2>1, <3>1, <3>2, <3>6, CleanLocal
  <2>3. CASE ~CanMount(mtab[c], vols[k])
    <3>1. /\ cli'[p].pc = "gone" /\ \A q \in Pids \ {p} : cli'[q] = cli[q]
          /\ UNCHANGED mtab /\ premature' = premature \cup {c}
      BY <1>13, <1>C, <1>G, <2>3 DEF MountVolume, Leave
    <3> QED
      BY <2>1, <3>1, CleanLocal
  <2> QED
    BY <2>2, <2>3
<1>14. ASSUME NEW p \in Pids, MountVolumesDone(p) PROVE CleanInv'
  <2>1. /\ Active(p)
        /\ cli[p].c \notin premature => mtab[cli[p].c] = Stack(cli[p].vols, 1, cli[p].k - 1)
        /\ cli[p].root /\ cli[p].k - 1 = Len(cli[p].vols)
    BY <1>14, <1>X DEF MountVolumesDone, Active, Expected, InBounds, HasOverlay
  <2>2. /\ cli'[p].pc = "clone" /\ cli'[p].root /\ cli'[p].c = cli[p].c /\ cli'[p].vols = cli[p].vols
        /\ \A q \in Pids \ {p} : cli'[q] = cli[q]
        /\ UNCHANGED <<mtab, premature>>
    BY <1>14, <1>C, <2>1 DEF MountVolumesDone, Goto, history, Commands
  <2>3. InBounds(cli'[p]) /\ Expected(cli'[p]) = Stack(cli[p].vols, 1, Len(cli[p].vols))
    BY <2>2 DEF InBounds, Expected
  <2>4. cli[p].c \notin premature' => mtab'[cli[p].c] = Expected(cli'[p])
    BY <2>1, <2>2, <2>3
  <2> QED
    BY <2>1, <2>2, <2>3, <2>4, CleanLocal
<1>15. ASSUME NEW p \in Pids, NEW e \in Pids, Clone(p, e) PROVE CleanInv'
  <2>1. /\ Active(p) /\ cli[p].root
        /\ cli[p].c \notin premature => mtab[cli[p].c] = Stack(cli[p].vols, 1, Len(cli[p].vols))
    BY <1>15, <1>X DEF Clone, Active, Expected, InBounds, HasOverlay
  <2>2. /\ cli'[p].pc = "setup" /\ cli'[p].root /\ cli'[p].c = cli[p].c /\ cli'[p].vols = cli[p].vols
        /\ \A q \in Pids \ {p} : cli'[q] = cli[q]
        /\ UNCHANGED <<mtab, premature>>
    BY <1>15, <1>C, <2>1 DEF Clone, history, Commands
  <2>3. InBounds(cli'[p]) /\ Expected(cli'[p]) = Stack(cli[p].vols, 1, Len(cli[p].vols))
    BY <2>2 DEF InBounds, Expected
  <2>4. cli[p].c \notin premature' => mtab'[cli[p].c] = Expected(cli'[p])
    BY <2>1, <2>2, <2>3
  <2> QED
    BY <2>1, <2>2, <2>3, <2>4, CleanLocal
<1>16. ASSUME NEW p \in Pids, Setup(p) PROVE CleanInv'
  <2>1. /\ Active(p) /\ cli[p].root /\ cli[p].c \in Containers
        /\ cli[p].c \notin premature => mtab[cli[p].c] = Stack(cli[p].vols, 1, Len(cli[p].vols))
    BY <1>16, <1>X DEF Setup, Active, Expected, InBounds, HasOverlay
  <2>2. CASE entry[cli[p].child].st = "held"
    <3>1. /\ cli'[p].pc = "wait" /\ cli'[p].root /\ cli'[p].c = cli[p].c /\ cli'[p].vols = cli[p].vols
          /\ \A q \in Pids \ {p} : cli'[q] = cli[q]
          /\ UNCHANGED <<mtab, premature>>
      BY <1>16, <1>C, <2>1, <2>2 DEF Setup, Goto, Commands
    <3>2. InBounds(cli'[p]) /\ Expected(cli'[p]) = Stack(cli[p].vols, 1, Len(cli[p].vols))
      BY <3>1 DEF InBounds, Expected
    <3> QED
      BY <2>1, <3>1, <3>2, CleanLocal
  <2>3. CASE ~(entry[cli[p].child].st = "held")
    <3>1. /\ cli'[p].pc = "gone" /\ \A q \in Pids \ {p} : cli'[q] = cli[q]
          /\ UNCHANGED mtab /\ premature' = premature \cup {cli[p].c}
      BY <1>16, <1>C, <1>G, <2>3 DEF Setup, Leave
    <3> QED
      BY <2>1, <3>1, CleanLocal
  <2> QED
    BY <2>2, <2>3
<1>17. ASSUME NEW p \in Pids, Wait(p) PROVE CleanInv'
  <2>1. /\ Active(p) /\ cli[p].root /\ Len(cli[p].vols) \in Nat
        /\ cli[p].c \notin premature => mtab[cli[p].c] = Stack(cli[p].vols, 1, Len(cli[p].vols))
    BY <1>17, <1>X DEF Wait, Active, Expected, InBounds, HasOverlay
  <2>2. /\ cli'[p].pc = "cleanup" /\ cli'[p].k = 1 /\ cli'[p].root /\ cli'[p].c = cli[p].c
        /\ cli'[p].vols = cli[p].vols
        /\ \A q \in Pids \ {p} : cli'[q] = cli[q]
        /\ UNCHANGED <<mtab, premature>>
    BY <1>17, <1>C, <2>1 DEF Wait, history, Commands
  <2>3. InBounds(cli'[p]) /\ Expected(cli'[p]) = Stack(cli[p].vols, 1, Len(cli[p].vols))
    BY <2>1, <2>2 DEF InBounds, Expected
  <2> QED
    BY <2>1, <2>2, <2>3, CleanLocal
<1>18. ASSUME NEW p \in Pids, UmountVolume(p) PROVE CleanInv'
  <2> DEFINE c == cli[p].c  vols == cli[p].vols  k == cli[p].k  n == Len(vols)
  <2>1. /\ Active(p) /\ c \in Containers /\ vols \in Seq(Dests) /\ PairwiseUnrelated(vols)
        /\ k \in 1..n /\ n \in Nat /\ cli[p].pc \in Unmounting
        /\ c \notin premature => mtab[c] = Expected(cli[p])
        /\ InBounds(cli[p])
    BY <1>18, <1>X DEF UmountVolume, Active, Unmounting
  <2>2. /\ cli'[p].pc = cli[p].pc /\ cli'[p].k = k + 1 /\ cli'[p].root = cli[p].root
        /\ cli'[p].c = c /\ cli'[p].vols = vols
        /\ \A q \in Pids \ {p} : cli'[q] = cli[q]
        /\ \A d \in Containers \ {c} : mtab'[d] = mtab[d]
        /\ mtab'[c] = Umount(mtab[c], vols[k])
        /\ UNCHANGED premature
    BY <1>18, <1>C, <2>1 DEF UmountVolume, history, Commands
  <2>3. InBounds(cli'[p])
    BY <2>1, <2>2 DEF InBounds, Unmounting
  <2>4. Umount(Expected(cli[p]), vols[k]) = Expected(cli'[p])
    <3>1. CASE cli[p].pc = "cleanup"
      <4>1. Umount(Stack(vols, k, n), vols[k]) = Stack(vols, k + 1, n)
        BY <2>1, UmountFirst
      <4> QED
        BY <2>2, <3>1, <4>1 DEF Expected
    <3>2. CASE cli[p].pc # "cleanup"
      <4>1. Expected(cli[p]) = <<>> /\ Expected(cli'[p]) = <<>>
        BY <2>1, <2>2, <3>2 DEF Expected, Unmounting
      <4> QED
        BY <4>1, UmountNothing
    <3> QED
      BY <3>1, <3>2
  <2> HIDE DEF c, vols, k
  <2> QED
    BY <2>1, <2>2, <2>3, <2>4, CleanLocal DEF c, Active, Unmounting
<1>19. ASSUME NEW p \in Pids, UmountRoot(p) PROVE CleanInv'
  <2> DEFINE c == cli[p].c  vols == cli[p].vols
  <2>1. /\ Active(p) /\ c \in Containers /\ vols \in Seq(Dests) /\ cli[p].pc \in Unmounting
        /\ cli[p].k = Len(vols) + 1
        /\ c \notin premature => mtab[c] = Expected(cli[p])
        /\ InBounds(cli[p])
    BY <1>19, <1>X DEF UmountRoot, Active, Unmounting
  <2>2. /\ \A q \in Pids \ {p} : cli'[q] = cli[q]
        /\ \A d \in Containers \ {c} : mtab'[d] = mtab[d]
        /\ mtab'[c] = IF UmountsRoot(p) THEN Umount(mtab[c], Root) ELSE mtab[c]
        /\ UNCHANGED premature
    BY <1>19, <1>C, <2>1 DEF UmountRoot, history, Leave, Unmounting
  <2>3. /\ cli'[p].pc \in {"mkdirs", "dtor", "gone"}
        /\ cli'[p].pc # "gone" => cli'[p].c = c
    <3>1. CASE cli[p].pc = "stale"
      BY <1>19, <1>C, <3>1 DEF UmountRoot, Commands
    <3>2. CASE cli[p].pc = "cleanup"
      BY <1>19, <1>C, <3>2 DEF UmountRoot, Commands
    <3>3. CASE cli[p].pc = "dtor"
      BY <1>19, <1>C, <1>G, <3>3 DEF UmountRoot, Leave
    <3> QED
      BY <2>1, <3>1, <3>2, <3>3 DEF Unmounting
  <2>4. InBounds(cli'[p]) /\ Expected(cli'[p]) = <<>>
    BY <2>3 DEF InBounds, Expected, HasOverlay
  <2>5. c \notin premature => mtab'[c] = <<>>
    <3>1. CASE cli[p].pc = "cleanup"
      <4>1. UmountsRoot(p) /\ Expected(cli[p]) = Stack(vols, Len(vols) + 1, Len(vols))
        BY <2>1, <3>1 DEF UmountsRoot, InBounds, HasOverlay, Expected
      <4>2. Umount(Stack(vols, Len(vols) + 1, Len(vols)), Root) = <<>>
        BY <2>1, UmountBareRoot
      <4> QED
        BY <2>1, <2>2, <4>1, <4>2
    <3>2. CASE cli[p].pc # "cleanup"
      <4>1. Expected(cli[p]) = <<>>
        BY <2>1, <3>2 DEF Expected, Unmounting
      <4> QED
        BY <2>1, <2>2, <4>1, UmountNothing
    <3> QED
      BY <3>1, <3>2
  <2> HIDE DEF c
  <2> QED
    BY <2>1, <2>2, <2>3, <2>4, <2>5, CleanLocal DEF c
<1>20. ASSUME NEW e \in Pids, EntryStep(e) \/ KillHeld(e) PROVE CleanInv'
  <2>1. UNCHANGED <<cli, mtab, premature>>
    BY <1>20 DEF EntryStep, KillHeld, Enter, EnterFails, EntryExits, InitReaps, history
  <2> QED
    BY <1>I, <2>1
    DEF CleanInv, OneCommand, AsExpected, CleanWhenIdle, Unattended, Active
<1>21. ASSUME NEW p \in Pids, Crash(p) PROVE CleanInv'
  BY <1>21, <1>C, <1>G, CleanLocal DEF Crash, Leave
<1>22. ASSUME Reboot PROVE CleanInv'
  <2>1. /\ \A p \in Pids : cli'[p].pc = "gone"
        /\ \A c \in Containers : mtab'[c] = <<>>
    BY <1>22, <1>G DEF Reboot
  <2> QED
    BY <2>1 DEF CleanInv, OneCommand, AsExpected, CleanWhenIdle, Active
<1>23. ASSUME NEW c \in Containers, Remove(c) \/ UserUnmounts(c) PROVE CleanInv'
  <2>1. /\ UNCHANGED cli /\ mtab'[c] = <<>> /\ \A d \in Containers \ {c} : mtab'[d] = mtab[d]
        /\ \A d \in Containers \ {c} : d \in premature' <=> d \in premature
        /\ \A p \in Pids : Active(p) => cli[p].c # c
    BY <1>23, <1>C DEF Remove, UserUnmounts, Busy
  <2>2. AsExpected'
    BY <1>C, <1>I, <2>1 DEF AsExpected, Active, CommandsBound
  <2>3. CleanWhenIdle'
    BY <1>I, <2>1 DEF CleanWhenIdle, Unattended, Active
  <2> QED
    BY <1>I, <2>1, <2>2, <2>3 DEF CleanInv, OneCommand, Active
<1>24. ASSUME UNCHANGED vars PROVE CleanInv'
  BY <1>24, <1>I
  DEF vars, CleanInv, OneCommand, AsExpected, CleanWhenIdle, Unattended, Active
<1> QED
  BY <1>1, <1>2, <1>3, <1>4, <1>5, <1>6, <1>7, <1>8, <1>9, <1>10, <1>11, <1>12,
     <1>13, <1>14, <1>15, <1>16, <1>17, <1>18, <1>19, <1>20, <1>21, <1>22, <1>23,
     <1>24, ConfigAssumption
  DEF Next, CommandStep, EntryStep

(* Clean-up, for any number of containers, processes and volumes: when      *)
(* users wait for a container to end before they issue the next command for *)
(* it, and no two volumes lie below one another, a container without a      *)
(* command at work has no mount left on the host, unless a command died.    *)
THEOREM CleanUp ==
    ASSUME Overlap = {}, \A v \in VolumeLists : PairwiseUnrelated(v)
    PROVE  Spec => []CleanWhenIdle
<1>1. Init => CleanInv
  BY DEF Init, NoCommand, CleanInv, OneCommand, AsExpected, CleanWhenIdle, Active
<1>2. TypeInv /\ CleanInv /\ [Next]_vars => CleanInv'
  BY CleanNext
<1>3. CleanInv => CleanWhenIdle
  BY DEF CleanInv
<1> QED
  BY <1>1, <1>2, <1>3, TypeInit, TypeNext, PTL DEF Spec

=============================================================================
