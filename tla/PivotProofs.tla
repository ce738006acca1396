----------------------------- MODULE PivotProofs -----------------------------
(* Theorems about PivotRoot(), for any volumes, any number of sessions and   *)
(* left-over mounts, and either process killed at any call.                  *)
EXTENDS PivotRoot, SequenceTheorems, WellFoundedInduction, TLAPS

Points == Dests \cup {Root}

-----------------------------------------------------------------------------
LEMMA UmountSeq ==
    ASSUME NEW T \in Seq(Points), NEW d
    PROVE  Umount(T, d) \in Seq(Points)
<1>1. ASSUME NEW i \in 1..Len(T) PROVE Without(T, i) \in Seq(Points)
  <2>1. Len(T) - 1 \in Nat /\ \A j \in 1..(Len(T) - 1) : T[j] \in Points /\ T[j + 1] \in Points
    BY <1>1
  <2>2. Without(T, i) \in [1..(Len(T) - 1) -> Points]
    BY <2>1 DEF Without
  <2> QED
    BY <2>1, <2>2
<1> QED
  BY <1>1 DEF Umount

LEMMA StackFacts ==
    /\ Stack \in Seq(Points) /\ Len(Stack) = Len(Volumes) + 1 /\ Stack[1] = Root
    /\ \A i \in 1..Len(Volumes) : Stack[i + 1] = Volumes[i]
<1>1. Volumes \in Seq(Dests) /\ Volumes \in Seq(Points)
  BY PivotAssumption DEF Points
<1>2. <<Root>> \in Seq(Points) /\ Len(<<Root>>) = 1
  BY DEF Points
<1>3. <<Root>> \o Volumes \in Seq(Points)
  BY <1>1, <1>2
<1> QED
  BY <1>1, <1>2, <1>3 DEF Stack

(* Of the roots in a table that has one, one is the last.                   *)
LEMMA LastRoot ==
    ASSUME NEW R, NEW n \in Nat, R \subseteq 1..n, R # {}
    PROVE  \E i \in R : \A j \in R : j <= i
<1> DEFINE D == {m \in 0..n : \E i \in R : m = n - i}
<1>1. D \subseteq Nat /\ D # {}
  <2>1. PICK i \in R : TRUE
    OBVIOUS
  <2>2. i \in 1..n /\ n - i \in 0..n
    BY <2>1
  <2>3. n - i \in D /\ D \subseteq Nat
    BY <2>1, <2>2
  <2> HIDE DEF D
  <2> QED
    BY <2>3
<1>2. PICK m \in D : \A l \in D : m <= l
  <2> DEFINE Less == OpToRel(<, Nat)
  <2>1. \A l, m \in Nat : l < m => <<l, m>> \in Less
    BY DEF OpToRel
  <2>2. IsWellFoundedOn(Less, Nat)
    BY NatLessThanWellFounded
  <2> HIDE DEF D, Less
  <2>3. \E m \in D : \A l \in D : <<l, m>> \notin Less
    BY <1>1, <2>2, WFMin
  <2>4. PICK m \in D : \A l \in D : <<l, m>> \notin Less
    BY <2>3
  <2>5. ASSUME NEW l \in D PROVE m <= l
    <3>1. m \in Nat /\ l \in Nat
      BY <1>1
    <3>2. ~(l < m)
      BY <2>1, <2>4, <3>1
    <3> QED
      BY <3>1, <3>2
  <2> QED
    BY <2>5
<1>3. PICK i \in R : m = n - i
  BY <1>2
<1>4. ASSUME NEW j \in R PROVE j <= i
  <2>1. j \in 1..n /\ i \in 1..n /\ n - j \in 0..n
    BY <1>3, <1>4
  <2>2. n - j \in D
    BY <2>1
  <2>3. m <= n - j
    BY <1>2, <2>2
  <2> QED
    BY <1>3, <2>1, <2>3
<1> QED
  BY <1>3, <1>4

LEMMA InnerSeq ==
    ASSUME NEW T \in Seq(Points)
    PROVE  Inner(T) \in Seq(Points)
<1> DEFINE roots == {i \in 1..Len(T) : T[i] = Root}
           m == CHOOSE i \in roots : \A j \in roots : j <= i
<1>1. CASE roots = {}
  <2>1. Inner(T) = <<Root>>
    BY <1>1 DEF Inner
  <2> QED
    BY <2>1 DEF Points
<1>2. CASE roots # {}
  <2>1. m \in roots
    <3>1. roots \subseteq 1..Len(T) /\ Len(T) \in Nat
      OBVIOUS
    <3> HIDE DEF roots
    <3>2. \E i \in roots : \A j \in roots : j <= i
      BY <1>2, <3>1, LastRoot
    <3> QED
      BY <3>2
  <2>2. Inner(T) = SubSeq(T, m, Len(T))
    BY <1>2 DEF Inner
  <2> HIDE DEF m
  <2> QED
    BY <2>1, <2>2
<1> QED
  BY <1>1, <1>2

(* A table that ends in a root and the volumes on it.                       *)
EndsInStack(T) ==
    /\ Len(Stack) <= Len(T)
    /\ \A i \in 1..Len(Stack) : T[Len(T) - Len(Stack) + i] = Stack[i]

LEMMA StackAppended ==
    ASSUME NEW T \in Seq(Points)
    PROVE  T \o Stack \in Seq(Points) /\ EndsInStack(T \o Stack)
<1> DEFINE U == T \o Stack
<1>0. Stack \in Seq(Points) /\ Len(T) \in Nat /\ Len(Stack) \in Nat
  BY StackFacts
<1>1. /\ U \in Seq(Points) /\ Len(U) = Len(T) + Len(Stack)
      /\ \A i \in 1..(Len(T) + Len(Stack)) :
            U[i] = IF i <= Len(T) THEN T[i] ELSE Stack[i - Len(T)]
  BY <1>0, ConcatProperties
<1> HIDE DEF U
<1>2. ASSUME NEW i \in 1..Len(Stack) PROVE U[Len(U) - Len(Stack) + i] = Stack[i]
  <2>1. /\ Len(U) - Len(Stack) + i = Len(T) + i /\ Len(T) + i \in 1..(Len(T) + Len(Stack))
        /\ ~(Len(T) + i <= Len(T)) /\ (Len(T) + i) - Len(T) = i
    BY <1>0, <1>1
  <2> QED
    BY <1>1, <2>1
<1>3. Len(Stack) <= Len(U)
  BY <1>0, <1>1
<1> QED
  BY <1>1, <1>2, <1>3 DEF EndsInStack, U

(* With no volume mounted on "/", the last root is the one that the volumes *)
(* were mounted on.                                                         *)
LEMMA InnerIsStack ==
    ASSUME NEW T \in Seq(Points), EndsInStack(T), \A i \in 1..Len(Volumes) : Volumes[i] # Root
    PROVE  Inner(T) = Stack
<1> DEFINE roots == {i \in 1..Len(T) : T[i] = Root}
           n == Len(T) - Len(Volumes)
<1>1. /\ Len(T) \in Nat /\ Len(Volumes) \in Nat /\ Len(Stack) = Len(Volumes) + 1
      /\ Len(Stack) <= Len(T) /\ n \in 1..Len(T)
      /\ Stack \in Seq(Points)
  BY PivotAssumption, StackFacts DEF EndsInStack
<1>2. \A i \in 1..Len(Stack) : T[n - 1 + i] = Stack[i]
  <2>1. Len(T) - Len(Stack) = n - 1
    BY <1>1
  <2> QED
    BY <2>1 DEF EndsInStack
<1>3. T[n] = Root
  BY <1>1, <1>2, StackFacts
<1>4. ASSUME NEW i \in 1..Len(T), i > n PROVE T[i] # Root
  <2>1. i - n \in 1..Len(Volumes) /\ (i - n) + 1 \in 1..Len(Stack) /\ n - 1 + ((i - n) + 1) = i
    BY <1>1, <1>4
  <2>2. T[i] = Stack[(i - n) + 1] /\ Stack[(i - n) + 1] = Volumes[i - n]
    BY <1>2, <2>1, StackFacts
  <2> QED
    BY <2>1, <2>2
<1>5. (CHOOSE i \in roots : \A j \in roots : j <= i) = n
  <2>1. n \in roots /\ \A j \in roots : j \in 1..Len(T) /\ j <= n
    BY <1>1, <1>3, <1>4
  <2>2. \A i \in roots : (\A j \in roots : j <= i) => i = n
    BY <1>1, <2>1
  <2> HIDE DEF roots, n
  <2> QED
    BY <2>1, <2>2
<1>6. Inner(T) = SubSeq(T, n, Len(T))
  <2>1. roots # {}
    BY <1>1, <1>3
  <2> QED
    BY <1>5, <2>1 DEF Inner
<1> HIDE DEF n
<1>7. /\ SubSeq(T, n, Len(T)) \in Seq(Points)
      /\ Len(SubSeq(T, n, Len(T))) = Len(Stack)
      /\ \A i \in 1..Len(Stack) : SubSeq(T, n, Len(T))[i] = Stack[i]
  <2>1. SubSeq(T, n, Len(T)) \in Seq(Points) /\ Len(SubSeq(T, n, Len(T))) = Len(T) - n + 1
    BY <1>1
  <2>2. Len(T) - n + 1 = Len(Stack)
    BY <1>1 DEF n
  <2>3. \A i \in 1..Len(Stack) : SubSeq(T, n, Len(T))[i] = T[n + i - 1] /\ n + i - 1 = n - 1 + i
    BY <1>1, <2>1, <2>2
  <2> QED
    BY <1>2, <2>1, <2>2, <2>3
<1>8. SubSeq(T, n, Len(T)) = Stack
  BY <1>1, <1>7, SeqEqual
<1> QED
  BY <1>6, <1>8

-----------------------------------------------------------------------------
LEMMA PivotTypeInit == Init => TypeOK
<1>1. <<>> \in Seq(Dests \cup {Root})
  OBVIOUS
<1> QED
  BY <1>1 DEF Init, TypeOK, Calls

LEMMA PivotTypeNext == TypeOK /\ [Next]_vars => TypeOK'
<1> SUFFICES ASSUME TypeOK, [Next]_vars PROVE TypeOK'
  OBVIOUS
<1>T. /\ host \in Seq(Points) /\ child \in Seq(Points) /\ ours \in Seq(Points)
      /\ left \in Seq(Points) /\ shared \in BOOLEAN /\ hidden \in BOOLEAN /\ intact \in BOOLEAN
  BY DEF TypeOK, Points
<1>1. CASE Begin
  <2>1. host \o Stack \in Seq(Points)
    BY <1>T, StackAppended
  <2>2. /\ host' \in Seq(Points) /\ child' \in Seq(Points) /\ ours' \in Seq(Points)
        /\ left' \in Seq(Points)
    BY <1>1, <1>T, <2>1 DEF Begin
  <2>3. shared' \in BOOLEAN /\ hidden' \in BOOLEAN /\ intact' \in BOOLEAN
    BY <1>1, PivotAssumption DEF Begin
  <2>4. parent' = "waits" /\ pc' = "private" /\ UNCHANGED oldDir
    BY <1>1 DEF Begin
  <2> QED
    BY <2>2, <2>3, <2>4 DEF TypeOK, Points, Calls
<1>2. CASE Cleanup
  <2>1. Volumes \in Seq(Points) /\ <<Root>> \in Seq(Points)
    BY PivotAssumption DEF Points
  <2>2. Volumes \o <<Root>> \o Volumes \in Seq(Points)
    BY <2>1
  <2> QED
    BY <1>2, <2>2 DEF Cleanup, TypeOK, Points
<1>3. CASE UmountNext
  <2>1. Umount(host, Head(left)) \in Seq(Points) /\ Umount(ours, Head(left)) \in Seq(Points)
    BY <1>T, UmountSeq
  <2>2. Tail(left) \in Seq(Points)
    BY <1>3, <1>T DEF UmountNext
  <2> QED
    BY <1>3, <2>1, <2>2 DEF UmountNext, TypeOK, Points
<1>4. CASE ParentEnds \/ ParentKilled
  <2>1. <<>> \in Seq(Dests \cup {Root})
    OBVIOUS
  <2> QED
    BY <1>4, <2>1 DEF ParentEnds, ParentKilled, TypeOK
<1>5. ASSUME NEW d \in Dests \cup {Root}, HostUmounts(d) PROVE TypeOK'
  <2>1. /\ Umount(host, d) \in Seq(Points) /\ Umount(ours, d) \in Seq(Points)
        /\ Umount(child, d) \in Seq(Points)
    BY <1>T, UmountSeq
  <2> QED
    BY <1>5, <1>T, <2>1 DEF HostUmounts, TypeOK, Points
<1>6. CASE MakePrivate
  BY <1>6, <1>T DEF MakePrivate, TypeOK, Calls
<1>7. CASE BindNewRoot
  <2>1. Inner(child) \in Seq(Points)
    BY <1>T, InnerSeq
  <2>2. child \o Inner(child) \in Seq(Points) /\ host \o Inner(child) \in Seq(Points)
    BY <1>T, <2>1
  <2> QED
    BY <1>7, <2>2 DEF BindNewRoot, TypeOK, Points, Calls
<1>8. CASE RmdirOld \/ Mkdir \/ Pivot \/ Chdir \/ Detach \/ Rmdir
  BY <1>8, <1>T DEF RmdirOld, Mkdir, Pivot, Chdir, Detach, Rmdir, TypeOK, At, Calls
<1>9. CASE Fails \/ CommandWrites \/ ChildEnds
  BY <1>9 DEF Fails, CommandWrites, ChildEnds, At, Ends, TypeOK
<1>10. CASE UNCHANGED vars
  BY <1>10 DEF vars, TypeOK
<1> QED
  BY <1>1, <1>2, <1>3, <1>4, <1>5, <1>6, <1>7, <1>8, <1>9, <1>10 DEF Next

(* Every variable has the values the program can give it.                   *)
THEOREM PivotType == Spec => []TypeOK
BY PivotTypeInit, PivotTypeNext, PTL DEF Spec

-----------------------------------------------------------------------------
(* Once the first call was made the child's mounts are its own.             *)
PrivateInv == host = ours /\ (pc \notin {"none", "private"} => ~shared)

(* When mount(MS_PRIVATE) does not fail, nothing that PivotRoot() does      *)
(* reaches the host's mounts, wherever it is stopped.                       *)
THEOREM HostIsKept ==
    ASSUME "private" \notin MayFail
    PROVE  Spec => []HostKept
<1>1. Init => PrivateInv
  BY DEF Init, PrivateInv
<1>2. PrivateInv /\ [Next]_vars => PrivateInv'
  <2> SUFFICES ASSUME PrivateInv, [Next]_vars PROVE PrivateInv'
    OBVIOUS
  <2>1. CASE MakePrivate
    <3>1. shared' = FALSE /\ UNCHANGED <<host, ours>>
      BY <2>1 DEF MakePrivate
    <3> QED
      BY <3>1 DEF PrivateInv
  <2>2. CASE BindNewRoot
    <3>1. ~shared
      BY <2>2 DEF BindNewRoot, PrivateInv, At
    <3>2. UNCHANGED <<host, ours, shared>>
      BY <2>2, <3>1 DEF BindNewRoot
    <3> QED
      BY <3>1, <3>2 DEF PrivateInv
  <2>3. CASE RmdirOld \/ Mkdir \/ Pivot \/ Chdir \/ Detach \/ Rmdir
    <3>1. pc \notin {"none", "private"} /\ UNCHANGED <<host, ours, shared>>
      BY <2>3 DEF RmdirOld, Mkdir, Pivot, Chdir, Detach, Rmdir, At
    <3> QED
      BY <3>1 DEF PrivateInv
  <2>4. CASE Begin \/ Cleanup \/ UmountNext \/ ParentEnds \/ ParentKilled
    BY <2>4 DEF Begin, Cleanup, UmountNext, ParentEnds, ParentKilled, PrivateInv
  <2>5. CASE \/ \E d \in Dests \cup {Root} : HostUmounts(d)
             \/ Fails \/ CommandWrites \/ ChildEnds \/ UNCHANGED vars
    BY <2>5 DEF HostUmounts, Fails, CommandWrites, ChildEnds, Ends, vars, PrivateInv, At
  <2> QED
    BY <2>1, <2>2, <2>3, <2>4, <2>5 DEF Next
<1>3. PrivateInv => HostKept
  BY DEF PrivateInv, HostKept
<1> QED
  BY <1>1, <1>2, <1>3, PTL DEF Spec

(* Between rmdir() and mkdir() nobody makes the directory.                  *)
BlockInv == NeverBlocked /\ (pc = "mkdir" => oldDir # "empty") /\ oldDir \in {"none", "empty", "own"}

(* For any number of sessions, wherever each was killed and whichever of    *)
(* its calls failed: mkdir() finds no directory but one that the image or   *)
(* the command put files in.                                                *)
THEOREM NoSessionBlocksTheNext == Spec => []NeverBlocked
<1>1. Init => BlockInv
  BY DEF Init, BlockInv, NeverBlocked
<1>2. BlockInv /\ [Next]_vars => BlockInv'
  <2> SUFFICES ASSUME BlockInv, [Next]_vars PROVE BlockInv'
    OBVIOUS
  <2> USE DEF BlockInv, NeverBlocked, At
  <2>1. CASE RmdirOld
    BY <2>1 DEF RmdirOld
  <2>2. CASE Mkdir
    BY <2>2 DEF Mkdir
  <2>3. CASE Rmdir
    BY <2>3 DEF Rmdir
  <2>4. CASE MakePrivate \/ BindNewRoot \/ Pivot \/ Chdir \/ Detach
    BY <2>4 DEF MakePrivate, BindNewRoot, Pivot, Chdir, Detach
  <2>5. CASE Begin \/ Cleanup \/ UmountNext \/ ParentEnds \/ ParentKilled
    BY <2>5 DEF Begin, Cleanup, UmountNext, ParentEnds, ParentKilled
  <2>6. CASE \/ \E d \in Dests \cup {Root} : HostUmounts(d)
             \/ Fails \/ CommandWrites \/ ChildEnds \/ UNCHANGED vars
    BY <2>6 DEF HostUmounts, Fails, CommandWrites, ChildEnds, Ends, vars
  <2> QED
    BY <2>1, <2>2, <2>3, <2>4, <2>5, <2>6 DEF Next
<1>3. BlockInv => NeverBlocked
  BY DEF BlockInv
<1> QED
  BY <1>1, <1>2, <1>3, PTL DEF Spec

-----------------------------------------------------------------------------
(* Before and after it is bound to itself, the child's new root carries the *)
(* volumes, unless they were unmounted while its mounts were still shared.  *)
InsideInv == pc # "none" /\ intact => EndsInStack(child)

LEMMA StackShowsVolumes ==
    ASSUME \A i, j \in 1..Len(Volumes) : i < j => ~StrictlyBelow(Volumes[i], Volumes[j]),
           NEW i \in 1..Len(Volumes)
    PROVE  Visible(Stack, Volumes[i])
<1>1. Len(Volumes) \in Nat /\ Len(Stack) = Len(Volumes) + 1
  BY PivotAssumption, StackFacts
<1>2. i + 1 \in 1..Len(Stack) /\ Stack[i + 1] = Volumes[i]
  BY <1>1, StackFacts
<1>3. ASSUME NEW m \in 1..Len(Stack), m > i + 1 PROVE ~StrictlyBelow(Volumes[i], Stack[m])
  <2>1. m - 1 \in 1..Len(Volumes) /\ i < m - 1 /\ (m - 1) + 1 = m
    BY <1>1, <1>3
  <2>2. Stack[m] = Volumes[m - 1]
    BY <2>1, StackFacts
  <2> QED
    BY <2>1, <2>2
<1> QED
  BY <1>2, <1>3 DEF Visible

LEMMA InsideNext ==
    ASSUME \A i \in 1..Len(Volumes) : Volumes[i] # Root
    PROVE  TypeOK /\ InsideInv /\ [Next]_vars => InsideInv'
<1> SUFFICES ASSUME TypeOK, InsideInv, [Next]_vars PROVE InsideInv'
  OBVIOUS
<1>T. host \in Seq(Points) /\ child \in Seq(Points)
  BY DEF TypeOK, Points
<1>1. CASE Begin
  BY <1>1, <1>T, StackAppended DEF Begin, InsideInv
<1>2. CASE BindNewRoot
  <2>1. /\ pc = "bind" /\ UNCHANGED intact
        /\ child' = child \o Inner(child)
    BY <1>2 DEF BindNewRoot, At
  <2>2. CASE intact
    <3>1. EndsInStack(child)
      BY <2>1, <2>2 DEF InsideInv
    <3>2. Inner(child) = Stack
      BY <1>T, <3>1, InnerIsStack
    <3>3. EndsInStack(child \o Stack)
      BY <1>T, StackAppended
    <3> QED
      BY <2>1, <3>2, <3>3 DEF InsideInv
  <2>3. CASE ~intact
    BY <2>1, <2>3 DEF InsideInv
  <2> QED
    BY <2>2, <2>3
<1>3. ASSUME NEW d \in Dests \cup {Root}, HostUmounts(d) PROVE InsideInv'
  <2>1. CASE shared
    BY <1>3, <2>1 DEF HostUmounts, InsideInv
  <2>2. CASE ~shared
    BY <1>3, <2>2 DEF HostUmounts, InsideInv
  <2> QED
    BY <2>1, <2>2
<1>4. CASE MakePrivate \/ RmdirOld \/ Mkdir \/ Pivot \/ Chdir \/ Detach \/ Rmdir
  BY <1>4 DEF MakePrivate, RmdirOld, Mkdir, Pivot, Chdir, Detach, Rmdir, At, InsideInv
<1>5. CASE Cleanup \/ UmountNext \/ ParentEnds \/ ParentKilled
  BY <1>5 DEF Cleanup, UmountNext, ParentEnds, ParentKilled, InsideInv
<1>6. CASE Fails \/ CommandWrites \/ ChildEnds \/ UNCHANGED vars
  BY <1>6 DEF Fails, CommandWrites, ChildEnds, Ends, vars, InsideInv
<1> QED
  BY <1>1, <1>2, <1>3, <1>4, <1>5, <1>6 DEF Next

(* When no volume is mounted on "/" or listed before one that it lies in,   *)
(* the command finds each of them below its new root, whatever earlier      *)
(* sessions left mounted and whichever calls fail.                          *)
THEOREM VolumesAreInside ==
    ASSUME \A i \in 1..Len(Volumes) : Volumes[i] # Root,
           \A i, j \in 1..Len(Volumes) : i < j => ~StrictlyBelow(Volumes[i], Volumes[j])
    PROVE  Spec => []VolumesInside
<1>1. Init => InsideInv
  BY DEF Init, InsideInv
<1>2. TypeOK /\ InsideInv /\ [Next]_vars => InsideInv'
  BY InsideNext
<1>3. TypeOK /\ InsideInv => VolumesInside
  <2> SUFFICES ASSUME TypeOK, InsideInv, pc = "exec", intact, NEW i \in 1..Len(Volumes)
               PROVE  Visible(Inner(child), Volumes[i])
    BY DEF VolumesInside
  <2>1. child \in Seq(Points) /\ EndsInStack(child)
    BY DEF TypeOK, Points, InsideInv
  <2>2. Inner(child) = Stack
    BY <2>1, InnerIsStack
  <2> QED
    BY <2>2, StackShowsVolumes
<1> QED
  BY <1>1, <1>2, <1>3, PivotTypeInit, PivotTypeNext, PTL DEF Spec

=============================================================================
