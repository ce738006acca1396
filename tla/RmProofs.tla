------------------------------- MODULE RmProofs -------------------------------
(* Theorems about rm_container.sh, for any containers, names that grep takes *)
(* for the target's, volumes, sessions of the target before, and any         *)
(* interleaving with containers that are stopped or killed meanwhile.        *)
EXTENDS RmContainer, SequenceTheorems, TLAPS

Points == Dests \cup {Root}

Table(T) == T \in Seq(Points)

-----------------------------------------------------------------------------
LEMMA WithoutTable ==
    ASSUME NEW T, Table(T), NEW i \in 1..Len(T)
    PROVE  /\ Table(Without(T, i)) /\ Len(Without(T, i)) = Len(T) - 1
           /\ \A j \in 1..(Len(T) - 1) : Without(T, i)[j] \in {T[j], T[j + 1]}
<1>1. Len(T) - 1 \in Nat /\ \A j \in 1..(Len(T) - 1) : T[j] \in Points /\ T[j + 1] \in Points
  BY DEF Table
<1>2. Without(T, i) \in [1..(Len(T) - 1) -> Points]
  BY <1>1 DEF Without
<1> QED
  BY <1>1, <1>2 DEF Without, Table

LEMMA UmountTable ==
    ASSUME NEW T, Table(T), NEW d
    PROVE  Table(Umount(T, d))
BY WithoutTable DEF Umount

LEMMA StackTable == Table(Stack) /\ Len(Stack) = Len(Volumes) + 1 /\ Stack[1] = Root
                    /\ \A i \in 1..Len(Volumes) : Stack[i + 1] = Volumes[i]
<1>1. Volumes \in Seq(Dests) /\ Volumes \in Seq(Points)
  BY RmAssumption DEF Points
<1>2. <<Root>> \in Seq(Points) /\ Len(<<Root>>) = 1
  BY DEF Points
<1>3. Table(<<Root>> \o Volumes)
  BY <1>1, <1>2 DEF Table
<1> QED
  BY <1>1, <1>2, <1>3 DEF Stack

(* Something is mounted on the root of a container that runs, so that it    *)
(* cannot be detached.                                                      *)
LEMMA StackBusy ==
    ASSUME Volumes # <<>>, \A i \in 1..Len(Volumes) : Volumes[i] # Root
    PROVE  Umount(Stack, Root) = Stack
<1>1. Volumes \in Seq(Dests) /\ Len(Volumes) \in Nat \ {0}
  BY RmAssumption
<1>2. ASSUME NEW i \in 1..Len(Stack), Detachable(Stack, Root, i) PROVE FALSE
  <2>1. \A x : Related(x, Root)
    BY DEF Related, StrictlyBelow
  <2>2. i = Len(Stack)
    BY <1>1, <1>2, <2>1, StackTable DEF Detachable
  <2>3. Stack[i] = Volumes[Len(Volumes)] /\ Len(Volumes) \in 1..Len(Volumes)
    BY <1>1, <2>2, StackTable
  <2> QED
    BY <1>2, <2>3 DEF Detachable
<1> QED
  BY <1>2 DEF Umount

-----------------------------------------------------------------------------
LEMMA RmTypeInit == Init => TypeOK
<1> SUFFICES ASSUME Init PROVE TypeOK
  OBVIOUS
<1>1. Stack \in Seq(Points) /\ <<>> \in Seq(Points)
  BY StackTable DEF Table
<1>2. mtab \in [Containers -> Seq(Points)] /\ listed \in [Matched -> Seq(Points)]
  BY <1>1 DEF Init
<1>3. 1 \in 1..(2 * Len(Volumes) + 1)
  BY RmAssumption
<1>4. /\ k \in [Containers -> 1..(2 * Len(Volumes) + 1)]
      /\ status \in [Containers -> {"running", "stopping", "stopped"}]
  BY <1>3 DEF Init
<1> QED
  BY <1>2, <1>4 DEF Init, TypeOK, Points

(* What CleansUp() goes through.                                            *)
LEMMA CleanupOrder ==
    LET order == Volumes \o <<Root>> \o Volumes
        n == Len(Volumes)
    IN  /\ Len(order) = 2 * n + 1
        /\ \A i \in 1..n : order[i] = Volumes[i]
        /\ order[n + 1] = Root
<1> DEFINE n == Len(Volumes)  A == Volumes \o <<Root>>
<1>1. Volumes \in Seq(Points) /\ <<Root>> \in Seq(Points) /\ Len(<<Root>>) = 1 /\ n \in Nat
  BY RmAssumption DEF Points
<1>2. /\ A \in Seq(Points) /\ Len(A) = n + 1
      /\ \A i \in 1..(n + 1) : A[i] = IF i <= n THEN Volumes[i] ELSE <<Root>>[i - n]
  BY <1>1, ConcatProperties
<1>a. Len(A) = n + 1 /\ A \in Seq(Points)
  BY <1>2
<1> HIDE DEF A
<1>b. /\ Len(A \o Volumes) = Len(A) + Len(Volumes)
      /\ \A i \in 1..(Len(A) + Len(Volumes)) :
            (A \o Volumes)[i] = IF i <= Len(A) THEN A[i] ELSE Volumes[i - Len(A)]
  BY <1>1, <1>a, ConcatProperties
<1>3. /\ Len(A \o Volumes) = (n + 1) + n
      /\ \A i \in 1..((n + 1) + n) : (A \o Volumes)[i] = IF i <= n + 1 THEN A[i] ELSE Volumes[i - (n + 1)]
  BY <1>a, <1>b
<1>4. <<Root>>[(n + 1) - n] = Root
  BY <1>1
<1>5. \A i \in 1..n : (A \o Volumes)[i] = Volumes[i]
  BY <1>1, <1>2, <1>3
<1>6. (A \o Volumes)[n + 1] = Root
  BY <1>1, <1>2, <1>3, <1>4
<1> QED
  BY <1>1, <1>3, <1>5, <1>6 DEF A

LEMMA RmTypeNext == TypeOK /\ [Next]_vars => TypeOK'
<1> SUFFICES ASSUME TypeOK, [Next]_vars PROVE TypeOK'
  OBVIOUS
<1>T. /\ mtab \in [Containers -> Seq(Points)]
      /\ status \in [Containers -> {"running", "stopping", "stopped"}]
      /\ k \in [Containers -> 1..(2 * Len(Volumes) + 1)]
      /\ listed \in [Matched -> Seq(Points)] /\ Matched \subseteq Containers
  BY RmAssumption DEF TypeOK, Points
<1>1. CASE List
  <2>1. listed' \in [Matched -> Seq(Points)]
    BY <1>1, <1>T DEF List
  <2> QED
    BY <1>1, <2>1 DEF List, TypeOK, Points
<1>2. ASSUME NEW c \in Matched, UmountNext(c) PROVE TypeOK'
  <2>1. Umount(mtab[c], Head(listed[c])) \in Seq(Points)
    BY <1>T, UmountTable DEF Table
  <2>2. Tail(listed[c]) \in Seq(Points)
    BY <1>2, <1>T DEF UmountNext
  <2>3. mtab' \in [Containers -> Seq(Points)] /\ listed' \in [Matched -> Seq(Points)]
    BY <1>2, <1>T, <2>1, <2>2 DEF UmountNext
  <2> QED
    BY <1>2, <2>3 DEF UmountNext, TypeOK, Points
<1>3. ASSUME NEW c \in Matched, UmountFails(c) PROVE TypeOK'
  BY <1>3 DEF UmountFails, TypeOK
<1>4. CASE UmountsDone
  BY <1>4 DEF UmountsDone, TypeOK
<1>5. CASE RmRf
  BY <1>5 DEF RmRf, TypeOK
<1>6. ASSUME NEW c \in Containers, Stops(c) PROVE TypeOK'
  <2>1. status' \in [Containers -> {"running", "stopping", "stopped"}]
    BY <1>6, <1>T DEF Stops
  <2> QED
    BY <1>6, <2>1 DEF Stops, TypeOK
<1>7. ASSUME NEW c \in Containers, CleansUp(c) PROVE TypeOK'
  <2> DEFINE order == Volumes \o <<Root>> \o Volumes
  <2>1. Len(order) = 2 * Len(Volumes) + 1 /\ Len(Volumes) \in Nat
    BY RmAssumption, CleanupOrder
  <2>2. Umount(mtab[c], order[k[c]]) \in Seq(Points)
    BY <1>T, <2>1, UmountTable DEF Table
  <2>3. mtab' \in [Containers -> Seq(Points)]
    BY <1>7, <1>T, <2>2 DEF CleansUp
  <2>4. /\ k' \in [Containers -> 1..(2 * Len(Volumes) + 1)]
        /\ status' \in [Containers -> {"running", "stopping", "stopped"}]
    <3>1. CASE k[c] < Len(order)
      <4>1. k' = [k EXCEPT ![c] = @ + 1] /\ UNCHANGED status
        BY <1>7, <3>1 DEF CleansUp
      <4>2. k[c] + 1 \in 1..(2 * Len(Volumes) + 1)
        BY <1>T, <2>1, <3>1
      <4> QED
        BY <1>T, <4>1, <4>2
    <3>2. CASE ~(k[c] < Len(order))
      <4>1. status' = [status EXCEPT ![c] = "stopped"] /\ k' = [k EXCEPT ![c] = 1]
        BY <1>7, <3>2 DEF CleansUp
      <4> QED
        BY <1>T, <2>1, <4>1
    <3> QED
      BY <3>1, <3>2
  <2> QED
    BY <1>7, <2>3, <2>4 DEF CleansUp, TypeOK, Points
<1>8. ASSUME NEW c \in Containers, Dies(c) PROVE TypeOK'
  <2>1. 1 \in 1..(2 * Len(Volumes) + 1)
    BY RmAssumption
  <2>2. /\ k' \in [Containers -> 1..(2 * Len(Volumes) + 1)]
        /\ status' \in [Containers -> {"running", "stopping", "stopped"}]
    BY <1>8, <1>T, <2>1 DEF Dies
  <2> QED
    BY <1>8, <2>2 DEF Dies, TypeOK
<1>9. CASE Starts
  <2>1. mtab[Target] \o Stack \in Seq(Points)
    BY <1>T, StackTable, RmAssumption DEF Table
  <2>2. /\ mtab' \in [Containers -> Seq(Points)]
        /\ status' \in [Containers -> {"running", "stopping", "stopped"}]
    BY <1>9, <1>T, <2>1 DEF Starts
  <2> QED
    BY <1>9, <2>2 DEF Starts, TypeOK, Points
<1>10. CASE UNCHANGED vars
  BY <1>10 DEF vars, TypeOK
<1> QED
  BY <1>1, <1>2, <1>3, <1>4, <1>5, <1>6, <1>7, <1>8, <1>9, <1>10 DEF Next, Script

(* Every variable has the values the script and the commands can give it.   *)
THEOREM RmType == Spec => []TypeOK
BY RmTypeInit, RmTypeNext, PTL DEF Spec

-----------------------------------------------------------------------------
(* Why no mount of a running container is detached: if it is in the listing *)
(* at all, then with its root first.                                        *)
KeptInv ==
    \A c \in Others : status[c] = "running" =>
        /\ mtab[c] = Stack
        /\ c \in Matched => listed[c] \in {<<>>, Stack}

LEMMA KeptNext ==
    ASSUME Volumes # <<>>, \A i \in 1..Len(Volumes) : Volumes[i] # Root
    PROVE  TypeOK /\ KeptInv /\ [Next]_vars => KeptInv'
<1> SUFFICES ASSUME TypeOK, KeptInv, [Next]_vars PROVE KeptInv'
  OBVIOUS
<1>T. /\ mtab \in [Containers -> Seq(Points)] /\ listed \in [Matched -> Seq(Points)]
      /\ status \in [Containers -> {"running", "stopping", "stopped"}]
  BY DEF TypeOK, Points
<1>1. CASE List
  BY <1>1, <1>T DEF List, KeptInv
<1>2. ASSUME NEW c \in Matched, UmountNext(c) PROVE KeptInv'
  <2>1. c \in Others => status[c] # "running"
    <3>1. Head(Stack) = Root
      BY StackTable DEF Stack, Table
    <3> QED
      BY <1>2, <3>1, StackBusy DEF UmountNext, KeptInv
  <2> QED
    BY <1>2, <1>T, <2>1 DEF UmountNext, KeptInv
<1>3. ASSUME NEW c \in Containers, Stops(c) \/ CleansUp(c) \/ Dies(c) PROVE KeptInv'
  <2>1. UNCHANGED listed /\ \A d \in Containers \ {c} : status'[d] = status[d] /\ mtab'[d] = mtab[d]
    BY <1>3, <1>T DEF Stops, CleansUp, Dies
  <2>2. status'[c] # "running"
    BY <1>3, <1>T DEF Stops, CleansUp, Dies
  <2> QED
    BY <2>1, <2>2 DEF KeptInv, Others
<1>4. CASE UNCHANGED <<mtab, status, listed>>
  BY <1>4 DEF KeptInv
<1>6. CASE Starts
  BY <1>6, <1>T DEF Starts, KeptInv, Others
<1>5. ASSUME \/ \E c \in Matched : UmountFails(c)
             \/ UmountsDone \/ RmRf \/ UNCHANGED vars
      PROVE  UNCHANGED <<mtab, status, listed>>
  BY <1>5 DEF UmountFails, UmountsDone, RmRf, vars
<1> QED
  BY <1>1, <1>2, <1>3, <1>4, <1>5, <1>6 DEF Next, Script

(* While a container has something mounted on its root, as every container  *)
(* has the files for name resolution, the script leaves the mounts of those *)
(* that run alone, whatever their names.                                    *)
THEOREM OthersAreKept ==
    ASSUME Volumes # <<>>, \A i \in 1..Len(Volumes) : Volumes[i] # Root
    PROVE  Spec => []OthersKept
<1>1. Init => KeptInv
  BY RmAssumption DEF Init, KeptInv, Others
<1>2. TypeOK /\ KeptInv /\ [Next]_vars => KeptInv'
  BY KeptNext
<1>3. KeptInv => OthersKept
  BY DEF KeptInv, OthersKept, Others
<1> QED
  BY <1>1, <1>2, <1>3, RmTypeInit, RmTypeNext, PTL DEF Spec

-----------------------------------------------------------------------------
(* The root with the volumes from the i-th on: what the first pass of       *)
(* Cleanup() leaves while it is at the i-th.                                *)
Remaining(i) ==
    [j \in 1..(Len(Volumes) - i + 2) |-> IF j = 1 THEN Root ELSE Volumes[i + j - 2]]

LEMMA RemainingAll == Remaining(1) = Stack
<1>1. Len(Volumes) \in Nat /\ Len(Volumes) - 1 + 2 = Len(Volumes) + 1
  BY RmAssumption
<1>2. Stack \in [1..(Len(Volumes) + 1) -> Points]
  BY <1>1, StackTable DEF Table
<1>3. ASSUME NEW j \in 1..(Len(Volumes) + 1)
      PROVE  Stack[j] = IF j = 1 THEN Root ELSE Volumes[1 + j - 2]
  <2>1. CASE j = 1
    BY <2>1, StackTable
  <2>2. CASE j # 1
    <3>1. j - 1 \in 1..Len(Volumes) /\ (j - 1) + 1 = j /\ 1 + j - 2 = j - 1
      BY <1>1, <2>2
    <3> QED
      BY <2>2, <3>1, StackTable
  <2> QED
    BY <2>1, <2>2
<1> QED
  BY <1>1, <1>2, <1>3 DEF Remaining

(* A volume is unmounted from below the unrelated ones mounted after it.    *)
LEMMA RemainingUmount ==
    ASSUME PairwiseUnrelated(Volumes), NEW i \in 1..Len(Volumes)
    PROVE  Umount(Remaining(i), Volumes[i]) = Remaining(i + 1)
<1> DEFINE n == Len(Volumes)  T == Remaining(i)  d == Volumes[i]
<1>1. n \in Nat /\ i \in 1..n /\ n - i + 2 \in Nat
  BY RmAssumption
<1>2. /\ DOMAIN T = 1..(n - i + 2) /\ Len(T) = n - i + 2
      /\ T[1] = Root /\ \A j \in 2..(n - i + 2) : T[j] = Volumes[i + j - 2]
  <2>1. T \in [1..(n - i + 2) -> Points]
    <3>1. \A j \in 2..(n - i + 2) : i + j - 2 \in 1..n
      BY <1>1
    <3>2. \A j \in 1..n : Volumes[j] \in Points
      BY RmAssumption DEF Points
    <3> QED
      BY <1>1, <3>1, <3>2 DEF Remaining, Points
  <2>2. T \in Seq(Points) /\ Len(T) = n - i + 2
    BY <1>1, <2>1
  <2> QED
    BY <1>1, <2>1, <2>2 DEF Remaining
<1> HIDE DEF T
<1>3. T[2] = d /\ 2 \in 1..Len(T)
  BY <1>1, <1>2
<1>4. \A j \in 1..Len(T) : j > 2 => ~Related(T[j], d)
  <2> SUFFICES ASSUME NEW j \in 1..Len(T), j > 2 PROVE ~Related(T[j], d)
    OBVIOUS
  <2>1. T[j] = Volumes[i + j - 2] /\ i + j - 2 \in 1..n /\ i + j - 2 # i
    BY <1>1, <1>2
  <2> QED
    BY <1>1, <2>1 DEF PairwiseUnrelated
<1>5. Detachable(T, d, 2)
  BY <1>3, <1>4 DEF Detachable
<1>6. ASSUME NEW j \in 1..Len(T), Detachable(T, d, j) PROVE j = 2
  <2>1. Related(d, d)
    BY DEF Related
  <2>2. ~(j < 2) /\ ~(j > 2)
    BY <1>2, <1>3, <1>4, <1>6, <2>1 DEF Detachable
  <2> QED
    BY <1>2, <2>2
<1>7. (CHOOSE j \in 1..Len(T) : Detachable(T, d, j)) = 2
  BY <1>3, <1>5, <1>6
<1>8. Without(T, 2) = Remaining(i + 1)
  <2>1. Len(T) - 1 = n - (i + 1) + 2
    BY <1>1, <1>2
  <2>2. \A j \in 1..(Len(T) - 1) :
          (IF j < 2 THEN T[j] ELSE T[j + 1]) = (IF j = 1 THEN Root ELSE Volumes[(i + 1) + j - 2])
    BY <1>1, <1>2
  <2> QED
    BY <2>1, <2>2 DEF Without, Remaining
<1> QED
  BY <1>3, <1>5, <1>7, <1>8 DEF Umount, T

LEMMA RootUmount == Umount(Remaining(Len(Volumes) + 1), Root) = <<>>
<1> DEFINE T == Remaining(Len(Volumes) + 1)
<1>1. T = [j \in 1..1 |-> Root]
  <2>1. Len(Volumes) - (Len(Volumes) + 1) + 2 = 1
    BY RmAssumption
  <2> QED
    BY <2>1 DEF Remaining
<1> HIDE DEF T
<1>2. T \in Seq({Root}) /\ Len(T) = 1 /\ T[1] = Root
  BY <1>1
<1>3. Detachable(T, Root, 1)
  BY <1>2 DEF Detachable
<1>4. (CHOOSE j \in 1..Len(T) : Detachable(T, Root, j)) = 1
  BY <1>2, <1>3
<1>5. Without(T, 1) = <<>>
  BY <1>2 DEF Without
<1>6. \E j \in 1..Len(T) : Detachable(T, Root, j)
  BY <1>2, <1>3
<1>7. Umount(T, Root) = <<>>
  BY <1>4, <1>5, <1>6, Zenon DEF Umount
<1> QED
  BY <1>7 DEF T

(* What is mounted of a target none of whose commands was killed.           *)
TableInOrder ==
    /\ status[Target] = "running" => mtab[Target] = Stack
    /\ status[Target] = "stopping" =>
         mtab[Target] = IF k[Target] <= Len(Volumes) + 1 THEN Remaining(k[Target]) ELSE <<>>
    /\ status[Target] = "stopped" => mtab[Target] = <<>>

SparedInv ==
    /\ pc # "list" => status[Target] = "stopped"
    /\ status[Target] # "stopping" => k[Target] = 1
    /\ Target \notin premature => TableInOrder /\ HostSpared

LEMMA SparedNext ==
    ASSUME PairwiseUnrelated(Volumes)
    PROVE  TypeOK /\ SparedInv /\ [Next]_vars => SparedInv'
<1> SUFFICES ASSUME TypeOK, SparedInv, [Next]_vars PROVE SparedInv'
  OBVIOUS
<1> DEFINE n == Len(Volumes)
<1>T. /\ mtab \in [Containers -> Seq(Points)] /\ Target \in Containers /\ n \in Nat
      /\ k \in [Containers -> 1..(2 * n + 1)]
      /\ status \in [Containers -> {"running", "stopping", "stopped"}]
  BY RmAssumption DEF TypeOK, Points
<1>1. CASE List
  BY <1>1 DEF List, SparedInv, TableInOrder, HostSpared
<1>2. ASSUME NEW c \in Matched, UmountNext(c) PROVE SparedInv'
  <2>1. status[Target] = "stopped" /\ UNCHANGED <<status, k, host, pc, premature>>
    BY <1>2 DEF UmountNext, SparedInv
  <2>2. Target \notin premature => mtab'[Target] = <<>>
    <3> SUFFICES ASSUME Target \notin premature PROVE mtab'[Target] = <<>>
      OBVIOUS
    <3>1. mtab[Target] = <<>>
      BY <2>1 DEF SparedInv, TableInOrder
    <3>2. c # Target
      BY <1>2, <3>1 DEF UmountNext, Umount
    <3> QED
      BY <1>2, <1>T, <3>1, <3>2 DEF UmountNext
  <2> QED
    BY <2>1, <2>2 DEF SparedInv, TableInOrder, HostSpared
<1>3. ASSUME \/ \E c \in Matched : UmountFails(c)
             \/ UmountsDone
      PROVE  SparedInv'
  BY <1>3 DEF UmountFails, UmountsDone, SparedInv, TableInOrder, HostSpared
<1>4. CASE RmRf
  <2>1. status[Target] = "stopped" /\ UNCHANGED <<status, mtab, k, premature>>
    BY <1>4 DEF RmRf, SparedInv
  <2>2. Target \notin premature => UNCHANGED host
    <3>1. Target \notin premature => Emptied(Target) = {}
      BY <2>1 DEF SparedInv, TableInOrder, Emptied, Visible
    <3> QED
      BY <1>4, <3>1 DEF RmRf
  <2> QED
    BY <2>1, <2>2 DEF SparedInv, TableInOrder, HostSpared
<1>5. CASE Starts
  <2>1. /\ pc = "list" /\ status[Target] = "stopped" /\ status'[Target] = "running"
        /\ mtab'[Target] = mtab[Target] \o Stack /\ UNCHANGED <<k, host, pc, premature>>
    BY <1>5, <1>T DEF Starts
  <2>2. <<>> \o Stack = Stack
    BY StackTable DEF Table
  <2> QED
    BY <2>1, <2>2 DEF SparedInv, TableInOrder, HostSpared
<1>6. ASSUME NEW c \in Containers, c # Target, Stops(c) \/ CleansUp(c) \/ Dies(c)
      PROVE  SparedInv'
  <2>1. /\ status'[Target] = status[Target] /\ mtab'[Target] = mtab[Target]
        /\ k'[Target] = k[Target] /\ UNCHANGED <<host, pc>>
        /\ Target \in premature <=> Target \in premature'
    BY <1>6, <1>T DEF Stops, CleansUp, Dies
  <2> QED
    BY <2>1 DEF SparedInv, TableInOrder, HostSpared
<1>7. CASE Stops(Target)
  <2>1. /\ status[Target] = "running" /\ status'[Target] = "stopping"
        /\ UNCHANGED <<mtab, k, host, pc, premature>>
    BY <1>7, <1>T DEF Stops
  <2>2. k[Target] = 1 /\ 1 <= Len(Volumes) + 1 /\ pc = "list"
    BY <1>T, <2>1 DEF SparedInv
  <2> QED
    BY <2>1, <2>2, RemainingAll DEF SparedInv, TableInOrder, HostSpared
<1>8. CASE CleansUp(Target)
  <2> DEFINE order == Volumes \o <<Root>> \o Volumes
             i == k[Target]
  <2>1. /\ status[Target] = "stopping" /\ pc = "list" /\ UNCHANGED <<host, pc, premature>>
        /\ mtab'[Target] = Umount(mtab[Target], order[i])
        /\ i \in 1..(2 * n + 1)
    BY <1>8, <1>T DEF CleansUp, SparedInv
  <2>2. IF i < 2 * n + 1 THEN k'[Target] = i + 1 /\ status'[Target] = "stopping"
                         ELSE k'[Target] = 1 /\ status'[Target] = "stopped"
    <3>1. Len(order) = 2 * n + 1
      BY CleanupOrder
    <3> QED
      BY <1>8, <1>T, <2>1, <3>1 DEF CleansUp
  <2>3. Target \notin premature =>
          mtab'[Target] = IF i + 1 <= n + 1 THEN Remaining(i + 1) ELSE <<>>
    <3> SUFFICES ASSUME Target \notin premature
                 PROVE  mtab'[Target] = IF i + 1 <= n + 1 THEN Remaining(i + 1) ELSE <<>>
      OBVIOUS
    <3>1. mtab[Target] = IF i <= n + 1 THEN Remaining(i) ELSE <<>>
      BY <2>1 DEF SparedInv, TableInOrder
    <3> HIDE DEF i, order
    <3>2. CASE i <= n
      <4>1. i \in 1..n /\ order[i] = Volumes[i]
        BY <2>1, <3>2, CleanupOrder DEF order
      <4> QED
        BY <1>T, <2>1, <3>1, <3>2, <4>1, RemainingUmount
    <3>3. CASE i = n + 1
      <4>1. order[i] = Root
        BY <3>3, CleanupOrder DEF order
      <4> QED
        BY <1>T, <2>1, <3>1, <3>3, <4>1, RootUmount
    <3>4. CASE i > n + 1
      <4>1. Umount(<<>>, order[i]) = <<>>
        BY DEF Umount
      <4> QED
        BY <1>T, <2>1, <3>1, <3>4, <4>1
    <3> QED
      BY <1>T, <2>1, <3>2, <3>3, <3>4
  <2>4. i = 2 * n + 1 /\ i + 1 <= n + 1 => FALSE
    BY <1>T, <2>1
  <2> HIDE DEF i
  <2> QED
    BY <1>T, <2>1, <2>2, <2>3, <2>4 DEF SparedInv, TableInOrder, HostSpared
<1>9. CASE Dies(Target)
  <2>1. status'[Target] = "stopped" /\ k'[Target] = 1 /\ Target \in premature'
    BY <1>9, <1>T DEF Dies
  <2> QED
    BY <2>1 DEF SparedInv
<1>10. CASE UNCHANGED vars
  BY <1>10 DEF vars, SparedInv, TableInOrder, HostSpared
<1> QED
  BY <1>1, <1>2, <1>3, <1>4, <1>5, <1>6, <1>7, <1>8, <1>9, <1>10 DEF Next, Script

(* Whatever the number of volumes, of sessions before and of names that     *)
(* grep confuses: when no volume lies in another, and none of the target's  *)
(* commands was killed, each session takes down what it mounted, and the    *)
(* removal reaches no file of the host.                                     *)
THEOREM HostFilesAreKept ==
    ASSUME PairwiseUnrelated(Volumes)
    PROVE  Spec => []HostKept
<1>1. Init => SparedInv
  BY RmAssumption DEF Init, SparedInv, TableInOrder, HostSpared
<1>2. TypeOK /\ SparedInv /\ [Next]_vars => SparedInv'
  BY SparedNext
<1>3. SparedInv => HostKept
  BY DEF SparedInv, HostKept
<1> QED
  BY <1>1, <1>2, <1>3, RmTypeInit, RmTypeNext, PTL DEF Spec

=============================================================================
