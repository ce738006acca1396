---------------------------- MODULE LaunchProofs ----------------------------
(***************************************************************************)
(* Launch keeps the contract, provided that a buffer nothing was written   *)
(* to does not happen to begin with "go".                                  *)
(***************************************************************************)
EXTENDS Launch, TLAPS

(* The parent says "go" only when the network is up, nobody has been told   *)
(* anything before, and the clean-up comes after the wait.                  *)
ToldInOrder ==
    /\ ppc \in {"create", "clone", "apply", "bringup"} => net = FALSE /\ buf = "empty"
    /\ buf = "go" \/ ppc \in {"close_read_go", "go"} => net = TRUE

EndsInOrder ==
    /\ ppc # "exited" => end = "none"
    /\ ppc \in {"create", "clone"} => cpc = "none"
    /\ ppc \notin {"create", "clone", "exited"} => cpc # "none"
    /\ ppc = "destroy" \/ end = "return" => cpc = "reaped"

GroupInOrder ==
    /\ ppc = "create" => created = FALSE
    /\ group = "made" /\ ppc # "exited" => created = TRUE
    /\ group = "made" /\ end = "return" => nested = TRUE

LaunchInv == TypeOK /\ ToldInOrder /\ EndsInOrder /\ GroupInOrder

LEMMA LaunchInit == Init => LaunchInv
  BY DEF Init, LaunchInv, TypeOK, ToldInOrder, EndsInOrder, GroupInOrder,
         PPCs, Held, Started, Ended, Processes

LEMMA LaunchNext == LaunchInv /\ [Next]_vars => LaunchInv'
<1> SUFFICES ASSUME LaunchInv, [Next]_vars
             PROVE  LaunchInv'
  OBVIOUS
<1> USE DEF LaunchInv, TypeOK, ToldInOrder, EndsInOrder, GroupInOrder, PPCs,
            Held, Started, Ended, Processes, cgroup, Goto, Stop, CloseAll
<1>1. CASE CreateCGroups
  <2>1. /\ \/ created' = FALSE /\ group' # "made"
           \/ created' = TRUE /\ group' = "made"
        /\ group' \in {"absent", "stale", "busy", "made"}
    BY <1>1 DEF CreateCGroups
  <2>2. limited' \in BOOLEAN /\ UNCHANGED <<asked, member, nested, cpc, buf, net>>
    BY <1>1 DEF CreateCGroups
  <2>3. \/ ppc' = "clone" /\ UNCHANGED <<end, ends>>
        \/ ppc' = "exited" /\ end' = "error" /\ CloseAll("parent")
    BY <1>1 DEF CreateCGroups
  <2>4. ppc = "create"
    BY <1>1 DEF CreateCGroups
  <2>5. CASE ppc' = "clone" /\ UNCHANGED <<end, ends>>
    BY <2>1, <2>2, <2>4, <2>5
  <2>6. CASE ppc' = "exited" /\ end' = "error" /\ CloseAll("parent")
    BY <2>1, <2>2, <2>4, <2>6
  <2> QED
    BY <2>3, <2>5, <2>6
<1>2. CASE Clone
  BY <1>2 DEF Clone
<1>3. CASE ApplyCgroups
  <2>1. /\ ppc = "apply" /\ member' \in BOOLEAN
        /\ UNCHANGED <<asked, group, limited, created, nested, cpc, buf, net>>
    BY <1>3 DEF ApplyCgroups
  <2>2. \/ ppc' = "bringup" /\ UNCHANGED <<end, ends>>
        \/ ppc' = "exited" /\ end' = "error" /\ CloseAll("parent")
    BY <1>3 DEF ApplyCgroups
  <2>3. CASE ppc' = "bringup" /\ UNCHANGED <<end, ends>>
    BY <2>1, <2>3
  <2>4. CASE ppc' = "exited" /\ end' = "error" /\ CloseAll("parent")
    BY <2>1, <2>4
  <2> QED
    BY <2>2, <2>3, <2>4
<1>4. CASE Bringup
  BY <1>4 DEF Bringup
<1>5. CASE CloseRead
  BY <1>5 DEF CloseRead
<1>6. CASE Tell
  BY <1>6 DEF Tell
<1>7. CASE Wait
  BY <1>7 DEF Wait
<1>8. CASE Destroy
  <2>1. ppc = "destroy" /\ cpc = "reaped" /\ ppc' = "exited" /\ end' = "return"
    BY <1>8 DEF Destroy
  <2>2. UNCHANGED <<asked, limited, member, nested, cpc, buf, net>> /\ CloseAll("parent")
    BY <1>8 DEF Destroy
  <2>3. CASE created = TRUE /\ nested = FALSE
    <3>1. ~Occupied
      BY <2>1, <2>3 DEF Occupied
    <3>2. group' = "absent" /\ created' = FALSE
      BY <1>8, <2>3, <3>1 DEF Destroy
    <3> QED
      BY <2>1, <2>2, <3>2
  <2>4. CASE created = FALSE \/ nested = TRUE
    <3>1. UNCHANGED <<group, created>>
      BY <1>8, <2>1, <2>4 DEF Destroy, Occupied
    <3> QED
      BY <2>1, <2>2, <2>4, <3>1
  <2> QED
    BY <2>3, <2>4
<1>9. CASE CloseWrite
  BY <1>9 DEF CloseWrite
<1>10. CASE ReadWord
  BY <1>10 DEF ReadWord, ChildStops
<1>11. CASE Prepare
  BY <1>11 DEF Prepare, After, ChildStops
<1>12. CASE CommandNests \/ CommandEnds
  <2>1. CASE CommandNests
    <3>1. /\ cpc = "running" /\ group = "made" /\ nested' = TRUE
          /\ UNCHANGED <<ppc, end, cpc, ends, buf, asked, group, limited, member, created, net>>
      BY <2>1 DEF CommandNests
    <3> QED
      BY <3>1
  <2>2. CASE CommandEnds
    BY <2>2 DEF CommandEnds, ChildStops
  <2> QED
    BY <1>12, <2>1, <2>2
<1>13. CASE InitReaps
  BY <1>13 DEF InitReaps
<1>14. CASE KillParent
  BY <1>14 DEF KillParent
<1>15. CASE KillChild
  BY <1>15 DEF KillChild, ChildStops
<1>16. CASE UNCHANGED vars
  BY <1>16 DEF vars
<1> QED
  BY <1>1, <1>2, <1>3, <1>4, <1>5, <1>6, <1>7, <1>8, <1>9, <1>10, <1>11, <1>12,
     <1>13, <1>14, <1>15, <1>16 DEF Next, ParentStep, ChildStep

(* The order of the parent's steps, kept by every interleaving with the     *)
(* child's, whichever process is killed and whatever an unwritten buffer    *)
(* holds.                                                                   *)
THEOREM LaunchInvariant == Spec => []LaunchInv
  BY LaunchInit, LaunchNext, PTL DEF Spec

(* Every variable keeps to the values the code can give it.                 *)
THEOREM LaunchType == Spec => []TypeOK
<1>1. LaunchInv => TypeOK
  BY DEF LaunchInv
<1> QED
  BY <1>1, LaunchInvariant, PTL

(* The clean-up meets a group it can remove: run() returns only after the   *)
(* child was waited for, so that a cgroup that Create() made is gone unless *)
(* the command nested one in it.                                            *)
THEOREM GroupIsRemoved == Spec => []GroupRemoved
<1>1. LaunchInv => GroupRemoved
  BY DEF LaunchInv, GroupInOrder, GroupRemoved
<1> QED
  BY <1>1, LaunchInvariant, PTL

-----------------------------------------------------------------------------
(* A child past its read() has its network.  This takes the assumption.     *)
NotEarly == cpc \in Started => net = TRUE

LEMMA NotEarlyNext ==
    ASSUME "go" \notin Residue, LaunchInv, NotEarly, [Next]_vars
    PROVE  NotEarly'
<1> USE DEF NotEarly, LaunchInv, TypeOK, ToldInOrder, Started
<1>1. CASE ParentStep
  <2>1. ppc = "bringup" => net = FALSE
    OBVIOUS
  <2>2. UNCHANGED net \/ ppc = "bringup"
    BY <1>1 DEF ParentStep, CreateCGroups, Clone, ApplyCgroups, Bringup, CloseRead, Tell,
                Wait, Destroy
  <2>3. UNCHANGED cpc \/ cpc' \in {"close_write", "reaped"}
    BY <1>1 DEF ParentStep, CreateCGroups, Clone, ApplyCgroups, Bringup, CloseRead, Tell,
                Wait, Destroy
  <2> QED
    BY <2>1, <2>2, <2>3
<1>2. CASE CloseWrite
  BY <1>2 DEF CloseWrite
<1>3. CASE ReadWord
  <2>1. \A word \in Words : word = "go" => net = TRUE
    BY DEF Words
  <2> QED
    BY <1>3, <2>1 DEF ReadWord, ChildStops
<1>4. CASE Prepare
  BY <1>4 DEF Prepare, After, ChildStops
<1>5. CASE CommandNests \/ CommandEnds \/ InitReaps \/ KillParent \/ KillChild
  BY <1>5 DEF CommandNests, CommandEnds, InitReaps, KillParent, KillChild, ChildStops
<1>6. CASE UNCHANGED vars
  BY <1>6 DEF vars
<1> QED
  BY <1>1, <1>2, <1>3, <1>4, <1>5, <1>6 DEF Next, ChildStep

-----------------------------------------------------------------------------
(* Step simulation.  The child's steps up to its read() leave the contract's *)
(* command held; those after it leave it running.                           *)
LEMMA StepKeepsContract ==
    ASSUME "go" \notin Residue, LaunchInv, NotEarly, [Next]_vars
    PROVE  [Contract!Next]_(Contract!vars)
<1> USE DEF LaunchInv, NotEarly, TypeOK, ToldInOrder, EndsInOrder, PPCs, Held, Started,
            Ended, Goto, Stop
<1> USE DEF Contract!Next, Contract!vars, Contract!Hold, Contract!Prepare, Contract!Run,
            Contract!Discard, Contract!End, Contract!Release
<1>1. CASE CreateCGroups
  BY <1>1 DEF CreateCGroups
<1>2. CASE Clone
  BY <1>2 DEF Clone
<1>3. CASE ApplyCgroups
  BY <1>3 DEF ApplyCgroups
<1>4. CASE Bringup
  BY <1>4 DEF Bringup
<1>5. CASE CloseRead
  BY <1>5 DEF CloseRead
<1>6. CASE Tell
  BY <1>6 DEF Tell
<1>7. CASE Wait
  BY <1>7 DEF Wait
<1>8. CASE Destroy
  BY <1>8 DEF Destroy
<1>9. CASE CloseWrite
  BY <1>9 DEF CloseWrite
<1>10. CASE ReadWord
  <2>1. \A word \in Words : word = "go" => net = TRUE
    BY DEF Words
  <2> QED
    BY <1>10, <2>1 DEF ReadWord, ChildStops
<1>11. CASE Prepare
  BY <1>11 DEF Prepare, After, ChildStops
<1>12. CASE CommandNests \/ CommandEnds
  BY <1>12 DEF CommandNests, CommandEnds, ChildStops
<1>13. CASE InitReaps
  BY <1>13 DEF InitReaps
<1>14. CASE KillParent
  BY <1>14 DEF KillParent
<1>15. CASE KillChild
  BY <1>15 DEF KillChild, ChildStops
<1>16. CASE UNCHANGED vars
  BY <1>16 DEF vars
<1> QED
  BY <1>1, <1>2, <1>3, <1>4, <1>5, <1>6, <1>7, <1>8, <1>9, <1>10, <1>11, <1>12,
     <1>13, <1>14, <1>15, <1>16 DEF Next, ParentStep, ChildStep

(* The launch implements the contract: run_cmd_in_docker() gets past its    *)
(* read() only with the network up, and run() returns only after the child  *)
(* ended, provided that the buffer of a read() that met the end of the file *)
(* does not begin with "go".                                                *)
THEOREM LaunchKeepsContract ==
    ASSUME "go" \notin Residue
    PROVE  Spec => HoldsUntilReady
<1>1. Init => Contract!Init
  BY DEF Init, Contract!Init, Held, Started, Ended
<1>2. Init => NotEarly
  BY DEF Init, NotEarly, Started
<1>3. LaunchInv /\ NotEarly /\ [Next]_vars => NotEarly'
  BY NotEarlyNext
<1>4. LaunchInv /\ NotEarly /\ [Next]_vars => [Contract!Next]_(Contract!vars)
  BY StepKeepsContract
<1> QED
  BY <1>1, <1>2, <1>3, <1>4, LaunchInvariant, PTL
  DEF Spec, HoldsUntilReady, Contract!Safety

=============================================================================
