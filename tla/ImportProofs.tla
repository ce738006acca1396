----------------------------- MODULE ImportProofs -----------------------------
(* Theorems about import_image.sh run in any number of shells, for any       *)
(* images and names of their temporary files, failures of any of its calls   *)
(* and any number of kills.                                                  *)
EXTENDS ImportImage, TLAPS

Places == {"idle", "check", "refused", "pull", "run", "export", "stop", "mkdir", "tar",
           "extract", "report", "rm"}

Scripts == [pc : Places, image : Images \cup {None}, reading : Images \cup {None}]

Typed ==
    /\ dir \in [Images -> Images \cup {None, "partial"}]
    /\ tar \in [Stems -> Images \cup {None}]
    /\ tmp \in [Stems -> Images \cup {None}]
    /\ sh \in [Shells -> Scripts]
    /\ kills \in 0..MaxKills
    /\ met \subseteq Stems

Exporting(p) == At(p, "export") \/ At(p, "stop")

(* The name of the docker container is a lock: who created it has it alone  *)
(* until its docker rm.                                                     *)
Locked ==
    /\ \A p \in Shells : Exporting(p) => tmp[S(p)] = sh[p].image
    /\ \A p, q \in Shells : p # q /\ Exporting(p) /\ Exporting(q) => S(p) # S(q)

Script(p) ==
    /\ At(p, "idle") <=> sh[p].image = None
    /\ At(p, "idle") => sh[p] = Idle
    /\ At(p, "extract") \/ At(p, "report") => sh[p].reading \in Images

Tarring(p) ==
    \E pc \in {"stop", "mkdir", "tar", "extract", "report", "rm"} : At(p, pc)

(* A tarball belongs to a shell that has its `rm` before it.                *)
TarballsOwned ==
    kills = 0 => \A s \in Stems : tar[s] # None => \E p \in Shells : Tarring(p) /\ S(p) = s

ImportInv == Typed /\ Locked /\ (\A p \in Shells : Script(p)) /\ TarballsOwned

(* What holds besides of shells with a name of their own.                   *)
Apart == \A p, q \in Shells : p # q /\ p \in Busy /\ q \in Busy /\ S(p) = S(q) => S(p) \in met

(* What a shell has made sure of when it comes to a call: the tarball is    *)
(* this image's only if the docker container was, and the directory is      *)
(* fresh only if the check was passed.                                      *)
Sound(p) ==
    LET i == sh[p].image
    IN  /\ At(p, "stop") \/ At(p, "mkdir") \/ At(p, "tar") => tar[S(p)] = i
        /\ At(p, "pull") \/ At(p, "run") \/ At(p, "export") \/ At(p, "stop") \/ At(p, "mkdir")
             => dir[i] = None
        /\ At(p, "tar") \/ At(p, "extract") => dir[i] = "partial"
        /\ At(p, "extract") \/ At(p, "report") => sh[p].reading = i
        /\ At(p, "report") => dir[i] = i

SoundInv == Apart /\ \A p \in Shells : S(p) \notin met => Sound(p)

-----------------------------------------------------------------------------
LEMMA ImportInit == Init => ImportInv /\ SoundInv
<1> SUFFICES ASSUME Init PROVE ImportInv /\ SoundInv
  OBVIOUS
<1>1. Typed
  BY ImportAssumption DEF Init, Typed, Scripts, Places, Idle, None
<1>2. Apart /\ TarballsOwned /\ Locked
  BY DEF Init, Apart, Busy, TarballsOwned, Locked, Exporting, At, Idle
<1>3. \A p \in Shells : Script(p) /\ Sound(p)
  BY ImportAssumption DEF Init, Script, Sound, At, Idle, None
<1> QED
  BY <1>1, <1>2, <1>3 DEF ImportInv, SoundInv

LEMMA ImportFacts ==
    /\ None \notin Images /\ "partial" \notin Images /\ "partial" # None /\ MaxKills \in Nat
    /\ Idle \in Scripts /\ Idle.pc = "idle" /\ Idle.image = None
BY ImportAssumption DEF None, Idle, Scripts, Places

(* The shell goes on to its next call.                                      *)
LEMMA ImportGoes ==
    ASSUME Typed, NEW p \in Shells, NEW pc \in Places, GoTo(p, pc)
    PROVE  /\ sh' \in [Shells -> Scripts]
           /\ \A q \in Shells \ {p} : sh'[q] = sh[q]
           /\ sh'[p].pc = pc /\ sh'[p].image = sh[p].image /\ sh'[p].reading = sh[p].reading
BY DEF Typed, GoTo, Scripts

(* The shell ends.                                                          *)
LEMMA ImportEnds ==
    ASSUME Typed, NEW p \in Shells, sh' = [sh EXCEPT ![p] = Idle]
    PROVE  /\ sh' \in [Shells -> Scripts] /\ sh'[p] = Idle
           /\ \A q \in Shells \ {p} : sh'[q] = sh[q]
BY ImportFacts DEF Typed

(* A shell at work has an image.                                            *)
LEMMA ImportBusy ==
    ASSUME ImportInv, NEW p \in Shells, ~At(p, "idle")
    PROVE  p \in Busy /\ sh[p].image \in Images /\ S(p) \in Stems
<1>1. sh[p] \in Scripts /\ Script(p)
  BY DEF ImportInv, Typed
<1>2. sh[p].image \in Images
  BY <1>1 DEF Scripts, Script
<1> QED
  BY <1>2, ImportFacts DEF Busy, At, S, Stems

(* A step of one shell that neither takes the lock nor touches the docker   *)
(* container that another has, and does not leave its tarball behind.       *)
LEMMA ImportStep ==
    ASSUME ImportInv, NEW p \in Shells, Typed',
           \A q \in Shells \ {p} : sh'[q] = sh[q],
           \A q \in Shells \ {p} : Exporting(q) => tmp'[S(q)] = tmp[S(q)],
           Exporting(p)' => /\ tmp'[S(p)'] = sh'[p].image
                            /\ \A q \in Shells \ {p} : Exporting(q) => S(p)' # S(q),
           Script(p)', TarballsOwned'
    PROVE  ImportInv'
<1>1. \A q \in Shells \ {p} : /\ S(q)' = S(q) /\ (Exporting(q)' <=> Exporting(q))
                              /\ (Script(q)' <=> Script(q))
  BY DEF S, Exporting, Script, At
<1>2. \A q \in Shells : Exporting(q)' => (tmp[S(q)] = sh[q].image)'
  BY <1>1 DEF ImportInv, Locked
<1>3. \A q, r \in Shells : q # r /\ Exporting(q)' /\ Exporting(r)' => S(q)' # S(r)'
  BY <1>1 DEF ImportInv, Locked
<1>4. Locked'
  BY <1>2, <1>3 DEF Locked
<1>5. \A q \in Shells : Script(q)'
  BY <1>1 DEF ImportInv
<1> QED
  BY <1>4, <1>5 DEF ImportInv

(* The tarballs stay somebody's if none is added and the shell that ends    *)
(* removes its own.                                                         *)
LEMMA TarballsStay ==
    ASSUME ImportInv, NEW p \in Shells, kills' = 0 => kills = 0,
           \A q \in Shells \ {p} : sh'[q] = sh[q],
           \A s \in Stems : tar'[s] # None => tar[s] # None \/ (Tarring(p)' /\ S(p)' = s),
           \A s \in Stems : tar'[s] # None /\ kills' = 0 /\ Tarring(p) /\ S(p) = s
                              => Tarring(p)' /\ S(p)' = s
    PROVE  TarballsOwned'
<1> SUFFICES ASSUME kills' = 0, NEW s \in Stems, tar'[s] # None
             PROVE  \E q \in Shells : Tarring(q)' /\ S(q)' = s
  BY DEF TarballsOwned
<1>1. CASE Tarring(p)' /\ S(p)' = s
  BY <1>1
<1>2. CASE ~(Tarring(p)' /\ S(p)' = s)
  <2>1. PICK q \in Shells : Tarring(q) /\ S(q) = s
    BY <1>2 DEF ImportInv, TarballsOwned
  <2>2. q # p
    BY <1>2, <2>1
  <2> QED
    BY <2>1, <2>2 DEF Tarring, At, S
<1> QED
  BY <1>1, <1>2

LEMMA ImportNext == ImportInv /\ [Next]_vars => ImportInv'
<1> SUFFICES ASSUME ImportInv, [Next]_vars PROVE ImportInv'
  OBVIOUS
<1>T. Typed /\ Locked /\ TarballsOwned /\ \A p \in Shells : Script(p)
  BY DEF ImportInv
<1>1. ASSUME NEW p \in Shells, NEW i \in Images, Start(p, i) PROVE ImportInv'
  <2>1. /\ At(p, "idle") /\ UNCHANGED <<dir, tar, tmp, kills>>
        /\ sh' = [sh EXCEPT ![p] = [pc |-> "check", image |-> i, reading |-> None]]
        /\ met' \subseteq Stems
    BY <1>1, <1>T DEF Start, Typed, Stems
  <2>2. /\ sh' \in [Shells -> Scripts] /\ \A q \in Shells \ {p} : sh'[q] = sh[q]
        /\ sh'[p].pc = "check" /\ sh'[p].image = i
    BY <1>T, <2>1 DEF Typed, Scripts, Places
  <2>3. Script(p)' /\ ~Exporting(p)' /\ ~Tarring(p)
    BY <2>1, <2>2, ImportFacts DEF Script, Exporting, Tarring, At
  <2>4. TarballsOwned'
    BY <2>1, <2>2, <2>3, TarballsStay
  <2> QED
    BY <1>T, <2>1, <2>2, <2>3, <2>4, ImportStep DEF Typed
<1>2. ASSUME NEW p \in Shells, Check(p) \/ Pull(p) PROVE ImportInv'
  <2>1. /\ ~At(p, "idle") /\ ~Tarring(p) /\ UNCHANGED <<dir, tar, tmp, kills, met>>
        /\ \E pc \in {"refused", "pull", "run"} : GoTo(p, pc)
    BY <1>2 DEF Check, Pull, At, Tarring
  <2>2. PICK pc \in {"refused", "pull", "run"} : GoTo(p, pc)
    BY <2>1
  <2>3. /\ sh' \in [Shells -> Scripts] /\ \A q \in Shells \ {p} : sh'[q] = sh[q]
        /\ sh'[p].pc = pc /\ sh'[p].image = sh[p].image
    BY <1>T, <2>2, ImportGoes DEF Places
  <2>4. Script(p)' /\ ~Exporting(p)'
    BY <2>1, <2>2, <2>3, ImportBusy, ImportFacts DEF Script, Exporting, At
  <2>5. TarballsOwned'
    BY <2>1, <2>3, TarballsStay
  <2> QED
    BY <1>T, <2>1, <2>3, <2>4, <2>5, ImportStep DEF Typed
<1>3. ASSUME NEW p \in Shells, Exit(p) PROVE ImportInv'
  <2>1. /\ ~Tarring(p) /\ UNCHANGED <<dir, tar, tmp, kills, met>>
        /\ sh' = [sh EXCEPT ![p] = Idle]
    BY <1>3 DEF Exit, At, Tarring
  <2>2. sh' \in [Shells -> Scripts] /\ sh'[p] = Idle /\ \A q \in Shells \ {p} : sh'[q] = sh[q]
    BY <1>T, <2>1, ImportEnds
  <2>3. Script(p)' /\ ~Exporting(p)'
    BY <2>2, ImportFacts DEF Script, Exporting, At
  <2>4. TarballsOwned'
    BY <2>1, <2>2, TarballsStay
  <2> QED
    BY <1>T, <2>1, <2>2, <2>3, <2>4, ImportStep DEF Typed
<1>4. ASSUME NEW p \in Shells, DockerRun(p) PROVE ImportInv'
  <2>1. /\ At(p, "run") /\ UNCHANGED <<dir, tar, kills, met>> /\ GoTo(p, "export")
        /\ tmp[S(p)] = None /\ tmp' = [tmp EXCEPT ![S(p)] = sh[p].image]
        /\ ~At(p, "idle") /\ ~Tarring(p)
    BY <1>4 DEF DockerRun, At, Tarring
  <2>2. /\ sh' \in [Shells -> Scripts] /\ \A q \in Shells \ {p} : sh'[q] = sh[q]
        /\ sh'[p].pc = "export" /\ sh'[p].image = sh[p].image
    BY <1>T, <2>1, ImportGoes DEF Places
  <2>3. p \in Busy /\ sh[p].image \in Images /\ S(p) \in Stems
    BY <2>1, ImportBusy
  <2>4. \A q \in Shells \ {p} : Exporting(q) => S(q) # S(p)
    <3> SUFFICES ASSUME NEW q \in Shells, Exporting(q), S(q) = S(p) PROVE FALSE
      OBVIOUS
    <3>1. sh[q].image = None
      BY <1>T, <2>1 DEF Locked
    <3>2. sh[q].image \in Images
      BY ImportBusy DEF Exporting, At
    <3> QED
      BY <3>1, <3>2, ImportFacts
  <2>5. /\ tmp' \in [Stems -> Images \cup {None}] /\ tmp'[S(p)] = sh[p].image
        /\ \A s \in Stems \ {S(p)} : tmp'[s] = tmp[s]
    BY <1>T, <2>1, <2>3 DEF Typed
  <2>6. \A q \in Shells \ {p} : Exporting(q) => tmp'[S(q)] = tmp[S(q)]
    BY <2>4, <2>5, ImportBusy DEF Exporting, At
  <2>7. S(p)' = S(p) /\ Script(p)'
    BY <2>2, <2>3, ImportFacts DEF S, Script, At
  <2>8. TarballsOwned'
    BY <2>1, <2>2, TarballsStay
  <2> QED
    BY <1>T, <2>1, <2>2, <2>4, <2>5, <2>6, <2>7, <2>8, ImportStep DEF Typed
<1>5. ASSUME NEW p \in Shells, DockerRunFails(p) \/ Fails(p) PROVE ImportInv'
  <2>1. /\ ~At(p, "idle") /\ UNCHANGED <<dir, tar, kills, met>> /\ GoTo(p, "rm")
        /\ \/ tmp' = tmp
           \/ tmp[S(p)] = None /\ tmp' = [tmp EXCEPT ![S(p)] = sh[p].image]
    BY <1>5 DEF DockerRunFails, Fails, At
  <2>2. /\ sh' \in [Shells -> Scripts] /\ \A q \in Shells \ {p} : sh'[q] = sh[q]
        /\ sh'[p].pc = "rm" /\ sh'[p].image = sh[p].image
    BY <1>T, <2>1, ImportGoes DEF Places
  <2>3. sh[p].image \in Images /\ S(p) \in Stems
    BY <2>1, ImportBusy
  <2>4. /\ tmp' \in [Stems -> Images \cup {None}]
        /\ \A s \in Stems : tmp[s] # None => tmp'[s] = tmp[s]
    BY <1>T, <2>1, <2>3 DEF Typed
  <2>5. \A q \in Shells \ {p} : Exporting(q) => tmp'[S(q)] = tmp[S(q)]
    <3> SUFFICES ASSUME NEW q \in Shells, Exporting(q) PROVE tmp'[S(q)] = tmp[S(q)]
      OBVIOUS
    <3>1. sh[q].image \in Images /\ S(q) \in Stems
      BY ImportBusy DEF Exporting, At
    <3>2. tmp[S(q)] # None
      BY <1>T, <3>1, ImportFacts DEF Locked
    <3> QED
      BY <2>4, <3>1, <3>2
  <2>6. /\ Script(p)' /\ ~Exporting(p)' /\ Tarring(p)' /\ S(p)' = S(p)
    BY <2>2, <2>3, ImportFacts DEF Script, Exporting, Tarring, At, S
  <2>7. TarballsOwned'
    BY <2>1, <2>2, <2>6, TarballsStay
  <2> QED
    BY <1>T, <2>1, <2>2, <2>4, <2>5, <2>6, <2>7, ImportStep DEF Typed
<1>6. ASSUME NEW p \in Shells, DockerExport(p) PROVE ImportInv'
  <2>1. /\ At(p, "export") /\ UNCHANGED <<dir, tmp, kills, met>> /\ GoTo(p, "stop")
        /\ tar' = [tar EXCEPT ![S(p)] = tmp[S(p)]] /\ ~At(p, "idle") /\ Exporting(p)
    BY <1>6 DEF DockerExport, At, Exporting
  <2>2. /\ sh' \in [Shells -> Scripts] /\ \A q \in Shells \ {p} : sh'[q] = sh[q]
        /\ sh'[p].pc = "stop" /\ sh'[p].image = sh[p].image
    BY <1>T, <2>1, ImportGoes DEF Places
  <2>3. /\ sh[p].image \in Images /\ S(p) \in Stems /\ S(p)' = S(p)
    BY <2>1, <2>2, ImportBusy DEF S
  <2>4. tar' \in [Stems -> Images \cup {None}] /\ \A s \in Stems \ {S(p)} : tar'[s] = tar[s]
    BY <1>T, <2>1, <2>3 DEF Typed
  <2>5. /\ Script(p)' /\ Tarring(p)'
        /\ tmp[S(p)] = sh[p].image
        /\ \A q \in Shells \ {p} : Exporting(q) => S(p) # S(q)
    BY <1>T, <2>1, <2>2, <2>3, ImportFacts DEF Script, Tarring, At, Locked
  <2>6. TarballsOwned'
    BY <2>1, <2>2, <2>3, <2>4, <2>5, TarballsStay
  <2> QED
    BY <1>T, <2>1, <2>2, <2>3, <2>4, <2>5, <2>6, ImportStep DEF Typed
<1>7. ASSUME NEW p \in Shells, DockerRm(p) PROVE ImportInv'
  <2>1. /\ At(p, "stop") /\ UNCHANGED <<dir, tar, kills, met>> /\ GoTo(p, "mkdir")
        /\ tmp' = [tmp EXCEPT ![S(p)] = None] /\ ~At(p, "idle") /\ Exporting(p)
    BY <1>7 DEF DockerRm, At, Exporting
  <2>2. /\ sh' \in [Shells -> Scripts] /\ \A q \in Shells \ {p} : sh'[q] = sh[q]
        /\ sh'[p].pc = "mkdir" /\ sh'[p].image = sh[p].image
    BY <1>T, <2>1, ImportGoes DEF Places
  <2>3. /\ sh[p].image \in Images /\ S(p) \in Stems /\ S(p)' = S(p)
    BY <2>1, <2>2, ImportBusy DEF S
  <2>4. tmp' \in [Stems -> Images \cup {None}] /\ \A s \in Stems \ {S(p)} : tmp'[s] = tmp[s]
    BY <1>T, <2>1, <2>3 DEF Typed
  <2>5. \A q \in Shells \ {p} : Exporting(q) => tmp'[S(q)] = tmp[S(q)]
    BY <1>T, <2>1, <2>4, ImportBusy DEF Locked, Exporting, At
  <2>6. Script(p)' /\ ~Exporting(p)' /\ Tarring(p)'
    BY <2>2, <2>3, ImportFacts DEF Script, Exporting, Tarring, At
  <2>7. TarballsOwned'
    BY <2>1, <2>2, <2>3, <2>6, TarballsStay
  <2> QED
    BY <1>T, <2>1, <2>2, <2>4, <2>5, <2>6, <2>7, ImportStep DEF Typed
<1>8. ASSUME NEW p \in Shells, Mkdir(p) \/ TarDone(p) PROVE ImportInv'
  <2>1. /\ ~At(p, "idle") /\ UNCHANGED <<tar, tmp, kills, met>>
        /\ \/ At(p, "mkdir") /\ GoTo(p, "tar")
           \/ At(p, "extract") /\ GoTo(p, "report")
        /\ \E d \in Images \cup {None, "partial"} : dir' = [dir EXCEPT ![sh[p].image] = d]
    <3>1. sh[p].image \in Images /\ (At(p, "extract") => sh[p].reading \in Images)
      BY <1>8, <1>T, ImportBusy DEF Mkdir, TarDone, At, Script
    <3>2. dir[sh[p].image] \in Images \cup {None, "partial"}
      BY <1>T, <3>1 DEF Typed
    <3> QED
      BY <1>8, <3>1, <3>2 DEF Mkdir, TarDone, At
  <2>2. /\ sh' \in [Shells -> Scripts] /\ \A q \in Shells \ {p} : sh'[q] = sh[q]
        /\ sh'[p].image = sh[p].image /\ sh'[p].reading = sh[p].reading
        /\ sh'[p].pc = "tar" \/ (At(p, "extract") /\ sh'[p].pc = "report")
    BY <1>T, <2>1, ImportGoes DEF Places
  <2>3. /\ sh[p].image \in Images /\ S(p)' = S(p)
    BY <2>1, <2>2, ImportBusy DEF S
  <2>4. dir' \in [Images -> Images \cup {None, "partial"}]
    BY <1>T, <2>1 DEF Typed
  <2>5. Script(p)' /\ ~Exporting(p)' /\ Tarring(p)'
    BY <1>T, <2>2, <2>3, ImportFacts DEF Script, Exporting, Tarring, At
  <2>6. TarballsOwned'
    BY <2>1, <2>2, <2>3, <2>5, TarballsStay
  <2> QED
    BY <1>T, <2>1, <2>2, <2>4, <2>5, <2>6, ImportStep DEF Typed
<1>9. ASSUME NEW p \in Shells, TarOpens(p) PROVE ImportInv'
  <2>1. /\ At(p, "tar") /\ ~At(p, "idle") /\ tar[S(p)] # None /\ UNCHANGED <<tar, tmp, kills, met>>
        /\ sh' = [sh EXCEPT ![p].pc = "extract", ![p].reading = tar[S(p)]]
        /\ dir' = [dir EXCEPT ![sh[p].image] = "partial"]
    BY <1>9 DEF TarOpens, At
  <2>2. sh[p].image \in Images /\ S(p) \in Stems /\ tar[S(p)] \in Images
    BY <1>T, <2>1, ImportBusy DEF Typed
  <2>3. /\ sh' \in [Shells -> Scripts] /\ \A q \in Shells \ {p} : sh'[q] = sh[q]
        /\ sh'[p].pc = "extract" /\ sh'[p].image = sh[p].image /\ sh'[p].reading \in Images
    BY <1>T, <2>1, <2>2 DEF Typed, Scripts, Places
  <2>4. dir' \in [Images -> Images \cup {None, "partial"}] /\ S(p)' = S(p)
    BY <1>T, <2>1, <2>3 DEF Typed, S
  <2>5. Script(p)' /\ ~Exporting(p)' /\ Tarring(p)'
    BY <2>2, <2>3, ImportFacts DEF Script, Exporting, Tarring, At
  <2>6. TarballsOwned'
    BY <2>1, <2>3, <2>4, <2>5, TarballsStay
  <2> QED
    BY <1>T, <2>1, <2>3, <2>4, <2>5, <2>6, ImportStep DEF Typed
<1>10. ASSUME NEW p \in Shells, Rm(p) PROVE ImportInv'
  <2>1. /\ ~At(p, "idle") /\ UNCHANGED <<dir, tmp, kills, met>>
        /\ tar' = [tar EXCEPT ![S(p)] = None] /\ sh' = [sh EXCEPT ![p] = Idle]
    BY <1>10 DEF Rm, At
  <2>2. sh' \in [Shells -> Scripts] /\ sh'[p] = Idle /\ \A q \in Shells \ {p} : sh'[q] = sh[q]
    BY <1>T, <2>1, ImportEnds
  <2>3. /\ tar' \in [Stems -> Images \cup {None}]
        /\ \A s \in Stems : tar'[s] # None => s # S(p) /\ tar[s] # None
    BY <1>T, <2>1, ImportBusy DEF Typed
  <2>4. Script(p)' /\ ~Exporting(p)'
    BY <2>2, ImportFacts DEF Script, Exporting, At
  <2>5. TarballsOwned'
    BY <2>1, <2>2, <2>3, TarballsStay
  <2> QED
    BY <1>T, <2>1, <2>2, <2>3, <2>4, <2>5, ImportStep DEF Typed
<1>11. ASSUME NEW p \in Shells, Kill(p) PROVE ImportInv'
  <2>1. /\ UNCHANGED <<dir, tar, tmp, met>> /\ kills' = kills + 1 /\ kills < MaxKills
        /\ sh' = [sh EXCEPT ![p] = Idle]
    BY <1>11 DEF Kill
  <2>2. sh' \in [Shells -> Scripts] /\ sh'[p] = Idle /\ \A q \in Shells \ {p} : sh'[q] = sh[q]
    BY <1>T, <2>1, ImportEnds
  <2>3. kills' \in 0..MaxKills /\ kills' # 0
    BY <1>T, <2>1, ImportFacts DEF Typed
  <2>4. Script(p)' /\ ~Exporting(p)' /\ TarballsOwned'
    BY <2>2, <2>3, ImportFacts DEF Script, Exporting, At, TarballsOwned
  <2> QED
    BY <1>T, <2>1, <2>2, <2>3, <2>4, ImportStep DEF Typed
<1>12. CASE UNCHANGED vars
  BY <1>12, <1>T DEF vars, ImportInv, Typed, Locked, Exporting, Script, At, S, TarballsOwned, Tarring
<1> QED
  BY <1>1, <1>2, <1>3, <1>4, <1>5, <1>6, <1>7, <1>8, <1>9, <1>10, <1>11, <1>12
  DEF Next, Step

-----------------------------------------------------------------------------
(* A step of one shell touches only what goes by its image's names.         *)
LEMMA StepIsLocal ==
    ASSUME ImportInv, NEW p \in Shells, Step(p) \/ Kill(p)
    PROVE  /\ ~At(p, "idle") /\ UNCHANGED met
           /\ \A q \in Shells \ {p} : sh'[q] = sh[q]
           /\ sh'[p] = Idle \/ sh'[p].image = sh[p].image
           /\ \A i \in Images \ {sh[p].image} : dir'[i] = dir[i]
           /\ \A s \in Stems \ {S(p)} : tar'[s] = tar[s]
<1>T. Typed /\ Script(p)
  BY DEF ImportInv
<1>1. CASE Check(p) \/ Pull(p) \/ DockerRun(p) \/ DockerRunFails(p) \/ Fails(p) \/ DockerRm(p)
  <2>1. /\ ~At(p, "idle") /\ UNCHANGED <<dir, tar, met>>
        /\ \E pc \in Places : GoTo(p, pc)
    BY <1>1 DEF Check, Pull, DockerRun, DockerRunFails, Fails, DockerRm, At, Places
  <2> QED
    BY <1>T, <2>1, ImportGoes
<1>2. CASE DockerExport(p)
  <2>1. /\ ~At(p, "idle") /\ UNCHANGED <<dir, met>> /\ GoTo(p, "stop")
        /\ tar' = [tar EXCEPT ![S(p)] = tmp[S(p)]]
    BY <1>2 DEF DockerExport, At
  <2> QED
    BY <1>T, <2>1, ImportGoes DEF Typed, Places
<1>3. CASE Mkdir(p) \/ TarDone(p)
  <2>1. /\ ~At(p, "idle") /\ UNCHANGED <<tar, met>>
        /\ \E pc \in Places : GoTo(p, pc)
        /\ \E d : dir' = [dir EXCEPT ![sh[p].image] = d]
    BY <1>3 DEF Mkdir, TarDone, At, Places
  <2> QED
    BY <1>T, <2>1, ImportGoes DEF Typed
<1>4. CASE TarOpens(p)
  BY <1>4, <1>T DEF TarOpens, Typed, Scripts, At
<1>5. CASE Exit(p) \/ Rm(p) \/ Kill(p)
  <2>1. /\ ~At(p, "idle") /\ UNCHANGED <<dir, met>> /\ sh' = [sh EXCEPT ![p] = Idle]
        /\ tar' = tar \/ tar' = [tar EXCEPT ![S(p)] = None]
    BY <1>5, <1>T DEF Exit, Rm, Kill, At, Busy, Script
  <2> QED
    BY <1>T, <2>1, ImportEnds DEF Typed
<1> QED
  BY <1>1, <1>2, <1>3, <1>4, <1>5 DEF Step

LEMMA SoundStep ==
    ASSUME ImportInv, SoundInv, NEW p \in Shells, Step(p) \/ Kill(p),
           S(p) \notin met => Sound(p)'
    PROVE  SoundInv'
<1>L. /\ ~At(p, "idle") /\ UNCHANGED met
      /\ \A q \in Shells \ {p} : sh'[q] = sh[q]
      /\ sh'[p] = Idle \/ sh'[p].image = sh[p].image
      /\ \A i \in Images \ {sh[p].image} : dir'[i] = dir[i]
      /\ \A s \in Stems \ {S(p)} : tar'[s] = tar[s]
  BY StepIsLocal
<1>1. \A q \in Shells : q \in Busy' => q \in Busy /\ S(q)' = S(q)
  BY <1>L, ImportBusy DEF Busy, S
<1>2. Apart'
  BY <1>1, <1>L DEF SoundInv, Apart
<1>3. ASSUME NEW q \in Shells \ {p}, S(q) \notin met PROVE Sound(q)'
  <2>1. CASE At(q, "idle")
    BY <1>L, <2>1 DEF Sound, At
  <2>2. CASE ~At(q, "idle")
    <3>1. /\ p \in Busy /\ q \in Busy
          /\ sh[q].image \in Images /\ S(q) \in Stems
      BY <1>L, <2>2, ImportBusy
    <3>2. S(q) # S(p)
      BY <1>3, <3>1 DEF SoundInv, Apart
    <3>3. sh[q].image # sh[p].image
      BY <3>2 DEF S
    <3>4. Sound(q)
      BY <1>3 DEF SoundInv
    <3> QED
      BY <1>L, <3>1, <3>2, <3>3, <3>4 DEF Sound, At, S
  <2> QED
    BY <2>1, <2>2
<1>4. S(p)' \notin met' => Sound(p)'
  <2>1. CASE sh'[p] = Idle
    BY <2>1, ImportFacts DEF Sound, At
  <2>2. CASE sh'[p].image = sh[p].image
    BY <1>L, <2>2 DEF S
  <2> QED
    BY <1>L, <2>1, <2>2
<1>5. \A q \in Shells \ {p} : S(q)' = S(q)
  BY <1>L DEF S
<1> QED
  BY <1>2, <1>3, <1>4, <1>5, <1>L DEF SoundInv

(* A shell with a name of its own makes sure of what its next call needs.   *)
LEMMA SoundMove ==
    ASSUME ImportInv, SoundInv, NEW p \in Shells, Step(p) \/ Kill(p), S(p) \notin met
    PROVE  Sound(p)'
<1>T. Typed /\ Locked /\ Apart /\ Sound(p)
  BY DEF ImportInv, SoundInv
<1>I. ~At(p, "idle") => sh[p].image \in Images /\ S(p) \in Stems /\ p \in Busy
  BY ImportBusy
<1>1. CASE Check(p) \/ Pull(p) \/ DockerRun(p)
  <2>1. /\ UNCHANGED <<dir, tar>>
        /\ \E pc \in {"refused", "pull", "run", "export"} :
             GoTo(p, pc) /\ (pc # "refused" => dir[sh[p].image] = None)
    BY <1>1, <1>T DEF Check, Pull, DockerRun, At, Sound
  <2>2. PICK pc \in {"refused", "pull", "run", "export"} :
            GoTo(p, pc) /\ (pc # "refused" => dir[sh[p].image] = None)
    BY <2>1
  <2>3. sh'[p].pc = pc /\ sh'[p].image = sh[p].image
    BY <1>T, <2>2, ImportGoes DEF Places
  <2> QED
    BY <2>1, <2>2, <2>3 DEF Sound, At
<1>2. CASE DockerRunFails(p) \/ Fails(p)
  <2>1. sh'[p].pc = "rm"
    BY <1>2, <1>T, ImportGoes DEF DockerRunFails, Fails, Places
  <2> QED
    BY <2>1 DEF Sound, At
<1>3. CASE DockerExport(p)
  <2>1. /\ ~At(p, "idle") /\ dir[sh[p].image] = None /\ UNCHANGED dir
        /\ GoTo(p, "stop") /\ tar' = [tar EXCEPT ![S(p)] = sh[p].image]
    BY <1>3, <1>T DEF DockerExport, At, Sound, Locked, Exporting
  <2>2. sh'[p].pc = "stop" /\ sh'[p].image = sh[p].image
    BY <1>T, <2>1, ImportGoes DEF Places
  <2>3. tar'[S(p)] = sh[p].image
    BY <1>I, <1>T, <2>1 DEF Typed
  <2> QED
    BY <2>1, <2>2, <2>3 DEF Sound, At, S
<1>4. CASE DockerRm(p)
  <2>1. /\ dir[sh[p].image] = None /\ tar[S(p)] = sh[p].image
        /\ UNCHANGED <<dir, tar>> /\ GoTo(p, "mkdir")
    BY <1>4, <1>T DEF DockerRm, At, Sound
  <2>2. sh'[p].pc = "mkdir" /\ sh'[p].image = sh[p].image
    BY <1>T, <2>1, ImportGoes DEF Places
  <2> QED
    BY <2>1, <2>2 DEF Sound, At, S
<1>5. CASE Mkdir(p)
  <2>1. /\ ~At(p, "idle") /\ tar[S(p)] = sh[p].image /\ UNCHANGED tar
        /\ GoTo(p, "tar") /\ dir' = [dir EXCEPT ![sh[p].image] = "partial"]
    BY <1>5, <1>T DEF Mkdir, At, Sound
  <2>2. sh'[p].pc = "tar" /\ sh'[p].image = sh[p].image
    BY <1>T, <2>1, ImportGoes DEF Places
  <2>3. dir'[sh[p].image] = "partial"
    BY <1>I, <1>T, <2>1 DEF Typed
  <2> QED
    BY <2>1, <2>2, <2>3 DEF Sound, At, S
<1>6. CASE TarOpens(p)
  <2>1. /\ ~At(p, "idle")
        /\ sh' = [sh EXCEPT ![p].pc = "extract", ![p].reading = sh[p].image]
        /\ dir' = [dir EXCEPT ![sh[p].image] = "partial"]
    BY <1>6, <1>T DEF TarOpens, At, Sound
  <2>2. /\ sh'[p].pc = "extract" /\ sh'[p].image = sh[p].image
        /\ sh'[p].reading = sh[p].image
    BY <1>T, <2>1 DEF Typed, Scripts
  <2>3. dir'[sh[p].image] = "partial"
    BY <1>I, <1>T, <2>1 DEF Typed
  <2> QED
    BY <2>2, <2>3 DEF Sound, At, S
<1>7. CASE TarDone(p)
  <2>1. At(p, "extract") /\ ~At(p, "idle") /\ sh[p].reading = sh[p].image /\ GoTo(p, "report")
    BY <1>7, <1>T DEF TarDone, At, Sound
  <2>2. ~ \E q \in Shells \ {p} : At(q, "extract") /\ sh[q].image = sh[p].image
    <3> SUFFICES ASSUME NEW q \in Shells \ {p}, At(q, "extract"), sh[q].image = sh[p].image
                 PROVE  FALSE
      OBVIOUS
    <3>1. p \in Busy /\ q \in Busy
      BY <2>1, ImportBusy DEF At
    <3>2. S(p) = S(q)
      BY DEF S
    <3> QED
      BY <1>T, <3>1, <3>2 DEF Apart
  <2>3. dir' = [dir EXCEPT ![sh[p].image] = sh[p].image]
    BY <1>7, <2>1, <2>2 DEF TarDone
  <2>4. /\ sh'[p].pc = "report" /\ sh'[p].image = sh[p].image
        /\ sh'[p].reading = sh[p].reading
    BY <1>T, <2>1, ImportGoes DEF Places
  <2>5. dir'[sh[p].image] = sh[p].image
    BY <1>I, <1>T, <2>1, <2>3 DEF Typed
  <2> QED
    BY <2>1, <2>4, <2>5 DEF Sound, At
<1>8. CASE Exit(p) \/ Rm(p) \/ Kill(p)
  <2>1. sh'[p] = Idle
    BY <1>8, <1>T, ImportEnds DEF Exit, Rm, Kill
  <2> QED
    BY <2>1, ImportFacts DEF Sound, At
<1> QED
  BY <1>1, <1>2, <1>3, <1>4, <1>5, <1>6, <1>7, <1>8 DEF Step

LEMMA SoundNext == ImportInv /\ SoundInv /\ [Next]_vars => SoundInv'
<1> SUFFICES ASSUME ImportInv, SoundInv, [Next]_vars PROVE SoundInv'
  OBVIOUS
<1>1. ASSUME NEW p \in Shells, NEW i \in Images, Start(p, i) PROVE SoundInv'
  <2>1. /\ At(p, "idle") /\ UNCHANGED <<dir, tar>>
        /\ met \subseteq met' /\ \A q \in Busy : S(q) = Stem[i] => Stem[i] \in met'
        /\ sh' = [sh EXCEPT ![p] = [pc |-> "check", image |-> i, reading |-> None]]
    BY <1>1 DEF Start
  <2>2. /\ \A q \in Shells \ {p} : sh'[q] = sh[q]
        /\ sh'[p].pc = "check" /\ sh'[p].image = i
    BY <2>1 DEF ImportInv, Typed
  <2>3. /\ S(p)' = Stem[i]
        /\ \A q \in Shells \ {p} : S(q)' = S(q) /\ (q \in Busy' <=> q \in Busy)
    BY <2>2 DEF S, Busy
  <2>4. Apart'
    BY <2>1, <2>3 DEF SoundInv, Apart, Busy
  <2>5. \A q \in Shells : S(q)' \notin met' => Sound(q)'
    <3>1. Sound(p)'
      BY <2>2 DEF Sound, At
    <3>2. \A q \in Shells \ {p} : S(q)' \notin met' => Sound(q)
      BY <2>1, <2>3 DEF SoundInv
    <3>3. \A q \in Shells \ {p} : Sound(q) <=> Sound(q)'
      BY <2>1, <2>2 DEF Sound, At, S
    <3> QED
      BY <3>1, <3>2, <3>3
  <2> QED
    BY <2>4, <2>5 DEF SoundInv
<1>2. ASSUME NEW p \in Shells, Step(p) \/ Kill(p) PROVE SoundInv'
  BY <1>2, SoundMove, SoundStep
<1>3. CASE UNCHANGED vars
  BY <1>3 DEF vars, SoundInv, Apart, Busy, Sound, At, S
<1> QED
  BY <1>1, <1>2, <1>3 DEF Next

-----------------------------------------------------------------------------
LEMMA ImportAlways == Spec => []ImportInv
<1>1. ImportInv /\ [Next]_vars => ImportInv'
  BY ImportNext
<1> QED
  BY <1>1, ImportInit, PTL DEF Spec

(* Whatever imports are at work together, every variable has the values the *)
(* scripts can give it, and a shell exports the image it imports, and no    *)
(* other of that name: the docker container's name keeps the others out.    *)
THEOREM ImportType == Spec => []TypeOK
<1>1. ImportInv => TypeOK
  <2> SUFFICES ASSUME ImportInv PROVE TypeOK
    OBVIOUS
  <2>1. Typed /\ Locked /\ \A p \in Shells : Script(p)
    BY DEF ImportInv
  <2>2. ASSUME NEW p \in Shells PROVE p \in Busy <=> sh[p].image \in Images
    BY <2>1, ImportBusy, ImportFacts DEF Script, Busy
  <2> QED
    BY <2>1, <2>2 DEF TypeOK, Typed, Locked, Exporting, Script
<1> QED
  BY <1>1, ImportAlways, PTL

(* Whatever imports are at work together, and whatever failed and killed    *)
(* imports of any image left behind: one that reports success has the whole *)
(* of its image in its directory, unless two of its name have met.          *)
THEOREM SuccessMeansComplete == Spec => []SuccessIsComplete
<1>1. ImportInv /\ SoundInv /\ [Next]_vars => SoundInv'
  BY SoundNext
<1>2. SoundInv => SuccessIsComplete
  BY DEF SoundInv, Sound, SuccessIsComplete
<1> QED
  BY <1>1, <1>2, ImportInit, ImportAlways, PTL DEF Spec

(* Whatever imports are at work together, also under one name: if none was  *)
(* killed, a tarball is there only while a shell that uses its name is at   *)
(* work, whichever of the calls fail.                                       *)
THEOREM NoTarballStays == Spec => []TarballsRemoved
<1>1. ImportInv => TarballsRemoved
  BY DEF ImportInv, TarballsOwned, TarballsRemoved, Tarring, Busy, Idle, At
<1> QED
  BY <1>1, ImportAlways, PTL

=============================================================================
