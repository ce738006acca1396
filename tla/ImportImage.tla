----------------------------- MODULE ImportImage -----------------------------
(***************************************************************************)
(* import_image.sh: a chain of docker and tar calls, each of which may     *)
(* fail, in shells that may be killed between and during the calls.  The   *)
(* tarball in /tmp and the temporary docker container are named after      *)
(* <repo>_<tag>, the directory <repo>/<tag>: my_app:v1 and my:app_v1 share *)
(* the former and not the latter.                                          *)
(***************************************************************************)
EXTENDS Naturals, FiniteSets

CONSTANTS Images, Shells,
          Stem,       (* Stem[i]: image i's <repo>_<tag>                    *)
          MaxKills    (* bounds the shells that are killed                  *)

Stems == {Stem[i] : i \in Images}
None == "none"

ASSUME ImportAssumption ==
    /\ Images # {} /\ None \notin Images /\ "partial" \notin Images
    /\ MaxKills \in Nat

VARIABLES
    dir,      (* dir[i]: image i's directory: the image it holds, or a part  *)
    tar,      (* tar[s]: the image that /tmp/<s>.tar is of                   *)
    tmp,      (* tmp[s]: the image that the docker container <s>_EXPORT runs *)
    sh,       (* sh[p]: the script that shell p runs                         *)
    kills,
    met       (* history: the names that two shells used at a time           *)

vars == <<dir, tar, tmp, sh, kills, met>>

Idle == [pc |-> "idle", image |-> None, reading |-> None]
Busy == {p \in Shells : sh[p] # Idle}

Init ==
    /\ dir = [i \in Images |-> None]
    /\ tar = [s \in Stems |-> None]
    /\ tmp = [s \in Stems |-> None]
    /\ sh = [p \in Shells |-> Idle]
    /\ kills = 0
    /\ met = {}

At(p, pc) == sh[p].pc = pc
GoTo(p, pc) == sh' = [sh EXCEPT ![p].pc = pc]
S(p) == Stem[sh[p].image]

-----------------------------------------------------------------------------
Start(p, i) ==
    /\ At(p, "idle")
    /\ sh' = [sh EXCEPT ![p] = [pc |-> "check", image |-> i, reading |-> None]]
    /\ met' = met \cup ({Stem[i]} \cap {S(q) : q \in Busy})
    /\ UNCHANGED <<dir, tar, tmp, kills>>

Check(p) ==
    /\ At(p, "check")
    /\ GoTo(p, IF dir[sh[p].image] # None THEN "refused" ELSE "pull")
    /\ UNCHANGED <<dir, tar, tmp, kills, met>>

(* "already exist", or a pull that fails: `exit 1` *)
Exit(p) ==
    /\ At(p, "refused") \/ At(p, "pull")
    /\ sh' = [sh EXCEPT ![p] = Idle]
    /\ UNCHANGED <<dir, tar, tmp, kills, met>>

Pull(p) ==
    /\ At(p, "pull")
    /\ GoTo(p, "run")
    /\ UNCHANGED <<dir, tar, tmp, kills, met>>

(* Fault: a container of that name is taken for the right one. *)
DockerRunReuses(p) ==
    /\ At(p, "run")
    /\ tmp' = [tmp EXCEPT ![S(p)] = IF @ = None THEN sh[p].image ELSE @]
    /\ GoTo(p, "export")
    /\ UNCHANGED <<dir, tar, kills, met>>

DockerRun(p) ==
    /\ At(p, "run") /\ tmp[S(p)] = None
    /\ tmp' = [tmp EXCEPT ![S(p)] = sh[p].image]
    /\ GoTo(p, "export")
    /\ UNCHANGED <<dir, tar, kills, met>>

(* The name is in use; or the container was created and does not start.     *)
DockerRunFails(p) ==
    /\ At(p, "run")
    /\ \/ UNCHANGED tmp
       \/ tmp[S(p)] = None /\ tmp' = [tmp EXCEPT ![S(p)] = sh[p].image]
    /\ GoTo(p, "rm")
    /\ UNCHANGED <<dir, tar, kills, met>>

DockerExport(p) ==
    /\ At(p, "export")
    /\ tar' = [tar EXCEPT ![S(p)] = tmp[S(p)]]
    /\ GoTo(p, "stop")
    /\ UNCHANGED <<dir, tmp, kills, met>>

DockerRm(p) ==
    /\ At(p, "stop")
    /\ tmp' = [tmp EXCEPT ![S(p)] = None]
    /\ GoTo(p, "mkdir")
    /\ UNCHANGED <<dir, tar, kills, met>>

Mkdir(p) ==
    /\ At(p, "mkdir")
    /\ dir' = [dir EXCEPT ![sh[p].image] = IF @ = None THEN "partial" ELSE @]
    /\ GoTo(p, "tar")
    /\ UNCHANGED <<tar, tmp, kills, met>>

TarOpens(p) ==
    /\ At(p, "tar") /\ tar[S(p)] # None
    /\ sh' = [sh EXCEPT ![p].pc = "extract", ![p].reading = tar[S(p)]]
    /\ dir' = [dir EXCEPT ![sh[p].image] = "partial"]
    /\ UNCHANGED <<tar, tmp, kills, met>>

(* The files of two tars at work in one directory replace one another.      *)
TarDone(p) ==
    LET i == sh[p].image
        more == \E q \in Shells \ {p} : At(q, "extract") /\ sh[q].image = i
    IN  /\ At(p, "extract")
        /\ dir' = [dir EXCEPT ![i] = IF more THEN "partial" ELSE sh[p].reading]
        /\ GoTo(p, "report")
        /\ UNCHANGED <<tar, tmp, kills, met>>

(* Fault: `;` for `&&` *)
FailsAnyway(p) ==
    \/ /\ \E pc \in {"stop", "mkdir", "tar", "extract"} : At(p, pc)
       /\ GoTo(p, "rm")
       /\ UNCHANGED <<dir, tar, tmp, kills, met>>
    \/ /\ At(p, "export")
       /\ GoTo(p, "stop")
       /\ UNCHANGED <<dir, tar, tmp, kills, met>>

(* `&&`: a call that fails ends the chain. *)
Fails(p) ==
    /\ \E pc \in {"export", "stop", "mkdir", "tar", "extract"} : At(p, pc)
    /\ GoTo(p, "rm")
    /\ UNCHANGED <<dir, tar, tmp, kills, met>>

(* Fault: the tarball is removed when all went well. *)
RmAfterSuccess(p) ==
    /\ At(p, "report") \/ At(p, "rm")
    /\ tar' = [tar EXCEPT ![S(p)] = IF At(p, "report") THEN None ELSE @]
    /\ sh' = [sh EXCEPT ![p] = Idle]
    /\ UNCHANGED <<dir, tmp, kills, met>>

(* The tarball goes either way, whoever's it is. *)
Rm(p) ==
    /\ At(p, "report") \/ At(p, "rm")
    /\ tar' = [tar EXCEPT ![S(p)] = None]
    /\ sh' = [sh EXCEPT ![p] = Idle]
    /\ UNCHANGED <<dir, tmp, kills, met>>

Kill(p) ==
    /\ p \in Busy /\ kills < MaxKills
    /\ sh' = [sh EXCEPT ![p] = Idle]
    /\ kills' = kills + 1
    /\ UNCHANGED <<dir, tar, tmp, met>>

Step(p) ==
    \/ Check(p) \/ Exit(p) \/ Pull(p) \/ DockerRun(p) \/ DockerRunFails(p) \/ DockerExport(p)
    \/ DockerRm(p) \/ Mkdir(p) \/ TarOpens(p) \/ TarDone(p) \/ Fails(p) \/ Rm(p)

Next == \E p \in Shells : Step(p) \/ Kill(p) \/ \E i \in Images : Start(p, i)

Spec == Init /\ [][Next]_vars

-----------------------------------------------------------------------------
(* Every variable has the values the scripts can give it; what is exported  *)
(* is the shell's own image, even with others of that name at work, and     *)
(* what tar reads is an image.                                              *)
TypeOK ==
    /\ dir \in [Images -> Images \cup {None, "partial"}]
    /\ tar \in [Stems -> Images \cup {None}]
    /\ tmp \in [Stems -> Images \cup {None}]
    /\ \A p \in Shells :
         /\ p \in Busy <=> sh[p].image \in Images
         /\ At(p, "export") \/ At(p, "stop") => tmp[S(p)] = sh[p].image
         /\ At(p, "extract") \/ At(p, "report") => sh[p].reading \in Images
    /\ kills \in 0..MaxKills
    /\ met \subseteq Stems

(* "successfully export image to" (import_image.sh:60) is said of a         *)
(* directory that holds the whole of that image, whatever earlier attempts  *)
(* left in /tmp, and whatever image that was of, and whatever else is at    *)
(* work, unless two imports with one name for their files have met.         *)
SuccessIsComplete ==
    \A p \in Shells : At(p, "report") /\ S(p) \notin met => dir[sh[p].image] = sh[p].image

(* The same as import_image.sh:60 says it.                                  *)
SuccessIsSuccess == \A p \in Shells : At(p, "report") => dir[sh[p].image] = sh[p].image

(* "Images are read only" (README.md:104): once complete, an image stays as *)
(* it is, as containers may have it as their lower layer                    *)
(* (import_image.sh:40-43).                                                 *)
ImagesReadOnly == [][\A i \in Images : dir[i] = i => dir'[i] = i]_vars

(* Attempts that fail clean up after themselves: unless a shell was killed, *)
(* a tarball is there only while a shell that uses its name is at work,     *)
(* whoever else exports to it and removes it (import_image.sh:63).          *)
TarballsRemoved ==
    kills = 0 => \A s \in Stems : tar[s] # None => \E p \in Busy : S(p) = s

(* An import is refused as "already exist" (import_image.sh:41) only when   *)
(* the image is there.                                                      *)
RefusedIsComplete == \A p \in Shells : At(p, "refused") => dir[sh[p].image] = sh[p].image

=============================================================================
