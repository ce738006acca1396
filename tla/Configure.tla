------------------------------ MODULE Configure ------------------------------
(***************************************************************************)
(* A command line becomes a container: CmdLine reads it, and what run goes *)
(* on with is InfoFile's configuration, which every later start restores.  *)
(* cmd_run() hands over the texts of the options and the words left.       *)
(***************************************************************************)
EXTENDS CmdLine

CONSTANTS Tokens,   (* what InfoFile's texts consist of                     *)
          Text(_)   (* the characters of a word, as a sequence of them      *)

ASSUME TextAssumption ==
    /\ {":", ",", "ro", "latest"} \subseteq Tokens
    /\ \A w \in Words : Text(w) \in Seq(Tokens)

VARIABLES given, specs, obj, doc, mounts, ipc

infoVars == <<given, specs, obj, doc, mounts, ipc>>

NoOptions == [volume |-> <<>>, image |-> <<>>, argv |-> <<>>, memory |-> ""]

Info == INSTANCE InfoFile WITH Options <- {NoOptions}, pc <- ipc

(* A value that was not given is read as an empty one.                      *)
Handed(r) ==
    [volume |-> IF r.volume = NotGiven THEN <<>> ELSE Text(r.volume),
     image |-> Text(Head(r.words)), argv |-> Tail(r.words),
     memory |-> IF r.memory = NotGiven THEN Info!NoLimit ELSE r.memory]

ConfigureInit == Init /\ Info!Init

Reading == (Parse \/ OtherThanRun) /\ UNCHANGED infoVars

Hand ==
    /\ Run
    /\ \E r \in goes' : given' = Handed(r)
    /\ UNCHANGED <<specs, obj, doc, mounts, ipc>>

Configuring == cmd = "run" /\ goes # {} /\ Info!Next /\ UNCHANGED vars

ConfigureNext == Reading \/ Hand \/ Configuring

(* A process that nobody stops while it reads its command line.             *)
ConfigureSpec ==
    /\ ConfigureInit /\ [][ConfigureNext]_<<vars, infoVars>>
    /\ WF_<<vars, infoVars>>(Reading \/ Hand)

-----------------------------------------------------------------------------
(* Every variable has the values the two parts can give it.                 *)
ConfigureTypeOK == TypeOK /\ Info!TypeOK

(* Run takes exactly the --volume texts that have a meaning, and takes them *)
(* to mean that (cmd_run.cpp:53-66, volume.cpp:24-66).                      *)
AcceptedAsWritten == Info!AcceptedAsWritten

(* The directory a container is made from is the one that import_image.sh   *)
(* extracted the image of that name to, for the names of one colon at most  *)
(* and for no other (image.cpp:17-30, import_image.sh:33-39).               *)
ImportedIsFound == Info!ImportedIsFound

(* A container's mounts are made, in its first session and in each later    *)
(* one, of what the command line that created it means: the last of         *)
(* repeated options, the words behind them untouched, the volumes in their  *)
(* order (cmd_option.cpp:78-156, cmd_run.cpp:24-66, container.cpp:118-209). *)
StartedAsTyped ==
    ipc = "mount" => \E r \in Meanings : given = Handed(r) /\ Info!RestoredAsCreated

(* "appending `:ro` to the volume flag to make the mount read-only"         *)
(* (README.md:141).                                                         *)
ReadOnlyKept == Info!ReadOnlyKept

(* "Use `--memory` to restrict memory usage" (README.md:153), in every      *)
(* session of the container.                                                *)
LimitKept == Info!LimitKept

=============================================================================
