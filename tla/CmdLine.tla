------------------------------- MODULE CmdLine -------------------------------
(***************************************************************************)
(* From main()'s argv to the first step of cmd_run() or cmd_start():       *)
(* CmdLine::Parse(), one step per iteration of ParseOptions() and one per  *)
(* decision after it, and the checks of the option values.  Words are      *)
(* strings; of their characters only a leading "-" counts, and whether a   *)
(* word can be a container's name.                                         *)
(***************************************************************************)
EXTENDS Integers, Sequences

CONSTANTS Words, Argvs,  (* command lines, without the program's name       *)
          Dashed,   (* the words that start with "-"                        *)
          Names     (* the words that pass exitIfNameInvalid()              *)

Option(long, short, takes) == [long |-> long, short |-> short, takes |-> takes]
Help   == Option("--help", "-h", FALSE)
Name   == Option("--name", "-n", TRUE)
Volume == Option("--volume", "-v", TRUE)
Memory == Option("--memory", "-m", TRUE)

GlobalOptions == {Help}
Commands == [run    |-> {Help, Name, Volume, Memory},
             start  |-> {Help, Name},
             system |-> {Help}]

Spellings(o) == {o.long, o.short}
AllSpellings == UNION {Spellings(o) : o \in Commands["run"]}

NotGiven == "0"    (* getOptionValue()'s null pointer; no word               *)

ASSUME CmdLineAssumption ==
    /\ Argvs \subseteq Seq(Words)
    /\ AllSpellings \subseteq Dashed
    /\ DOMAIN Commands \cap Dashed = {}
    /\ NotGiven \notin Words \cup Names

VARIABLES argv,       (* the command line                                   *)
          rest,       (* arg_vect: the words not yet used                   *)
          opts,       (* the maps global_opt and cmd_opt                    *)
          cmd,        (* the command found                                  *)
          pc,
          how,        (* how it ended without a container                   *)
          goes        (* or what the command goes on with, once it does     *)

vars == <<argv, rest, opts, cmd, pc, how, goes>>

Empty == [s \in {} |-> ""]
Phases == {"global", "command"}

Init ==
    /\ argv \in Argvs
    /\ rest = IF argv = <<>> THEN <<"-h">> ELSE argv
    /\ opts = [p \in Phases |-> Empty]
    /\ cmd = "none"
    /\ pc = "global"
    /\ how = "" /\ goes = {}

Exit(h) == pc' = "end" /\ how' = h /\ UNCHANGED <<argv, rest, opts, cmd, goes>>
GoOn(with) == pc' = "end" /\ goes' = {with} /\ UNCHANGED <<argv, rest, opts, cmd, how>>

-----------------------------------------------------------------------------
(* ParseOptions(), in either phase p. *)

OptionGroup(p) == IF p = "global" THEN GlobalOptions ELSE Commands[cmd]

AtOption(p) == pc = p /\ rest # <<>> /\ Head(rest) \in Dashed

Lookup(p) == {o \in OptionGroup(p) : Head(rest) \in Spellings(o)}

(* Fault: insert() into the map, which keeps an earlier value. *)
SetOptionMapOnce(map, o, val) ==
    [s \in DOMAIN map \cup Spellings(o) |-> IF s \in DOMAIN map THEN map[s] ELSE val]

SetOptionMap(map, o, val) ==
    [s \in DOMAIN map \cup Spellings(o) |-> IF s \in Spellings(o) THEN val ELSE map[s]]

UnknownOption(p) == AtOption(p) /\ Lookup(p) = {} /\ Exit("unknown option")

(* Fault: `idx++` forgotten. *)
TakeFlagAgain(p) ==
    /\ AtOption(p)
    /\ \E o \in Lookup(p) :
         ~o.takes /\ opts' = [opts EXCEPT ![p] = SetOptionMap(@, o, "")]
    /\ UNCHANGED <<argv, rest, cmd, pc, how, goes>>

TakeFlag(p) ==
    /\ AtOption(p)
    /\ \E o \in Lookup(p) :
         ~o.takes /\ opts' = [opts EXCEPT ![p] = SetOptionMap(@, o, "")]
    /\ rest' = Tail(rest)
    /\ UNCHANGED <<argv, cmd, pc, how, goes>>

(* The value is the next word, whatever it looks like. *)
TakeValue(p) ==
    /\ AtOption(p) /\ Len(rest) > 1
    /\ \E o \in Lookup(p) :
         o.takes /\ opts' = [opts EXCEPT ![p] = SetOptionMap(@, o, rest[2])]
    /\ rest' = Tail(Tail(rest))
    /\ UNCHANGED <<argv, cmd, pc, how, goes>>

ValueMissing(p) ==
    /\ AtOption(p) /\ Len(rest) = 1
    /\ \E o \in Lookup(p) : o.takes
    /\ Exit("value missing")

-----------------------------------------------------------------------------
(* What CmdLine::Parse() does after each call of ParseOptions().            *)

Parsed(p) == pc = p /\ ~AtOption(p)
Asked(p) == DOMAIN opts[p] \cap Spellings(Help) # {}

GlobalHelp == Parsed("global") /\ Asked("global") /\ Exit("usage")

NoCommand == Parsed("global") /\ ~Asked("global") /\ rest = <<>> /\ Exit("no command")

UnknownCommand ==
    /\ Parsed("global") /\ ~Asked("global") /\ rest # <<>>
    /\ Head(rest) \notin DOMAIN Commands
    /\ Exit("unknown command")

(* Fault: the result of GetCmdInfo() is not looked at. *)
GetCmdInfoUnchecked ==
    /\ Parsed("global") /\ ~Asked("global") /\ rest # <<>>
    /\ cmd' = Head(rest)
    /\ rest' = Tail(rest)
    /\ pc' = "command"
    /\ UNCHANGED <<argv, opts, how, goes>>

GetCmdInfo ==
    /\ Parsed("global") /\ ~Asked("global") /\ rest # <<>>
    /\ Head(rest) \in DOMAIN Commands
    /\ cmd' = Head(rest)
    /\ rest' = Tail(rest)
    /\ pc' = "command"
    /\ UNCHANGED <<argv, opts, how, goes>>

Bare == DOMAIN opts["command"] = {} /\ rest = <<>>

CommandHelp == Parsed("command") /\ (Asked("command") \/ Bare) /\ Exit("usage")

Dispatch ==
    /\ Parsed("command") /\ ~Asked("command") /\ ~Bare
    /\ pc' = cmd
    /\ UNCHANGED <<argv, rest, opts, cmd, how, goes>>

-----------------------------------------------------------------------------
(* main() and the checks at the top of the commands.                        *)

GetOptionValue(s) == IF s \in DOMAIN opts["command"] THEN opts["command"][s] ELSE NotGiven

NameValid == GetOptionValue("--name") \in Names

(* main() knows no command "system": it returns 0.                          *)
System == pc = "system" /\ Exit("nothing")

RunRefused ==
    /\ pc = "run"
    /\ ~NameValid \/ rest = <<>>
    /\ Exit("refused")

Run ==
    /\ pc = "run" /\ NameValid /\ rest # <<>>
    /\ GoOn([name |-> GetOptionValue("--name"), volume |-> GetOptionValue("--volume"),
             memory |-> GetOptionValue("--memory"), words |-> rest])

(* exitIfNameInvalid() takes a std::string, and none can be made of a null  *)
(* pointer.                                                                 *)
StartUnnamed == pc = "start" /\ GetOptionValue("--name") = NotGiven /\ Exit("aborted")

StartRefused ==
    /\ pc = "start" /\ GetOptionValue("--name") # NotGiven /\ ~NameValid
    /\ Exit("refused")

Start == pc = "start" /\ NameValid /\ GoOn([name |-> GetOptionValue("--name")])

Parse ==
    \/ \E p \in Phases : UnknownOption(p) \/ TakeFlag(p) \/ TakeValue(p) \/ ValueMissing(p)
    \/ GlobalHelp \/ NoCommand \/ UnknownCommand \/ GetCmdInfo \/ CommandHelp \/ Dispatch

OtherThanRun == System \/ RunRefused \/ StartUnnamed \/ StartRefused \/ Start

Next == Parse \/ OtherThanRun \/ Run

-----------------------------------------------------------------------------
(* What a user may take a command line to mean, read off the whole line and *)
(* without a parser: a command, n options with their values, other words.   *)

IsLine(n) ==
    /\ Len(argv) > 2 * n
    /\ argv[1] \in {"run", "start"}
    /\ \A i \in 1..n : argv[2 * i] \in UNION {Spellings(o) : o \in Commands[argv[1]] \ {Help}}
    /\ Len(argv) > 2 * n + 1 => argv[2 * n + 2] \notin Dashed

(* The last value counts, and the long and the short spelling are one.      *)
Said(o, n) ==
    LET at == {i \in 1..n : argv[2 * i] \in Spellings(o)}
    IN  IF at = {} THEN NotGiven
        ELSE argv[2 * (CHOOSE i \in at : \A j \in at : j <= i) + 1]

Meant(n) ==
    IF argv[1] = "start" THEN [name |-> Said(Name, n)]
    ELSE [name |-> Said(Name, n), volume |-> Said(Volume, n), memory |-> Said(Memory, n),
          words |-> SubSeq(argv, 2 * n + 2, Len(argv))]

Meanings ==
    {Meant(n) : n \in {m \in 0..Len(argv) :
        /\ IsLine(m) /\ Said(Name, m) \in Names
        /\ argv[1] = "run" => Len(argv) > 2 * m + 1}}

(* Every variable has the values the parser can give it.                    *)
TypeOK ==
    /\ rest = <<"-h">> \/ \E n \in 0..Len(argv) : rest = SubSeq(argv, n + 1, Len(argv))
    /\ \A p \in Phases : DOMAIN opts[p] \subseteq AllSpellings
    /\ cmd \in {"none"} \cup DOMAIN Commands
    /\ pc \in Phases \cup DOMAIN Commands \cup {"end"}

(* The format of cmd_option.hpp:6-7: a line that means something is read in *)
(* that one way, and a line that means nothing (an unknown or a misplaced   *)
(* option, a value left out, help asked for) gets to neither run() nor      *)
(* deserialize() (cmd_option.cpp:92-156, 309-367).                          *)
ReadAsMeant == pc = "end" => goes = Meanings

(* Whatever was typed, the parser comes to an end (cmd_option.cpp:103).     *)
Ends == <>(pc = "end")

(* What cmd_option.cpp:62 says, "start [OPTIONS]": options may be left out; *)
(* no command line makes the program die of an uncaught exception.          *)
NeverAborts == how # "aborted"

=============================================================================
