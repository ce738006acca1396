--------------------------- MODULE ConfigureProofs ---------------------------
(* Theorems about Configure for every set of words and command lines, and   *)
(* texts of any length.                                                     *)
EXTENDS Configure, SequenceTheorems, FiniteSetTheorems, WellFoundedInduction, TLAPS

-----------------------------------------------------------------------------
(* The command line.  What the parser has used of it is a command and n     *)
(* options with their values.                                               *)

Valued == {Name, Volume, Memory}
OptionWords(c) == UNION {Spellings(o) : o \in Commands[c] \ {Help}}

(* The words of the options, one by one. *)
LEMMA OptionFacts ==
    /\ Spellings(Help) = {"--help", "-h"} /\ Spellings(Name) = {"--name", "-n"}
    /\ Spellings(Volume) = {"--volume", "-v"} /\ Spellings(Memory) = {"--memory", "-m"}
    /\ ~Help.takes /\ \A o \in Valued : o.takes /\ o # Help
    /\ Commands["run"] = Valued \cup {Help}
    /\ Commands["start"] = {Name, Help}
    /\ Commands["system"] = {Help}
    /\ DOMAIN Commands = {"run", "start", "system"}
<1>1. Help # Name /\ Help # Volume /\ Help # Memory
  BY DEF Help, Name, Volume, Memory, Option
<1> QED
  BY <1>1 DEF Help, Name, Volume, Memory, Option, Spellings, Valued, Commands

(* Every option of a command but --help takes a value, and no two options   *)
(* have a spelling in common.                                               *)
LEMMA CommandOptions ==
    ASSUME NEW c \in DOMAIN Commands
    PROVE  /\ Commands[c] \subseteq Valued \cup {Help}
           /\ Help \in Commands[c]
           /\ \A o \in Commands[c] \ {Help} : o \in Valued /\ Spellings(o) \subseteq OptionWords(c)
           /\ \A s \in OptionWords(c) : \E o \in Commands[c] \ {Help} : s \in Spellings(o)
           /\ OptionWords(c) \cap Spellings(Help) = {}
           /\ \A s \in OptionWords(c) : s \in Dashed
           /\ c \notin Dashed
<1>1. c \in {"run", "start", "system"}
  BY OptionFacts
<1>2. \A o \in Valued : Spellings(o) \cap Spellings(Help) = {}
  BY OptionFacts DEF Valued
<1>3. /\ Commands[c] \subseteq Valued \cup {Help}
      /\ Help \in Commands[c]
  BY <1>1, OptionFacts DEF Valued
<1>4. /\ \A o \in Commands[c] \ {Help} : o \in Valued /\ Spellings(o) \subseteq OptionWords(c)
      /\ \A s \in OptionWords(c) : \E o \in Commands[c] \ {Help} : s \in Spellings(o)
  BY <1>3 DEF OptionWords
<1>5. AllSpellings \subseteq Dashed /\ c \notin Dashed
  BY CmdLineAssumption
<1>6. \A o \in Valued : Spellings(o) \subseteq AllSpellings
  BY OptionFacts DEF AllSpellings
<1> QED
  BY <1>2, <1>3, <1>4, <1>5, <1>6

LEMMA ValuedApart ==
    ASSUME NEW o \in Valued, NEW q \in Valued, o # q
    PROVE  Spellings(o) \cap Spellings(q) = {}
BY OptionFacts DEF Valued

(* The option read last is the last one of its name. *)
LEMMA SaidNext ==
    ASSUME NEW o, NEW n \in Nat
    PROVE  Said(o, n + 1) = IF argv[2 * (n + 1)] \in Spellings(o) THEN argv[2 * (n + 1) + 1]
                                                                  ELSE Said(o, n)
<1> DEFINE at(k) == {i \in 1..k : argv[2 * i] \in Spellings(o)}
           last(k) == CHOOSE i \in at(k) : \A j \in at(k) : j <= i
<1>1. CASE argv[2 * (n + 1)] \in Spellings(o)
  <2>1. n + 1 \in at(n + 1) /\ \A j \in at(n + 1) : j <= n + 1 /\ j \in Nat
    BY <1>1
  <2>2. last(n + 1) = n + 1
    <3>1. \A i \in at(n + 1) : (\A j \in at(n + 1) : j <= i) <=> i = n + 1
      BY <2>1
    <3> HIDE DEF at
    <3> QED
      BY <2>1, <3>1
  <2>3. Said(o, n + 1) = IF at(n + 1) = {} THEN NotGiven ELSE argv[2 * last(n + 1) + 1]
    BY DEF Said
  <2> HIDE DEF at, last
  <2> QED
    BY <1>1, <2>1, <2>2, <2>3
<1>2. CASE argv[2 * (n + 1)] \notin Spellings(o)
  <2>1. at(n + 1) = at(n)
    BY <1>2
  <2>2. \A k : Said(o, k) = IF at(k) = {} THEN NotGiven ELSE argv[2 * last(k) + 1]
    BY DEF Said
  <2>3. last(n + 1) = last(n)
    BY <2>1
  <2> HIDE DEF at, last
  <2> QED
    BY <1>2, <2>1, <2>2, <2>3
<1> QED
  BY <1>1, <1>2

LEMMA SaidNothing == ASSUME NEW o PROVE Said(o, 0) = NotGiven
  BY DEF Said

(* n options of the command were read and a word was met that is no option, *)
(* or the end of the line: the line can have these options and no others.   *)
LEMMA StoppedAt ==
    ASSUME NEW n \in Nat, argv \in Seq(Words), 2 * n + 1 <= Len(argv),
           argv[1] \in DOMAIN Commands,
           \A i \in 1..n : argv[2 * i] \in OptionWords(argv[1]),
           2 * n + 2 <= Len(argv) => argv[2 * n + 2] \notin Dashed,
           NEW m \in Nat
    PROVE  IsLine(m) <=> m = n /\ argv[1] \in {"run", "start"}
<1>1. ASSUME IsLine(m) PROVE m = n /\ argv[1] \in {"run", "start"}
  <2>1. /\ Len(argv) > 2 * m
        /\ argv[1] \in {"run", "start"}
        /\ \A i \in 1..m : argv[2 * i] \in OptionWords(argv[1])
        /\ Len(argv) > 2 * m + 1 => argv[2 * m + 2] \notin Dashed
    BY <1>1 DEF IsLine, OptionWords
  <2>2. ASSUME m < n PROVE FALSE
    <3>1. m + 1 \in 1..n /\ 2 * (m + 1) = 2 * m + 2 /\ Len(argv) > 2 * m + 1
      BY <2>2
    <3>2. argv[2 * m + 2] \in OptionWords(argv[1])
      BY <3>1
    <3> QED
      BY <2>1, <3>1, <3>2, CommandOptions
  <2>3. ASSUME m > n PROVE FALSE
    <3>1. n + 1 \in 1..m /\ 2 * (n + 1) = 2 * n + 2 /\ 2 * n + 2 <= Len(argv)
      BY <2>1, <2>3
    <3>2. argv[2 * n + 2] \in OptionWords(argv[1])
      BY <2>1, <3>1
    <3> QED
      BY <3>1, <3>2, CommandOptions
  <2> QED
    BY <2>1, <2>2, <2>3
<1>2. ASSUME m = n, argv[1] \in {"run", "start"} PROVE IsLine(m)
  <2>1. Len(argv) > 2 * n /\ (Len(argv) > 2 * n + 1 => 2 * n + 2 <= Len(argv))
    OBVIOUS
  <2> QED
    BY <1>2, <2>1 DEF IsLine, OptionWords
<1> QED
  BY <1>1, <1>2

(* After n options comes one without its value, or a word that starts with  *)
(* "-" and is no option of the command, or --help: such a line means        *)
(* nothing.                                                                 *)
LEMMA StuckAt ==
    ASSUME NEW n \in Nat, argv \in Seq(Words), 2 * n + 2 <= Len(argv),
           argv[1] \in DOMAIN Commands,
           \A i \in 1..n : argv[2 * i] \in OptionWords(argv[1]),
           argv[2 * n + 2] \in Dashed,
           argv[2 * n + 2] \notin OptionWords(argv[1]) \/ Len(argv) = 2 * n + 2
    PROVE  Meanings = {}
<1> SUFFICES ASSUME NEW m \in 0..Len(argv), IsLine(m) PROVE FALSE
  BY DEF Meanings
<1>1. /\ Len(argv) > 2 * m
      /\ \A i \in 1..m : argv[2 * i] \in OptionWords(argv[1])
      /\ Len(argv) > 2 * m + 1 => argv[2 * m + 2] \notin Dashed
  BY DEF IsLine, OptionWords
<1>2. ASSUME m < n PROVE FALSE
  <2>1. m + 1 \in 1..n /\ 2 * (m + 1) = 2 * m + 2 /\ Len(argv) > 2 * m + 1
    BY <1>2
  <2>2. argv[2 * m + 2] \in OptionWords(argv[1])
    BY <2>1
  <2> QED
    BY <1>1, <2>1, <2>2, CommandOptions
<1>3. ASSUME m > n PROVE FALSE
  <2>1. n + 1 \in 1..m /\ 2 * (n + 1) = 2 * n + 2 /\ Len(argv) > 2 * n + 2
    BY <1>1, <1>3
  <2>2. argv[2 * n + 2] \in OptionWords(argv[1])
    BY <1>1, <2>1
  <2> QED
    BY <2>1, <2>2
<1>4. ASSUME m = n PROVE FALSE
  <2>1. Len(argv) > 2 * n + 1
    OBVIOUS
  <2> QED
    BY <1>1, <1>4, <2>1
<1> QED
  BY <1>2, <1>3, <1>4

(* Nor does a line that does not begin with a command. *)
LEMMA NoCommandMeansNothing ==
    ASSUME argv \in Seq(Words),
           argv = <<>> \/ argv[1] \in Dashed \/ argv[1] \notin {"run", "start"}
    PROVE  Meanings = {}
<1>1. {"run", "start"} \cap Dashed = {}
  BY CmdLineAssumption, OptionFacts
<1>2. ASSUME NEW m \in 0..Len(argv), IsLine(m) PROVE FALSE
  <2>1. Len(argv) > 0 /\ argv[1] \in {"run", "start"}
    BY <1>2 DEF IsLine
  <2> QED
    BY <1>1, <2>1
<1> QED
  BY <1>2 DEF Meanings

(* What is behind the first n items of a sequence. *)
LEMMA Suffix ==
    ASSUME NEW S, NEW s \in Seq(S), NEW n \in 0..Len(s), NEW t, t = SubSeq(s, n + 1, Len(s))
    PROVE  t \in Seq(S) /\ Len(t) = Len(s) - n /\ \A i \in 1..Len(t) : t[i] = s[n + i]
<1>1. CASE n = Len(s)
  BY <1>1
<1>2. CASE n < Len(s)
  BY <1>2
<1> QED
  BY <1>1, <1>2

LEMMA WholeSuffix ==
    ASSUME NEW S, NEW s \in Seq(S)
    PROVE  SubSeq(s, 0 + 1, Len(s)) = s /\ 0 \in 0..Len(s)
<1>1. SubSeq(s, 1, Len(s)) = s
  BY SubSeqFull
<1>2. 0 + 1 = 1
  OBVIOUS
<1> QED
  BY <1>1, <1>2

LEMMA TailOfSuffix ==
    ASSUME NEW S, NEW s \in Seq(S), NEW n \in 0..Len(s), NEW t, t = SubSeq(s, n + 1, Len(s)),
           t # <<>>
    PROVE  n + 1 <= Len(s) /\ Head(t) = s[n + 1] /\ Tail(t) = SubSeq(s, (n + 1) + 1, Len(s))
<1>1. t \in Seq(S) /\ Len(t) = Len(s) - n
  BY Suffix
<1>2. n + 1 \in 1..Len(s) /\ Len(s) \in (n + 1)..Len(s)
  BY <1>1, EmptySeq
<1> QED
  BY <1>2, HeadTailOfSubSeq

(* What is left of a line after one of its words, and after two. *)
LEMMA RestFacts ==
    ASSUME NEW S, NEW s \in Seq(S), NEW n \in 0..Len(s), NEW t, t = SubSeq(s, n + 1, Len(s)),
           t # <<>>
    PROVE  /\ n + 1 <= Len(s) /\ Len(t) = Len(s) - n /\ Head(t) = s[n + 1]
           /\ Tail(t) = SubSeq(s, (n + 1) + 1, Len(s))
           /\ Len(t) > 1 => /\ n + 2 <= Len(s) /\ t[2] = s[n + 2]
                            /\ Tail(Tail(t)) = SubSeq(s, (n + 2) + 1, Len(s))
<1>1. t \in Seq(S) /\ Len(t) = Len(s) - n /\ \A i \in 1..Len(t) : t[i] = s[n + i]
  BY Suffix
<1>2. n + 1 <= Len(s) /\ Head(t) = s[n + 1] /\ Tail(t) = SubSeq(s, (n + 1) + 1, Len(s))
  BY TailOfSuffix
<1>3. ASSUME Len(t) > 1 PROVE n + 2 <= Len(s) /\ t[2] = s[n + 2] /\ Tail(t) # <<>>
  <2>1. n + 2 <= Len(s) /\ t[2] = s[n + 2]
    BY <1>1, <1>3
  <2>2. Len(Tail(t)) = Len(t) - 1 /\ Len(t) \in Nat
    BY <1>1, <1>2, HeadTailProperties
  <2>3. Len(Tail(t)) # 0
    BY <1>3, <2>2
  <2> QED
    BY <2>1, <2>3, EmptySeq
<1>4. ASSUME Len(t) > 1 PROVE Tail(Tail(t)) = SubSeq(s, (n + 2) + 1, Len(s))
  <2>1. n + 1 \in 0..Len(s) /\ (n + 1) + 1 = n + 2
    BY <1>2
  <2>2. Tail(Tail(t)) = SubSeq(s, ((n + 1) + 1) + 1, Len(s))
    BY <1>2, <1>3, <1>4, <2>1, TailOfSuffix
  <2> QED
    BY <2>1, <2>2
<1> QED
  BY <1>1, <1>2, <1>3, <1>4

(* Of the command's part of the line n options were read, and their values  *)
(* are kept.                                                                *)
ReadTo(n) ==
    /\ 2 * n + 1 <= Len(argv) /\ argv[1] = cmd
    /\ rest = SubSeq(argv, (2 * n + 1) + 1, Len(argv))
    /\ \A i \in 1..n : argv[2 * i] \in OptionWords(cmd)
    /\ \A o \in Valued : \A s \in Spellings(o) : GetOptionValue(s) = Said(o, n)
    /\ ~Asked("command")

(* Before the command: nothing was read, or what comes first is --help.     *)
Unread == rest = argv /\ argv # <<>> /\ opts["global"] = Empty
HelpFirst == (argv = <<>> \/ argv[1] \in Dashed) /\ (rest = <<"-h">> \/ Asked("global"))

(* What the parser knows at each point of its way.                          *)
ParserInv ==
    /\ argv \in Seq(Words)
    /\ TypeOK
    /\ opts = [p \in Phases |-> opts[p]]
    /\ pc # "end" => goes = {}
    /\ pc = "global" => opts["command"] = Empty /\ cmd = "none" /\ (Unread \/ HelpFirst)
    /\ pc = "command" =>
         /\ cmd \in DOMAIN Commands
         /\ (\E n \in Nat : ReadTo(n)) \/ (Asked("command") /\ Meanings = {})
    /\ pc \in DOMAIN Commands =>
         pc = cmd /\ \E n \in Nat : ReadTo(n) /\ (rest # <<>> => Head(rest) \notin Dashed)
    /\ pc = "end" => goes = Meanings

LEMMA MeaningsStable == ASSUME argv' = argv PROVE Meanings' = Meanings
  BY DEF Meanings, Meant, Said, IsLine

LEMMA ReadToStable ==
    ASSUME UNCHANGED <<argv, rest, opts, cmd>>, NEW n PROVE ReadTo(n) <=> ReadTo(n)'
  BY DEF ReadTo, GetOptionValue, Said, Asked

LEMMA ParserStarts == Init => ParserInv
<1> SUFFICES ASSUME Init PROVE ParserInv
  OBVIOUS
<1> USE DEF Init
<1>1. argv \in Seq(Words)
  BY CmdLineAssumption
<1>2. rest = <<"-h">> \/ \E n \in 0..Len(argv) : rest = SubSeq(argv, n + 1, Len(argv))
  <2>1. CASE argv # <<>>
    <3>1. argv = SubSeq(argv, 0 + 1, Len(argv)) /\ 0 \in 0..Len(argv)
      BY <1>1, WholeSuffix, Zenon
    <3>2. rest = argv
      BY <2>1, Zenon
    <3> QED
      BY <3>1, <3>2, Zenon
  <2> QED
    BY <2>1
<1>3. opts["global"] = Empty /\ opts["command"] = Empty /\ opts = [p \in Phases |-> opts[p]]
  BY DEF Phases
<1>4. \A p \in Phases : DOMAIN opts[p] \subseteq AllSpellings
  BY DEF Empty, Phases
<1>5. TypeOK
  BY <1>2, <1>4 DEF TypeOK, Phases
<1>6. Unread \/ HelpFirst
  BY DEF Unread, HelpFirst, Phases
<1> QED
  BY <1>1, <1>3, <1>5, <1>6, OptionFacts DEF ParserInv

(* At the end of its options a line has at most the meaning that was read.  *)
LEMMA MeaningsOf ==
    ASSUME argv \in Seq(Words), cmd \in DOMAIN Commands, NEW n \in Nat, ReadTo(n),
           rest # <<>> => Head(rest) \notin Dashed
    PROVE  Meanings = IF /\ cmd \in {"run", "start"} /\ Said(Name, n) \in Names
                         /\ cmd = "run" => rest # <<>>
                      THEN {Meant(n)} ELSE {}
<1>1. /\ 2 * n + 1 <= Len(argv) /\ argv[1] = cmd
      /\ rest = SubSeq(argv, (2 * n + 1) + 1, Len(argv))
      /\ \A i \in 1..n : argv[2 * i] \in OptionWords(cmd)
  BY DEF ReadTo
<1>2. n \in 0..Len(argv) /\ 2 * n + 1 \in 0..Len(argv)
  <2>1. Len(argv) \in Nat
    BY LenProperties
  <2>2. 2 * n + 1 <= Len(argv)
    BY DEF ReadTo
  <2> QED
    BY <2>1, <2>2
<1>3. Len(rest) = Len(argv) - (2 * n + 1)
  BY <1>1, <1>2, Suffix
<1>4. rest # <<>> <=> Len(argv) > 2 * n + 1
  <2>1. rest \in Seq(Words)
    BY <1>1, <1>2, Suffix
  <2> QED
    BY <1>2, <1>3, <2>1, EmptySeq
<1>5. 2 * n + 2 <= Len(argv) => argv[2 * n + 2] \notin Dashed
  <2>1. ASSUME 2 * n + 2 <= Len(argv) PROVE argv[2 * n + 2] \notin Dashed
    <3>1. rest # <<>> /\ (2 * n + 1) + 1 = 2 * n + 2
      BY <1>4, <2>1
    <3>2. Head(rest) = argv[(2 * n + 1) + 1]
      BY <1>1, <1>2, <3>1, RestFacts
    <3> QED
      BY <3>1, <3>2
  <2> QED
    BY <2>1
<1>6. \A m \in 0..Len(argv) : IsLine(m) <=> m = n /\ cmd \in {"run", "start"}
  <2>1. \A m \in 0..Len(argv) : m \in Nat
    OBVIOUS
  <2> QED
    BY <1>1, <1>5, <2>1, StoppedAt
<1>7. \A m \in 0..Len(argv) :
        (IsLine(m) /\ Said(Name, m) \in Names /\ (argv[1] = "run" => Len(argv) > 2 * m + 1))
          <=> /\ m = n
              /\ cmd \in {"run", "start"} /\ Said(Name, n) \in Names
              /\ cmd = "run" => rest # <<>>
  BY <1>1, <1>4, <1>6
<1> QED
  BY <1>2, <1>7 DEF Meanings

SuffixOfLine(t) == t = <<"-h">> \/ \E n \in 0..Len(argv) : t = SubSeq(argv, n + 1, Len(argv))

LEMMA SuffixShrinks ==
    ASSUME argv \in Seq(Words), SuffixOfLine(rest), rest # <<>>
    PROVE  SuffixOfLine(Tail(rest)) /\ (Len(rest) > 1 => SuffixOfLine(Tail(Tail(rest))))
<1>1. CASE rest = <<"-h">>
  <2>1. Tail(rest) = <<>> /\ ~(Len(rest) > 1)
    BY <1>1
  <2>2. SubSeq(argv, Len(argv) + 1, Len(argv)) = <<>> /\ Len(argv) \in 0..Len(argv)
    BY LenProperties, SubSeqEmpty
  <2> QED
    BY <2>1, <2>2, Zenon DEF SuffixOfLine
<1>2. ASSUME NEW n \in 0..Len(argv), rest = SubSeq(argv, n + 1, Len(argv))
      PROVE  SuffixOfLine(Tail(rest)) /\ (Len(rest) > 1 => SuffixOfLine(Tail(Tail(rest))))
  <2>1. /\ n + 1 <= Len(argv) /\ Tail(rest) = SubSeq(argv, (n + 1) + 1, Len(argv))
        /\ Len(rest) > 1 => /\ n + 2 <= Len(argv)
                            /\ Tail(Tail(rest)) = SubSeq(argv, (n + 2) + 1, Len(argv))
    BY <1>2, RestFacts
  <2>2. n + 1 \in 0..Len(argv) /\ (Len(rest) > 1 => n + 2 \in 0..Len(argv))
    BY <2>1
  <2> QED
    BY <2>1, <2>2, Zenon DEF SuffixOfLine
<1> QED
  BY <1>1, <1>2 DEF SuffixOfLine

(* An end without a container is right when the line means nothing.         *)
LEMMA ExitKeeps ==
    ASSUME ParserInv, pc # "end", Meanings = {}, NEW h, Exit(h)
    PROVE  ParserInv'
<1>1. goes' = {} /\ pc' = "end"
  BY DEF ParserInv, Exit
<1>2. Meanings' = {}
  BY MeaningsStable DEF Exit
<1>3. TypeOK'
  BY DEF ParserInv, TypeOK, Exit
<1> QED
  BY <1>1, <1>2, <1>3, OptionFacts DEF ParserInv, Exit

(* An option goes into the map of its phase, under both its spellings.      *)
LEMMA OptionKept ==
    ASSUME ParserInv, NEW p \in Phases, pc = p, NEW o \in Lookup(p), NEW v,
           opts' = [opts EXCEPT ![p] = SetOptionMap(@, o, v)]
    PROVE  /\ opts' = [q \in Phases |-> opts'[q]]
           /\ opts'[p] = SetOptionMap(opts[p], o, v)
           /\ \A q \in Phases : q # p => opts'[q] = opts[q]
           /\ \A q \in Phases : DOMAIN opts'[q] \subseteq AllSpellings
           /\ o \in Valued \cup {Help} /\ Head(rest) \in Spellings(o)
           /\ p = "global" => o = Help
           /\ p = "command" => o \in Commands[cmd]
<1>1. /\ opts' = [q \in Phases |-> opts'[q]]
      /\ opts'[p] = SetOptionMap(opts[p], o, v)
      /\ \A q \in Phases : q # p => opts'[q] = opts[q]
  BY DEF ParserInv
<1>2. /\ p = "global" => o = Help
      /\ p = "command" => o \in Commands[cmd]
      /\ Head(rest) \in Spellings(o)
  BY DEF Lookup, OptionGroup, GlobalOptions, Phases
<1>3. o \in Valued \cup {Help}
  <2>1. p = "command" => cmd \in DOMAIN Commands
    BY DEF ParserInv
  <2> QED
    BY <1>2, <2>1, CommandOptions DEF Phases
<1>4. Spellings(o) \subseteq AllSpellings
  BY <1>3, OptionFacts DEF AllSpellings
<1>5. DOMAIN SetOptionMap(opts[p], o, v) = DOMAIN opts[p] \cup Spellings(o)
  BY DEF SetOptionMap
<1>6. \A q \in Phases : DOMAIN opts[q] \subseteq AllSpellings
  BY DEF ParserInv, TypeOK
<1> QED
  BY <1>1, <1>2, <1>3, <1>4, <1>5, <1>6

(* --help once read stays read. *)
LEMMA HelpKept ==
    ASSUME NEW p, NEW o, NEW v, opts'[p] = SetOptionMap(opts[p], o, v),
           Asked(p) \/ o = Help
    PROVE  Asked(p)'
<1>1. DOMAIN opts'[p] = DOMAIN opts[p] \cup Spellings(o)
  BY DEF SetOptionMap
<1>2. Spellings(Help) # {}
  BY OptionFacts
<1> QED
  BY <1>1, <1>2 DEF Asked

LEMMA TakeFlagKeeps ==
    ASSUME ParserInv, NEW p \in Phases, TakeFlag(p)
    PROVE  ParserInv'
<1>0. /\ pc = p /\ rest # <<>> /\ Head(rest) \in Dashed /\ rest' = Tail(rest)
      /\ UNCHANGED <<argv, cmd, pc, how, goes>>
  BY DEF TakeFlag, AtOption
<1>1. PICK o \in Lookup(p) : ~o.takes /\ opts' = [opts EXCEPT ![p] = SetOptionMap(@, o, "")]
  BY DEF TakeFlag
<1>2. /\ opts' = [q \in Phases |-> opts'[q]]
      /\ opts'[p] = SetOptionMap(opts[p], o, "")
      /\ \A q \in Phases : q # p => opts'[q] = opts[q]
      /\ \A q \in Phases : DOMAIN opts'[q] \subseteq AllSpellings
      /\ o \in Valued \cup {Help} /\ Head(rest) \in Spellings(o)
  BY <1>0, <1>1, OptionKept
<1>3. o = Help
  BY <1>1, <1>2, OptionFacts
<1>4. Asked(p)'
  BY <1>2, <1>3, HelpKept
<1>5. argv \in Seq(Words) /\ SuffixOfLine(rest)
  BY DEF ParserInv, TypeOK, SuffixOfLine
<1>6. TypeOK'
  <2>1. SuffixOfLine(Tail(rest))
    BY <1>0, <1>5, SuffixShrinks
  <2>2. (rest = <<"-h">> \/ \E n \in 0..Len(argv) : rest = SubSeq(argv, n + 1, Len(argv)))'
    BY <1>0, <2>1 DEF SuffixOfLine
  <2>3. cmd \in {"none"} \cup DOMAIN Commands /\ pc \in Phases \cup DOMAIN Commands \cup {"end"}
    BY DEF ParserInv, TypeOK
  <2> QED
    BY <1>0, <1>2, <2>2, <2>3 DEF TypeOK
<1>7. goes' = {}
  BY <1>0 DEF ParserInv, Phases
<1>8. CASE p = "global"
  <2>1. opts["command"] = Empty /\ cmd = "none" /\ (Unread \/ HelpFirst)
    BY <1>0, <1>8 DEF ParserInv
  <2>2. argv = <<>> \/ argv[1] \in Dashed
    BY <1>0, <2>1 DEF Unread, HelpFirst
  <2>3. HelpFirst'
    BY <1>0, <1>4, <1>8, <2>2 DEF HelpFirst
  <2>4. opts'["command"] = Empty
    BY <1>2, <1>8, <2>1 DEF Phases
  <2> QED
    BY <1>0, <1>2, <1>5, <1>6, <1>7, <1>8, <2>1, <2>3, <2>4, OptionFacts DEF ParserInv
<1>9. CASE p = "command"
  <2>1. cmd \in DOMAIN Commands /\ ((\E n \in Nat : ReadTo(n)) \/ Meanings = {})
    BY <1>0, <1>9 DEF ParserInv
  <2>2. ASSUME NEW n \in Nat, ReadTo(n) PROVE Meanings = {}
    <3>1. /\ 2 * n + 1 <= Len(argv) /\ argv[1] = cmd
          /\ rest = SubSeq(argv, (2 * n + 1) + 1, Len(argv))
          /\ \A i \in 1..n : argv[2 * i] \in OptionWords(cmd)
      BY <2>2 DEF ReadTo
    <3>2. 2 * n + 1 \in 0..Len(argv)
      BY <1>5, <3>1, LenProperties
    <3>3. (2 * n + 1) + 1 <= Len(argv) /\ Head(rest) = argv[(2 * n + 1) + 1]
      BY <1>0, <1>5, <3>1, <3>2, RestFacts
    <3>4. 2 * n + 2 <= Len(argv) /\ Head(rest) = argv[2 * n + 2]
      BY <3>3
    <3>5. Head(rest) \notin OptionWords(cmd)
      BY <1>2, <1>3, <2>1, CommandOptions, Zenon
    <3>6. argv[2 * n + 2] \in Dashed /\ argv[2 * n + 2] \notin OptionWords(argv[1])
      BY <1>0, <3>1, <3>4, <3>5, Zenon
    <3> QED
      BY <1>5, <2>1, <3>1, <3>4, <3>6, StuckAt
  <2>3. Meanings' = {}
    BY <1>0, <2>1, <2>2, MeaningsStable
  <2> QED
    BY <1>0, <1>2, <1>4, <1>5, <1>6, <1>7, <1>9, <2>1, <2>3, OptionFacts DEF ParserInv
<1> QED
  BY <1>8, <1>9 DEF Phases

(* An option's value read in n + 1st place is what is meant by the option.  *)
LEMMA TakeValueReads ==
    ASSUME ParserInv, pc = "command", NEW n \in Nat, ReadTo(n), TakeValue("command")
    PROVE  ReadTo(n + 1)'
<1>0. /\ AtOption("command") /\ Len(rest) > 1 /\ rest' = Tail(Tail(rest))
      /\ UNCHANGED <<argv, cmd>>
  BY DEF TakeValue
<1>1. PICK o \in Lookup("command") :
        o.takes /\ opts' = [opts EXCEPT !["command"] = SetOptionMap(@, o, rest[2])]
  BY DEF TakeValue
<1>2. /\ opts'["command"] = SetOptionMap(opts["command"], o, rest[2])
      /\ o \in Valued \cup {Help} /\ Head(rest) \in Spellings(o)
      /\ o \in Commands[cmd]
  BY <1>1, OptionKept DEF Phases
<1>3. o \in Valued /\ o # Help
  BY <1>1, <1>2, OptionFacts
<1>4. argv \in Seq(Words) /\ cmd \in DOMAIN Commands
  BY DEF ParserInv
<1>5. /\ 2 * n + 1 <= Len(argv) /\ argv[1] = cmd
      /\ rest = SubSeq(argv, (2 * n + 1) + 1, Len(argv))
      /\ \A i \in 1..n : argv[2 * i] \in OptionWords(cmd)
      /\ \A q \in Valued : \A s \in Spellings(q) : GetOptionValue(s) = Said(q, n)
      /\ ~Asked("command")
  BY DEF ReadTo
<1>6. 2 * n + 1 \in 0..Len(argv)
  BY <1>4, <1>5, LenProperties
<1>7. /\ (2 * n + 1) + 2 <= Len(argv)
      /\ Head(rest) = argv[(2 * n + 1) + 1] /\ rest[2] = argv[(2 * n + 1) + 2]
      /\ Tail(Tail(rest)) = SubSeq(argv, ((2 * n + 1) + 2) + 1, Len(argv))
  <2>1. rest # <<>>
    BY <1>0 DEF AtOption
  <2> QED
    BY <1>0, <1>4, <1>5, <1>6, <2>1, RestFacts
<1>8. /\ (2 * n + 1) + 2 = 2 * (n + 1) + 1 /\ (2 * n + 1) + 1 = 2 * (n + 1)
      /\ \A i \in 1..(n + 1) : i \in 1..n \/ i = n + 1
  OBVIOUS
<1>9. /\ 2 * (n + 1) + 1 <= Len(argv)
      /\ argv[2 * (n + 1)] \in Spellings(o) /\ rest[2] = argv[2 * (n + 1) + 1]
      /\ Tail(Tail(rest)) = SubSeq(argv, (2 * (n + 1) + 1) + 1, Len(argv))
  BY <1>2, <1>7, <1>8, Zenon
<1>10. \A i \in 1..(n + 1) : argv[2 * i] \in OptionWords(cmd)
  <2>1. argv[2 * (n + 1)] \in OptionWords(cmd)
    BY <1>2, <1>3, <1>4, <1>9, CommandOptions, Zenon
  <2> QED
    BY <1>5, <1>8, <2>1, Zenon
<1>11. DOMAIN opts'["command"] = DOMAIN opts["command"] \cup Spellings(o)
  BY <1>2 DEF SetOptionMap
<1>12. ~Asked("command")'
  <2>1. Spellings(o) \cap Spellings(Help) = {}
    BY <1>3, OptionFacts DEF Valued
  <2> QED
    BY <1>5, <1>11, <2>1, Zenon DEF Asked
<1>13. ASSUME NEW q \in Valued, NEW s \in Spellings(q)
       PROVE  GetOptionValue(s)' = Said(q, n + 1)
  <2>1. GetOptionValue(s)' = IF s \in Spellings(o) THEN rest[2] ELSE GetOptionValue(s)
    BY <1>2, <1>11 DEF GetOptionValue, SetOptionMap
  <2>2. GetOptionValue(s) = Said(q, n)
    BY <1>5
  <2>3. CASE q = o
    BY <1>9, <1>13, <2>1, <2>3, SaidNext
  <2>4. CASE q # o
    <3>1. Spellings(q) \cap Spellings(o) = {}
      BY <1>3, <2>4, ValuedApart
    <3> QED
      BY <1>9, <1>13, <2>1, <2>2, <3>1, SaidNext
  <2> QED
    BY <2>3, <2>4
<1>14. \A q : Said(q, n + 1)' = Said(q, n + 1)
  BY <1>0 DEF Said
<1> QED
  BY <1>0, <1>5, <1>9, <1>10, <1>12, <1>13, <1>14, Zenon DEF ReadTo

LEMMA TakeValueKeeps ==
    ASSUME ParserInv, NEW p \in Phases, TakeValue(p)
    PROVE  ParserInv'
<1>0. /\ pc = p /\ AtOption(p) /\ rest # <<>> /\ Len(rest) > 1 /\ rest' = Tail(Tail(rest))
      /\ UNCHANGED <<argv, cmd, pc, how, goes>>
  BY DEF TakeValue, AtOption
<1>1. PICK o \in Lookup(p) : o.takes /\ opts' = [opts EXCEPT ![p] = SetOptionMap(@, o, rest[2])]
  BY DEF TakeValue
<1>2. /\ opts' = [q \in Phases |-> opts'[q]]
      /\ opts'[p] = SetOptionMap(opts[p], o, rest[2])
      /\ \A q \in Phases : DOMAIN opts'[q] \subseteq AllSpellings
      /\ p = "global" => o = Help
  BY <1>0, <1>1, OptionKept
<1>3. p = "command"
  BY <1>1, <1>2, OptionFacts DEF Phases
<1>4. argv \in Seq(Words) /\ SuffixOfLine(rest)
  BY DEF ParserInv, TypeOK, SuffixOfLine
<1>5. TypeOK'
  <2>1. SuffixOfLine(Tail(Tail(rest)))
    BY <1>0, <1>4, SuffixShrinks
  <2>2. (rest = <<"-h">> \/ \E n \in 0..Len(argv) : rest = SubSeq(argv, n + 1, Len(argv)))'
    BY <1>0, <2>1 DEF SuffixOfLine
  <2>3. cmd \in {"none"} \cup DOMAIN Commands /\ pc \in Phases \cup DOMAIN Commands \cup {"end"}
    BY DEF ParserInv, TypeOK
  <2> QED
    BY <1>0, <1>2, <2>2, <2>3 DEF TypeOK
<1>6. goes' = {}
  BY <1>0 DEF ParserInv, Phases
<1>7. cmd \in DOMAIN Commands /\ ((\E n \in Nat : ReadTo(n)) \/ (Asked("command") /\ Meanings = {}))
  BY <1>0, <1>3 DEF ParserInv
<1>8. (\E n \in Nat : ReadTo(n)') \/ (Asked("command")' /\ Meanings' = {})
  <2>1. CASE \E n \in Nat : ReadTo(n)
    <3>1. PICK n \in Nat : ReadTo(n)
      BY <2>1
    <3>2. ReadTo(n + 1)' /\ n + 1 \in Nat
      BY <1>0, <1>3, <3>1, TakeValueReads
    <3> QED
      BY <3>2
  <2>2. CASE Asked("command") /\ Meanings = {}
    BY <1>0, <1>2, <1>3, <2>2, HelpKept, MeaningsStable
  <2> QED
    BY <1>7, <2>1, <2>2
<1> QED
  BY <1>0, <1>2, <1>3, <1>4, <1>5, <1>6, <1>7, <1>8, OptionFacts DEF ParserInv

(* The first word of what is left, as a word of the line. *)
LEMMA NextWord ==
    ASSUME argv \in Seq(Words), NEW n \in Nat, ReadTo(n), rest # <<>>
    PROVE  /\ 2 * n + 2 <= Len(argv) /\ Head(rest) = argv[2 * n + 2]
           /\ Len(rest) = 1 => Len(argv) = 2 * n + 2
<1>1. 2 * n + 1 <= Len(argv) /\ rest = SubSeq(argv, (2 * n + 1) + 1, Len(argv))
  BY DEF ReadTo
<1>2. 2 * n + 1 \in 0..Len(argv)
  BY <1>1, LenProperties
<1>3. /\ (2 * n + 1) + 1 <= Len(argv) /\ Head(rest) = argv[(2 * n + 1) + 1]
      /\ Len(rest) = Len(argv) - (2 * n + 1)
  BY <1>1, <1>2, RestFacts
<1>4. (2 * n + 1) + 1 = 2 * n + 2 /\ Len(argv) \in Nat
  BY LenProperties
<1>5. ASSUME Len(rest) = 1 PROVE Len(argv) = 2 * n + 2
  <2>1. Len(argv) - (2 * n + 1) = 1
    BY <1>3, <1>5, Zenon
  <2> QED
    BY <1>4, <2>1
<1> QED
  BY <1>3, <1>4, <1>5, Zenon

(* Where options cannot be read on, the line means nothing. *)
LEMMA StuckMeansNothing ==
    ASSUME ParserInv, NEW p \in Phases, UnknownOption(p) \/ ValueMissing(p)
    PROVE  Meanings = {}
<1>0. /\ pc = p /\ rest # <<>> /\ Head(rest) \in Dashed /\ argv \in Seq(Words)
      /\ Lookup(p) = {} \/ (Len(rest) = 1 /\ \E o \in Lookup(p) : o.takes)
  BY DEF UnknownOption, ValueMissing, AtOption, ParserInv
<1>1. CASE p = "global"
  <2>1. argv = <<>> \/ argv[1] \in Dashed
    BY <1>0, <1>1 DEF ParserInv, Unread, HelpFirst
  <2> QED
    BY <1>0, <2>1, NoCommandMeansNothing
<1>2. CASE p = "command"
  <2>1. cmd \in DOMAIN Commands /\ ((\E n \in Nat : ReadTo(n)) \/ Meanings = {})
    BY <1>0, <1>2 DEF ParserInv
  <2>2. ASSUME NEW n \in Nat, ReadTo(n) PROVE Meanings = {}
    <3>1. /\ 2 * n + 2 <= Len(argv) /\ Head(rest) = argv[2 * n + 2]
          /\ Len(rest) = 1 => Len(argv) = 2 * n + 2
      BY <1>0, <2>2, NextWord
    <3>2. /\ 2 * n + 1 <= Len(argv) /\ argv[1] = cmd
          /\ \A i \in 1..n : argv[2 * i] \in OptionWords(cmd)
      BY <2>2 DEF ReadTo
    <3>3. Lookup(p) = {} => Head(rest) \notin OptionWords(cmd)
      <4>1. ASSUME Head(rest) \in OptionWords(cmd) PROVE \E o \in Commands[cmd] : Head(rest) \in Spellings(o)
        BY <4>1, <2>1, CommandOptions
      <4> QED
        BY <1>2, <4>1 DEF Lookup, OptionGroup
    <3>4. argv[2 * n + 2] \in Dashed
      BY <1>0, <3>1, Zenon
    <3>5. argv[2 * n + 2] \notin OptionWords(argv[1]) \/ Len(argv) = 2 * n + 2
      BY <1>0, <3>1, <3>2, <3>3, Zenon
    <3> QED
      BY <1>0, <2>1, <3>1, <3>2, <3>4, <3>5, StuckAt
  <2> QED
    BY <2>1, <2>2
<1> QED
  BY <1>1, <1>2 DEF Phases

LEMMA GlobalEndMeansNothing ==
    ASSUME ParserInv, GlobalHelp \/ NoCommand \/ UnknownCommand
    PROVE  Meanings = {}
<1>1. /\ pc = "global" /\ ~AtOption("global") /\ argv \in Seq(Words) /\ (Unread \/ HelpFirst)
      /\ Asked("global") \/ rest = <<>> \/ Head(rest) \notin DOMAIN Commands
  BY DEF GlobalHelp, NoCommand, UnknownCommand, Parsed, ParserInv
<1>2. CASE HelpFirst
  BY <1>1, <1>2, NoCommandMeansNothing DEF HelpFirst
<1>3. CASE Unread
  <2>1. ~Asked("global")
    BY <1>3 DEF Unread, Asked, Empty
  <2>2. argv # <<>> /\ Head(argv) \notin DOMAIN Commands
    BY <1>1, <1>3, <2>1 DEF Unread
  <2>3. argv[1] \notin {"run", "start"}
    BY <1>1, <2>2, OptionFacts
  <2> QED
    BY <1>1, <2>3, NoCommandMeansNothing
<1> QED
  BY <1>1, <1>2, <1>3

LEMMA GetCmdInfoKeeps == ASSUME ParserInv, GetCmdInfo PROVE ParserInv'
<1>0. /\ pc = "global" /\ ~AtOption("global") /\ ~Asked("global") /\ rest # <<>>
      /\ Head(rest) \in DOMAIN Commands /\ cmd' = Head(rest) /\ rest' = Tail(rest)
      /\ pc' = "command" /\ UNCHANGED <<argv, opts, how, goes>>
  BY DEF GetCmdInfo, Parsed
<1>1. argv \in Seq(Words) /\ SuffixOfLine(rest)
  BY DEF ParserInv, TypeOK, SuffixOfLine
<1>2. Unread /\ opts["command"] = Empty /\ goes = {}
  <2>1. (Unread \/ HelpFirst) /\ opts["command"] = Empty /\ goes = {}
    BY <1>0 DEF ParserInv
  <2>2. rest # <<"-h">>
    <3>1. "-h" \in Dashed
      BY CmdLineAssumption, OptionFacts DEF AllSpellings
    <3>2. Head(<<"-h">>) = "-h"
      OBVIOUS
    <3> QED
      BY <1>0, <3>1, <3>2 DEF AtOption
  <2> QED
    BY <1>0, <2>1, <2>2 DEF HelpFirst
<1>3. TypeOK'
  <2>1. SuffixOfLine(Tail(rest))
    BY <1>0, <1>1, SuffixShrinks
  <2>2. (rest = <<"-h">> \/ \E n \in 0..Len(argv) : rest = SubSeq(argv, n + 1, Len(argv)))'
    BY <1>0, <2>1 DEF SuffixOfLine
  <2>3. \A p \in Phases : DOMAIN opts'[p] \subseteq AllSpellings
    BY <1>0 DEF ParserInv, TypeOK
  <2> QED
    BY <1>0, <2>2, <2>3 DEF TypeOK, Phases
<1>4. ReadTo(0)'
  <2>1. rest = argv /\ argv # <<>>
    BY <1>2 DEF Unread
  <2>2. 1 \in 1..Len(argv) /\ Len(argv) \in 1..Len(argv) /\ 2 * 0 + 1 <= Len(argv)
    BY <1>1, <2>1, EmptySeq
  <2>3. Head(argv) = argv[1] /\ Tail(argv) = SubSeq(argv, 2, Len(argv))
    BY <1>1, <2>1, TailIsSubSeq
  <2>4. \A o \in Valued : \A s \in Spellings(o) : GetOptionValue(s)' = Said(o, 0)'
    <3>1. \A s : GetOptionValue(s)' = NotGiven
      BY <1>0, <1>2 DEF GetOptionValue, Empty
    <3> QED
      BY <3>1, SaidNothing DEF Said
  <2>5. ~Asked("command")'
    BY <1>0, <1>2 DEF Asked, Empty
  <2>6. (2 * 0 + 1) + 1 = 2 /\ \A i \in 1..0 : FALSE
    OBVIOUS
  <2>7. rest' = SubSeq(argv', (2 * 0 + 1) + 1, Len(argv')) /\ argv'[1] = cmd'
    BY <1>0, <2>1, <2>3, <2>6, Zenon
  <2>8. 2 * 0 + 1 <= Len(argv')
    BY <1>0, <2>2, Zenon
  <2> QED
    BY <2>4, <2>5, <2>6, <2>7, <2>8, Zenon DEF ReadTo
<1>5. 0 \in Nat
  OBVIOUS
<1> QED
  BY <1>0, <1>1, <1>2, <1>3, <1>4, <1>5, OptionFacts DEF ParserInv

(* A command without options and words has no name. *)
LEMMA BareMeansNothing ==
    ASSUME ParserInv, NEW n \in Nat, ReadTo(n), cmd \in DOMAIN Commands, Bare
    PROVE  Meanings = {}
<1>1. rest = <<>> /\ GetOptionValue("--name") = NotGiven
  BY DEF Bare, GetOptionValue
<1>2. Said(Name, n) = NotGiven
  BY <1>1, OptionFacts DEF ReadTo, Valued
<1>3. argv \in Seq(Words) /\ NotGiven \notin Names
  BY CmdLineAssumption DEF ParserInv
<1> QED
  BY <1>1, <1>2, <1>3, MeaningsOf

LEMMA CommandHelpMeansNothing == ASSUME ParserInv, CommandHelp PROVE Meanings = {}
<1>1. pc = "command" /\ (Asked("command") \/ Bare)
  BY DEF CommandHelp, Parsed
<1>2. cmd \in DOMAIN Commands /\ ((\E n \in Nat : ReadTo(n)) \/ Meanings = {})
  BY <1>1 DEF ParserInv
<1>3. ASSUME NEW n \in Nat, ReadTo(n) PROVE Meanings = {}
  <2>1. Bare
    BY <1>1, <1>3 DEF ReadTo
  <2> QED
    BY <1>2, <1>3, <2>1, BareMeansNothing
<1> QED
  BY <1>2, <1>3

LEMMA DispatchKeeps == ASSUME ParserInv, Dispatch PROVE ParserInv'
<1>0. /\ pc = "command" /\ ~AtOption("command") /\ ~Asked("command") /\ pc' = cmd
      /\ UNCHANGED <<argv, rest, opts, cmd, how, goes>>
  BY DEF Dispatch, Parsed
<1>1. cmd \in DOMAIN Commands /\ (\E n \in Nat : ReadTo(n)) /\ goes = {}
  BY <1>0 DEF ParserInv
<1>2. PICK n \in Nat : ReadTo(n)
  BY <1>1
<1>3. ReadTo(n)' /\ (rest' # <<>> => Head(rest') \notin Dashed)
  BY <1>0, <1>2, ReadToStable DEF AtOption
<1>4. TypeOK'
  BY <1>0, <1>1 DEF ParserInv, TypeOK
<1>5. argv' \in Seq(Words) /\ opts' = [p \in Phases |-> opts'[p]]
  BY <1>0 DEF ParserInv
<1> QED
  BY <1>0, <1>1, <1>3, <1>4, <1>5, OptionFacts DEF ParserInv

(* The commands' own checks let exactly the lines through that mean         *)
(* something.                                                               *)
LEMMA ChecksAgree ==
    ASSUME ParserInv, pc \in {"run", "start", "system"}
    PROVE  /\ pc = "system" => Meanings = {}
           /\ pc # "system" /\ ~NameValid => Meanings = {}
           /\ pc = "run" /\ rest = <<>> => Meanings = {}
           /\ pc = "run" /\ NameValid /\ rest # <<>> =>
                Meanings = {[name |-> GetOptionValue("--name"),
                             volume |-> GetOptionValue("--volume"),
                             memory |-> GetOptionValue("--memory"), words |-> rest]}
           /\ pc = "start" /\ NameValid => Meanings = {[name |-> GetOptionValue("--name")]}
<1>1. argv \in Seq(Words) /\ pc = cmd /\ cmd \in DOMAIN Commands
      /\ \E n \in Nat : ReadTo(n) /\ (rest # <<>> => Head(rest) \notin Dashed)
  BY OptionFacts DEF ParserInv
<1>2. PICK n \in Nat : ReadTo(n) /\ (rest # <<>> => Head(rest) \notin Dashed)
  BY <1>1
<1>3. Meanings = IF /\ cmd \in {"run", "start"} /\ Said(Name, n) \in Names
                    /\ cmd = "run" => rest # <<>>
                 THEN {Meant(n)} ELSE {}
  BY <1>1, <1>2, MeaningsOf
<1>4. /\ GetOptionValue("--name") = Said(Name, n)
      /\ GetOptionValue("--volume") = Said(Volume, n)
      /\ GetOptionValue("--memory") = Said(Memory, n)
  BY <1>2, OptionFacts DEF ReadTo, Valued
<1>5. argv[1] = cmd /\ rest = SubSeq(argv, 2 * n + 2, Len(argv))
  <2>1. argv[1] = cmd /\ rest = SubSeq(argv, (2 * n + 1) + 1, Len(argv))
    BY <1>2 DEF ReadTo
  <2>2. (2 * n + 1) + 1 = 2 * n + 2
    OBVIOUS
  <2> QED
    BY <2>1, <2>2, Zenon
<1>6. cmd = "run" =>
        Meant(n) = [name |-> GetOptionValue("--name"), volume |-> GetOptionValue("--volume"),
                    memory |-> GetOptionValue("--memory"), words |-> rest]
  BY <1>4, <1>5, Zenon DEF Meant
<1>7. cmd = "start" => Meant(n) = [name |-> GetOptionValue("--name")]
  BY <1>4, <1>5 DEF Meant
<1> HIDE DEF GetOptionValue, Meanings
<1> QED
  BY <1>1, <1>3, <1>4, <1>6, <1>7 DEF NameValid

LEMMA EndKeeps ==
    ASSUME ParserInv, goes' = Meanings, pc' = "end", UNCHANGED <<argv, rest, opts, cmd>>
    PROVE  ParserInv'
<1>1. TypeOK' /\ argv' \in Seq(Words) /\ opts' = [p \in Phases |-> opts'[p]]
  BY DEF ParserInv, TypeOK
<1>2. goes' = Meanings'
  BY MeaningsStable
<1> QED
  BY <1>1, <1>2, OptionFacts DEF ParserInv

LEMMA CommandKeeps == ASSUME ParserInv, OtherThanRun \/ Run PROVE ParserInv'
<1>1. CASE System \/ RunRefused \/ StartUnnamed \/ StartRefused
  <2>1. pc \in {"run", "start", "system"} /\ goes = {} /\ pc' = "end" /\ goes' = goes
        /\ UNCHANGED <<argv, rest, opts, cmd>>
    BY <1>1 DEF System, RunRefused, StartUnnamed, StartRefused, Exit, ParserInv
  <2>2. Meanings = {}
    <3>1. StartUnnamed => ~NameValid
      BY CmdLineAssumption DEF StartUnnamed, NameValid
    <3>2. pc = "system" \/ (pc # "system" /\ ~NameValid) \/ (pc = "run" /\ rest = <<>>)
      BY <1>1, <3>1 DEF System, RunRefused, StartUnnamed, StartRefused
    <3> QED
      BY <2>1, <3>2, ChecksAgree
  <2> QED
    BY <2>1, <2>2, EndKeeps
<1>2. CASE Start
  <2>1. /\ pc = "start" /\ NameValid /\ pc' = "end"
        /\ goes' = {[name |-> GetOptionValue("--name")]}
        /\ UNCHANGED <<argv, rest, opts, cmd>>
    BY <1>2 DEF Start, GoOn
  <2>2. Meanings = {[name |-> GetOptionValue("--name")]}
    BY <2>1, ChecksAgree
  <2> QED
    BY <2>1, <2>2, EndKeeps
<1>3. CASE Run
  <2>1. /\ pc = "run" /\ NameValid /\ rest # <<>> /\ pc' = "end"
        /\ goes' = {[name |-> GetOptionValue("--name"), volume |-> GetOptionValue("--volume"),
                     memory |-> GetOptionValue("--memory"), words |-> rest]}
        /\ UNCHANGED <<argv, rest, opts, cmd>>
    BY <1>3 DEF Run, GoOn
  <2>2. Meanings = {[name |-> GetOptionValue("--name"), volume |-> GetOptionValue("--volume"),
                     memory |-> GetOptionValue("--memory"), words |-> rest]}
    BY <2>1, ChecksAgree
  <2> QED
    BY <2>1, <2>2, EndKeeps
<1> QED
  BY <1>1, <1>2, <1>3 DEF OtherThanRun

LEMMA ParserStep == ASSUME ParserInv, Parse \/ OtherThanRun \/ Run PROVE ParserInv'
<1>1. CASE \E p \in Phases : TakeFlag(p)
  BY <1>1, TakeFlagKeeps
<1>2. CASE \E p \in Phases : TakeValue(p)
  BY <1>2, TakeValueKeeps
<1>3. CASE \E p \in Phases : UnknownOption(p) \/ ValueMissing(p)
  <2>1. PICK p \in Phases : UnknownOption(p) \/ ValueMissing(p)
    BY <1>3
  <2>2. pc # "end" /\ \E h : Exit(h)
    BY <2>1 DEF UnknownOption, ValueMissing, AtOption, Phases
  <2> QED
    BY <2>1, <2>2, StuckMeansNothing, ExitKeeps
<1>4. CASE GlobalHelp \/ NoCommand \/ UnknownCommand
  <2>1. pc # "end" /\ \E h : Exit(h)
    BY <1>4 DEF GlobalHelp, NoCommand, UnknownCommand, Parsed
  <2> QED
    BY <1>4, <2>1, GlobalEndMeansNothing, ExitKeeps
<1>5. CASE CommandHelp
  <2>1. pc # "end" /\ \E h : Exit(h)
    BY <1>5 DEF CommandHelp, Parsed
  <2> QED
    BY <1>5, <2>1, CommandHelpMeansNothing, ExitKeeps
<1> QED
  BY <1>1, <1>2, <1>3, <1>4, <1>5, GetCmdInfoKeeps, DispatchKeeps, CommandKeeps DEF Parse

LEMMA ParserStutter == ASSUME ParserInv, UNCHANGED vars PROVE ParserInv'
<1> USE DEF vars
<1>1. Meanings' = Meanings /\ \A n : ReadTo(n) <=> ReadTo(n)'
  BY MeaningsStable, ReadToStable
<1>2. TypeOK' /\ (Unread <=> Unread') /\ (HelpFirst <=> HelpFirst')
      /\ (Asked("command") <=> Asked("command")')
  BY DEF ParserInv, TypeOK, Unread, HelpFirst, Asked
<1> QED
  BY <1>1, <1>2 DEF ParserInv

THEOREM ParserInvariant == ConfigureSpec => []ParserInv
<1>1. ConfigureInit => ParserInv
  BY ParserStarts DEF ConfigureInit
<1>2. ParserInv /\ [ConfigureNext]_<<vars, infoVars>> => ParserInv'
  <2> SUFFICES ASSUME ParserInv, [ConfigureNext]_<<vars, infoVars>> PROVE ParserInv'
    OBVIOUS
  <2> QED
    BY ParserStep, ParserStutter DEF ConfigureNext, Reading, Hand, Configuring
<1> QED
  BY <1>1, <1>2, PTL DEF ConfigureSpec

(* The format of cmd_option.hpp:6-7, for every set of words and every       *)
(* command line of them: a line that means something is read in that one    *)
(* way, and a line that means nothing gets to neither run() nor             *)
(* deserialize() (cmd_option.cpp:92-156, 309-367).                          *)
THEOREM LinesReadAsMeant == ConfigureSpec => []ReadAsMeant
<1>1. ParserInv => ReadAsMeant
  BY DEF ParserInv, ReadAsMeant
<1> QED
  BY <1>1, ParserInvariant, PTL

-----------------------------------------------------------------------------
(* Texts.  getline() cuts a text at the first delimiter.                    *)

LEMMA SameCardinality == \A S : Info!Cardinality(S) = Cardinality(S)
  BY DEF Info!Cardinality, Cardinality

LEMMA LeastNumber ==
    ASSUME NEW S \in SUBSET Nat, S # {}
    PROVE  Info!Min(S) \in S /\ \A y \in S : Info!Min(S) <= y
<1> DEFINE Less == OpToRel(<, Nat)
<1>1. \A l, m \in Nat : l < m => <<l, m>> \in Less
  BY DEF OpToRel
<1>2. IsWellFoundedOn(Less, Nat)
  BY NatLessThanWellFounded
<1> HIDE DEF Less
<1>3. PICK m \in S : \A l \in S : <<l, m>> \notin Less
  BY <1>2, WFMin
<1>4. ASSUME NEW l \in S PROVE m <= l
  <2>1. m \in Nat /\ l \in Nat
    BY <1>3
  <2>2. ~(l < m)
    BY <1>1, <1>3, <2>1
  <2> QED
    BY <2>1, <2>2
<1> QED
  BY <1>4 DEF Info!Min

(* A cut is at the first delimiter, or behind the text.                     *)
IsCut(t, d, c) ==
    /\ c \in 1..(Len(t) + 1)
    /\ c <= Len(t) => t[c] = d
    /\ \A i \in 1..(c - 1) : t[i] # d

LEMMA CutIsCut ==
    ASSUME NEW S, NEW t \in Seq(S), NEW d
    PROVE  IsCut(t, d, Info!Cut(t, d))
<1> DEFINE D == {i \in DOMAIN t : t[i] = d} \cup {Len(t) + 1}
<1>1. Len(t) \in Nat /\ DOMAIN t = 1..Len(t)
  BY LenProperties
<1>2. D \in SUBSET Nat /\ Len(t) + 1 \in D
  BY <1>1
<1>3. \A i \in D : (i <= Len(t) => t[i] = d) /\ i \in 1..(Len(t) + 1)
  BY <1>1
<1>4. \A i \in 1..Len(t) : t[i] = d => i \in D
  BY <1>1
<1> HIDE DEF D
<1>5. Info!Min(D) \in D /\ \A i \in D : Info!Min(D) <= i
  BY <1>2, LeastNumber
<1>6. ASSUME NEW i \in 1..(Info!Min(D) - 1) PROVE t[i] # d
  <2>1. Info!Min(D) \in 1..(Len(t) + 1)
    BY <1>3, <1>5
  <2>2. i \in 1..Len(t) /\ ~(Info!Min(D) <= i)
    BY <1>1, <2>1
  <2> QED
    BY <1>4, <1>5, <2>2
<1>7. Info!Cut(t, d) = Info!Min(D)
  BY DEF Info!Cut, D
<1> QED
  BY <1>3, <1>5, <1>6, <1>7 DEF IsCut

LEMMA OneCut ==
    ASSUME NEW S, NEW t \in Seq(S), NEW d, NEW b, NEW c, IsCut(t, d, b), IsCut(t, d, c)
    PROVE  b = c
<1>1. Len(t) \in Nat
  BY LenProperties
<1>2. /\ b \in Int /\ b >= 1 /\ b <= Len(t) + 1 /\ (b <= Len(t) => t[b] = d)
      /\ c \in Int /\ c >= 1 /\ c <= Len(t) + 1 /\ (c <= Len(t) => t[c] = d)
  BY <1>1 DEF IsCut
<1>3. (b < c => t[b] # d) /\ (c < b => t[c] # d)
  BY <1>1, <1>2 DEF IsCut
<1>4. ~(b < c) /\ ~(c < b)
  BY <1>1, <1>2, <1>3
<1> QED
  BY <1>2, <1>4

(* The field and what is left behind it make up the text.                   *)
LEMMA FieldFacts ==
    ASSUME NEW S, NEW t \in Seq(S), NEW d, NEW c, c = Info!Cut(t, d)
    PROVE  /\ c \in 1..(Len(t) + 1) /\ Len(t) \in Nat
           /\ Info!Field(t, d) \in Seq(S) /\ Len(Info!Field(t, d)) = c - 1
           /\ \A i \in 1..(c - 1) : Info!Field(t, d)[i] = t[i] /\ t[i] # d
           /\ Info!After(t, d) \in Seq(S)
           /\ c > Len(t) => Info!After(t, d) = <<>>
           /\ c <= Len(t) => /\ t[c] = d
                            /\ Len(Info!After(t, d)) = Len(t) - c
                            /\ \A i \in 1..(Len(t) - c) : Info!After(t, d)[i] = t[c + i]
<1>1. Len(t) \in Nat /\ IsCut(t, d, c)
  BY LenProperties, CutIsCut
<1>2. /\ c \in 1..(Len(t) + 1) /\ \A i \in 1..(c - 1) : t[i] # d
      /\ c <= Len(t) => t[c] = d
  BY <1>1 DEF IsCut
<1>3. \A i \in 1..Len(t) : t[i] \in S
  BY ElementOfSeq
<1>4. /\ Info!Field(t, d) \in Seq(S) /\ Len(Info!Field(t, d)) = c - 1
      /\ \A i \in 1..(c - 1) : Info!Field(t, d)[i] = t[i]
  <2> DEFINE f == SubSeq(t, 1, c - 1)
  <2>1. 1 \in Int /\ c - 1 \in Int /\ \A i \in 1..(c - 1) : t[i] \in S
    BY <1>1, <1>2, <1>3
  <2>2. /\ f \in Seq(S) /\ Len(f) = IF 1 <= c - 1 THEN c - 1 - 1 + 1 ELSE 0
        /\ \A i \in 1..(c - 1 - 1 + 1) : f[i] = t[1 + i - 1]
    BY <2>1, SubSeqProperties
  <2>3. Info!Field(t, d) = f
    BY DEF Info!Field
  <2> HIDE DEF f
  <2> QED
    BY <1>1, <1>2, <2>2, <2>3
<1>5. CASE c > Len(t)
  <2>1. Info!After(t, d) = <<>>
    BY <1>1, <1>2, <1>5, SubSeqEmpty DEF Info!After
  <2> QED
    BY <1>1, <1>2, <1>4, <1>5, <2>1, EmptySeq
<1>6. CASE c <= Len(t)
  <2> DEFINE a == SubSeq(t, c + 1, Len(t))
  <2>1. c + 1 \in Int /\ Len(t) \in Int /\ \A i \in (c + 1)..Len(t) : t[i] \in S
    BY <1>1, <1>2, <1>3
  <2>2. /\ a \in Seq(S) /\ Len(a) = IF c + 1 <= Len(t) THEN Len(t) - (c + 1) + 1 ELSE 0
        /\ \A i \in 1..(Len(t) - (c + 1) + 1) : a[i] = t[c + 1 + i - 1]
    BY <2>1, SubSeqProperties
  <2>3. Info!After(t, d) = a
    BY DEF Info!After
  <2> HIDE DEF a
  <2>4. Len(a) = Len(t) - c /\ \A i \in 1..(Len(t) - c) : a[i] = t[c + i]
    BY <1>1, <1>2, <1>6, <2>2
  <2> QED
    BY <1>1, <1>2, <1>4, <1>6, <2>2, <2>3, <2>4
<1> QED
  BY <1>1, <1>2, <1>5, <1>6

(* A text is its first field, or the field, the delimiter and the rest.     *)
LEMMA Rejoin ==
    ASSUME NEW S, NEW t \in Seq(S), NEW d \in S
    PROVE  \/ Info!Field(t, d) = t /\ Info!After(t, d) = <<>>
           \/ t = (Info!Field(t, d) \o <<d>>) \o Info!After(t, d)
<1> DEFINE c == Info!Cut(t, d)
<1>1. /\ c \in 1..(Len(t) + 1) /\ Len(t) \in Nat /\ Info!Field(t, d) \in Seq(S)
      /\ Len(Info!Field(t, d)) = c - 1 /\ \A i \in 1..(c - 1) : Info!Field(t, d)[i] = t[i]
      /\ c > Len(t) => Info!After(t, d) = <<>>
      /\ c <= Len(t) => t[c] = d
  BY FieldFacts
<1>2. Info!Field(t, d) = SubSeq(t, 1, c - 1) /\ Info!After(t, d) = SubSeq(t, c + 1, Len(t))
  BY DEF Info!Field, Info!After
<1> HIDE DEF c
<1>3. CASE c > Len(t)
  <2>1. c - 1 = Len(t)
    BY <1>1, <1>3
  <2>2. Info!Field(t, d) = t
    BY <1>1, <2>1, SeqEqual
  <2> QED
    BY <1>1, <1>3, <2>2
<1>4. CASE c <= Len(t)
  <2>1. /\ 1 \in 1..Len(t) /\ c \in 1..Len(t) /\ 1 \in 1..(Len(t) + 1)
        /\ c \in (1 - 1)..Len(t) /\ Len(t) \in c..Len(t)
    BY <1>1, <1>4
  <2>2. SubSeq(t, 1, c) = SubSeq(t, 1, c - 1) \o <<t[c]>>
    BY <2>1, SubSeqRecursiveSecond
  <2>3. SubSeq(t, 1, c) \o SubSeq(t, c + 1, Len(t)) = SubSeq(t, 1, Len(t))
    BY <2>1, ConcatAdjacentSubSeq
  <2>4. SubSeq(t, 1, Len(t)) = t
    BY SubSeqFull
  <2> QED
    BY <1>1, <1>2, <1>4, <2>2, <2>3, <2>4, Zenon
<1> QED
  BY <1>1, <1>3, <1>4

(* A text put together of a field, a delimiter and more comes apart in them. *)
LEMMA FieldOfJoined ==
    ASSUME NEW S, NEW f \in Seq(S), NEW a \in Seq(S), NEW d \in S,
           \A i \in 1..Len(f) : f[i] # d
    PROVE  Info!Field((f \o <<d>>) \o a, d) = f /\ Info!After((f \o <<d>>) \o a, d) = a
<1> DEFINE g == f \o <<d>>  t == g \o a  c == Info!Cut(t, d)
<1>1. <<d>> \in Seq(S) /\ Len(<<d>>) = 1 /\ <<d>>[1] = d /\ Len(f) \in Nat /\ Len(a) \in Nat
  BY LenProperties
<1>2. /\ g \in Seq(S) /\ Len(g) = Len(f) + 1
      /\ \A i \in 1..Len(f) : g[i] = f[i]
      /\ g[Len(f) + 1] = d
  <2>1. /\ g \in Seq(S) /\ Len(g) = Len(f) + Len(<<d>>)
        /\ \A i \in 1..(Len(f) + Len(<<d>>)) : g[i] = IF i <= Len(f) THEN f[i] ELSE <<d>>[i - Len(f)]
    BY <1>1, ConcatProperties
  <2>2. Len(f) + 1 \in 1..(Len(f) + 1) /\ ~(Len(f) + 1 <= Len(f)) /\ (Len(f) + 1) - Len(f) = 1
    BY <1>1
  <2> HIDE DEF g
  <2> QED
    BY <1>1, <2>1, <2>2
<1> HIDE DEF g
<1>3. /\ t \in Seq(S) /\ Len(t) = Len(f) + 1 + Len(a)
      /\ \A i \in 1..Len(f) : t[i] = f[i]
      /\ t[Len(f) + 1] = d
      /\ \A i \in 1..Len(a) : t[Len(f) + 1 + i] = a[i]
  <2>1. /\ t \in Seq(S) /\ Len(t) = Len(g) + Len(a)
        /\ \A i \in 1..(Len(g) + Len(a)) : t[i] = IF i <= Len(g) THEN g[i] ELSE a[i - Len(g)]
    BY <1>2, ConcatProperties
  <2> HIDE DEF t
  <2>2. Len(t) = Len(f) + 1 + Len(a)
    BY <1>1, <1>2, <2>1
  <2>3. \A i \in 1..(Len(f) + 1) : t[i] = g[i]
    BY <1>1, <1>2, <2>1
  <2>4. ASSUME NEW i \in 1..Len(a) PROVE t[Len(f) + 1 + i] = a[i]
    <3>1. /\ Len(f) + 1 + i \in 1..(Len(g) + Len(a)) /\ ~(Len(f) + 1 + i <= Len(g))
          /\ Len(f) + 1 + i - Len(g) = i
      BY <1>1, <1>2
    <3> QED
      BY <2>1, <3>1
  <2> QED
    BY <1>1, <1>2, <2>1, <2>2, <2>3, <2>4
<1> HIDE DEF t
<1>4. IsCut(t, d, Len(f) + 1)
  BY <1>1, <1>3 DEF IsCut
<1>5. /\ IsCut(t, d, c)
      /\ Info!Field(t, d) \in Seq(S) /\ Len(Info!Field(t, d)) = c - 1
      /\ \A i \in 1..(c - 1) : Info!Field(t, d)[i] = t[i]
      /\ Info!After(t, d) \in Seq(S)
      /\ c <= Len(t) => /\ Len(Info!After(t, d)) = Len(t) - c
                        /\ \A i \in 1..(Len(t) - c) : Info!After(t, d)[i] = t[c + i]
  BY <1>3, CutIsCut, FieldFacts
<1>6. c = Len(f) + 1
  BY <1>3, <1>4, <1>5, OneCut
<1> HIDE DEF c
<1>7. c <= Len(t)
  BY <1>1, <1>3, <1>6
<1>8. /\ Info!Field(t, d) \in Seq(S) /\ Len(Info!Field(t, d)) = c - 1
      /\ \A i \in 1..(c - 1) : Info!Field(t, d)[i] = t[i]
      /\ Info!After(t, d) \in Seq(S)
      /\ Len(Info!After(t, d)) = Len(t) - c
      /\ \A i \in 1..(Len(t) - c) : Info!After(t, d)[i] = t[c + i]
  BY <1>5, <1>7, Zenon
<1>9. Info!Field(t, d) = f
  <2>1. c - 1 = Len(f)
    BY <1>1, <1>6
  <2> QED
    BY <1>3, <1>8, <2>1, SeqEqual
<1>10. Info!After(t, d) = a
  <2>1. Len(t) - c = Len(a)
    BY <1>1, <1>3, <1>6
  <2> QED
    BY <1>3, <1>6, <1>8, <2>1, SeqEqual
<1> QED
  BY <1>9, <1>10 DEF t, g

LEMMA FieldOfWhole ==
    ASSUME NEW S, NEW f \in Seq(S), NEW d, \A i \in 1..Len(f) : f[i] # d
    PROVE  Info!Field(f, d) = f /\ Info!After(f, d) = <<>>
<1> DEFINE c == Info!Cut(f, d)
<1>1. /\ c \in 1..(Len(f) + 1) /\ Len(f) \in Nat
      /\ Info!Field(f, d) \in Seq(S) /\ Len(Info!Field(f, d)) = c - 1
      /\ \A i \in 1..(c - 1) : Info!Field(f, d)[i] = f[i]
      /\ c > Len(f) => Info!After(f, d) = <<>>
      /\ c <= Len(f) => f[c] = d
  BY FieldFacts
<1> HIDE DEF c
<1>2. c > Len(f) /\ c - 1 = Len(f)
  BY <1>1
<1>3. Info!Field(f, d) = f
  BY <1>1, <1>2, SeqEqual
<1> QED
  BY <1>1, <1>2, <1>3

-----------------------------------------------------------------------------
(* Volumes.  What _decompose() takes a piece to be is what it means.        *)

Path(p) == p \in Seq(Tokens) /\ p # <<>> /\ \A i \in 1..Len(p) : p[i] # ":"
Flag(ro) == IF ro THEN <<"ro">> ELSE <<>>
AVolume(v) ==
    /\ v = [src |-> v.src, dest |-> v.dest, readOnly |-> v.readOnly]
    /\ Path(v.src) /\ Path(v.dest) /\ v.readOnly \in BOOLEAN

(* Short texts, put together. *)
LEMMA OneToken ==
    ASSUME NEW S, NEW a \in S
    PROVE  <<a>> \in Seq(S) /\ Len(<<a>>) = 1 /\ <<a>>[1] = a
OBVIOUS

LEMMA TwoTokens ==
    ASSUME NEW S, NEW a \in S, NEW b \in S
    PROVE  <<a>> \o <<b>> = <<a, b>> /\ <<a, b>> \in Seq(S)
<1> DEFINE s == Append(<<a>>, b)  t == <<a, b>>
<1>1. s \in Seq(S) /\ Len(s) = 2 /\ s[1] = a /\ s[2] = b
  BY OneToken, AppendProperties
<1>2. t \in Seq(S) /\ Len(t) = 2 /\ t[1] = a /\ t[2] = b
  OBVIOUS
<1> HIDE DEF s, t
<1>3. s = t
  BY <1>1, <1>2, SeqEqual
<1>4. s = <<a>> \o <<b>>
  BY OneToken, AppendIsConcat DEF s
<1> QED
  BY <1>2, <1>3, <1>4 DEF t

LEMMA ThreeTokens ==
    ASSUME NEW S, NEW a \in S, NEW b \in S, NEW c \in S
    PROVE  <<a>> \o <<b, c>> = <<a, b, c>>
<1> DEFINE p == <<a>>  q == <<b, c>>  t == <<a, b, c>>  s == p \o q
<1>1. p \in Seq(S) /\ Len(p) = 1 /\ p[1] = a
  OBVIOUS
<1>2. q \in Seq(S) /\ Len(q) = 2 /\ q[1] = b /\ q[2] = c
  OBVIOUS
<1>3. t \in Seq(S) /\ Len(t) = 3 /\ t[1] = a /\ t[2] = b /\ t[3] = c
  OBVIOUS
<1> HIDE DEF p, q, t
<1>4. /\ s \in Seq(S) /\ Len(s) = Len(p) + Len(q)
      /\ \A i \in 1..(Len(p) + Len(q)) : s[i] = IF i <= Len(p) THEN p[i] ELSE q[i - Len(p)]
  BY <1>1, <1>2, ConcatProperties
<1> HIDE DEF s
<1>5. Len(s) = 3 /\ s[1] = a /\ s[2] = b /\ s[3] = c
  BY <1>1, <1>2, <1>4
<1>6. s = t
  BY <1>3, <1>4, <1>5, SeqEqual
<1> QED
  BY <1>6 DEF s, t, p, q

LEMMA Colons ==
    /\ ":" \in Tokens /\ "," \in Tokens /\ "ro" \in Tokens /\ "latest" \in Tokens
    /\ <<":">> \in Seq(Tokens) /\ <<"ro">> \in Seq(Tokens) /\ <<>> \in Seq(Tokens)
    /\ <<"ro", ":">> \in Seq(Tokens)
    /\ <<":">> \o <<>> = <<":">> /\ <<>> \o <<":">> = <<":">>
    /\ <<":">> \o <<":">> = <<":", ":">> /\ <<":">> \o <<"ro">> = <<":", "ro">>
    /\ <<":">> \o <<"ro", ":">> = <<":", "ro", ":">>
    /\ <<"ro">> \o <<":">> = <<"ro", ":">>
<1>1. ":" \in Tokens /\ "," \in Tokens /\ "ro" \in Tokens /\ "latest" \in Tokens
  BY TextAssumption
<1>2. <<":">> \in Seq(Tokens) /\ <<"ro">> \in Seq(Tokens) /\ <<>> \in Seq(Tokens)
  BY <1>1, OneToken, EmptySeq, Zenon
<1>3. <<":">> \o <<>> = <<":">> /\ <<>> \o <<":">> = <<":">>
  BY <1>2, ConcatEmptySeq
<1>4. /\ <<":">> \o <<":">> = <<":", ":">> /\ <<":">> \o <<"ro">> = <<":", "ro">>
      /\ <<"ro">> \o <<":">> = <<"ro", ":">> /\ <<"ro", ":">> \in Seq(Tokens)
  BY <1>1, TwoTokens, Zenon
<1>5. <<":">> \o <<"ro", ":">> = <<":", "ro", ":">>
  BY <1>1, ThreeTokens, Zenon
<1> QED
  BY <1>1, <1>2, <1>3, <1>4, <1>5

LEMMA FlagFacts ==
    ASSUME NEW ro \in BOOLEAN
    PROVE  Flag(ro) \in Seq(Tokens) /\ \A i \in 1..Len(Flag(ro)) : Flag(ro)[i] # ":"
<1> DEFINE f == <<"ro">>
<1>1. f \in Seq(Tokens) /\ Len(f) = 1 /\ f[1] = "ro"
  BY Colons, OneToken, Zenon
<1>2. f = <<"ro">>
  OBVIOUS
<1> HIDE DEF f
<1>3. \A i \in 1..Len(f) : f[i] # ":"
  BY <1>1
<1>4. <<>> \in Seq(Tokens) /\ \A i \in 1..Len(<<>>) : <<>>[i] # ":"
  BY EmptySeq
<1>5. Flag(ro) = IF ro THEN f ELSE <<>>
  BY <1>2, Zenon DEF Flag
<1> QED
  BY <1>1, <1>3, <1>4, <1>5, Zenon

(* What may follow the destination's colon. *)
LEMMA ThirdField ==
    ASSUME NEW ro \in BOOLEAN, NEW t \in Seq(Tokens)
    PROVE  t \in {Flag(ro), Flag(ro) \o <<":">>} <=>
              Info!Field(t, ":") = Flag(ro) /\ Info!After(t, ":") = <<>>
<1>1. Flag(ro) \in Seq(Tokens) /\ <<>> \in Seq(Tokens) /\ ":" \in Tokens
      /\ \A i \in 1..Len(Flag(ro)) : Flag(ro)[i] # ":"
  BY FlagFacts, Colons
<1>2. <<":">> \in Seq(Tokens)
  BY Colons
<1>3. (Flag(ro) \o <<":">>) \o <<>> = Flag(ro) \o <<":">>
  <2>1. Flag(ro) \o <<":">> \in Seq(Tokens)
    BY <1>1, <1>2, ConcatProperties
  <2> QED
    BY <2>1, ConcatEmptySeq
<1>4. ASSUME t = Flag(ro) PROVE Info!Field(t, ":") = Flag(ro) /\ Info!After(t, ":") = <<>>
  BY <1>1, <1>4, FieldOfWhole
<1>5. ASSUME t = Flag(ro) \o <<":">>
      PROVE  Info!Field(t, ":") = Flag(ro) /\ Info!After(t, ":") = <<>>
  <2> DEFINE d == ":"  e == <<>>
  <2>0. /\ Flag(ro) \in Seq(Tokens) /\ e \in Seq(Tokens) /\ d \in Tokens
        /\ \A i \in 1..Len(Flag(ro)) : Flag(ro)[i] # d
    BY <1>1, Zenon
  <2> HIDE DEF d, e
  <2>1. /\ Info!Field((Flag(ro) \o <<d>>) \o e, d) = Flag(ro)
        /\ Info!After((Flag(ro) \o <<d>>) \o e, d) = e
    BY <2>0, FieldOfJoined
  <2> USE DEF d, e
  <2> QED
    BY <1>3, <1>5, <2>1
<1>6. ASSUME Info!Field(t, ":") = Flag(ro), Info!After(t, ":") = <<>>
      PROVE  t \in {Flag(ro), Flag(ro) \o <<":">>}
  <2>1. Info!Field(t, ":") = t \/ t = (Info!Field(t, ":") \o <<":">>) \o Info!After(t, ":")
    BY <1>1, Rejoin
  <2> QED
    BY <1>3, <1>6, <2>1
<1> QED
  BY <1>4, <1>5, <1>6

(* The five spellings of a volume, with the colons where they are found.    *)
LEMMA ReadsByFields ==
    ASSUME NEW v, AVolume(v), NEW piece
    PROVE  Info!Reads(piece, v) <=>
             \/ ~v.readOnly /\ piece = (v.src \o <<":">>) \o v.dest
             \/ \E t \in {Flag(v.readOnly), Flag(v.readOnly) \o <<":">>} :
                  piece = (v.src \o <<":">>) \o ((v.dest \o <<":">>) \o t)
<1> DEFINE sd == (v.src \o <<":">>) \o v.dest
<1>1. v.src \in Seq(Tokens) /\ v.dest \in Seq(Tokens) /\ <<":">> \in Seq(Tokens)
      /\ <<>> \in Seq(Tokens) /\ <<"ro">> \in Seq(Tokens) /\ <<"ro", ":">> \in Seq(Tokens)
      /\ v.readOnly \in BOOLEAN
  BY Colons DEF AVolume, Path
<1>2. v.src \o <<":">> \in Seq(Tokens) /\ sd \in Seq(Tokens)
      /\ v.dest \o <<":">> \in Seq(Tokens)
  BY <1>1, ConcatProperties
<1>3. ASSUME NEW t \in Seq(Tokens)
      PROVE  sd \o (<<":">> \o t) = (v.src \o <<":">>) \o ((v.dest \o <<":">>) \o t)
  <2> DEFINE k == <<":">>  a == v.src \o k  b == v.dest
  <2>1. k \in Seq(Tokens) /\ a \in Seq(Tokens) /\ b \in Seq(Tokens)
    BY <1>1, <1>2, Zenon
  <2> HIDE DEF k, a, b
  <2>2. k \o t \in Seq(Tokens)
    BY <2>1, ConcatProperties
  <2>3. (a \o b) \o (k \o t) = a \o (b \o (k \o t))
    BY <2>1, <2>2, ConcatAssociative
  <2>4. b \o (k \o t) = (b \o k) \o t
    BY <2>1, ConcatAssociative
  <2>5. (a \o b) \o (k \o t) = a \o ((b \o k) \o t)
    BY <2>3, <2>4, Zenon
  <2> QED
    BY <2>5, Zenon DEF k, a, b
<1>4. sd \o <<>> = sd
  BY <1>2, ConcatEmptySeq
<1>5. Info!Reads(piece, v) <=>
        \E tail \in IF v.readOnly THEN {<<":", "ro">>, <<":", "ro", ":">>}
                                  ELSE {<<>>, <<":">>, <<":", ":">>} : piece = sd \o tail
  BY DEF Info!Reads
<1> HIDE DEF sd
<1>7. CASE v.readOnly
  <2>1. /\ sd \o <<":", "ro">> = (v.src \o <<":">>) \o ((v.dest \o <<":">>) \o <<"ro">>)
        /\ sd \o <<":", "ro", ":">> = (v.src \o <<":">>) \o ((v.dest \o <<":">>) \o <<"ro", ":">>)
    BY <1>1, <1>3, Colons, Zenon
  <2>2. Flag(v.readOnly) = <<"ro">> /\ Flag(v.readOnly) \o <<":">> = <<"ro", ":">>
    BY <1>7, Colons, Zenon DEF Flag
  <2> QED
    BY <1>5, <1>7, <2>1, <2>2, Zenon
<1>8. CASE ~v.readOnly
  <2>1. /\ sd \o <<":">> = (v.src \o <<":">>) \o ((v.dest \o <<":">>) \o <<>>)
        /\ sd \o <<":", ":">> = (v.src \o <<":">>) \o ((v.dest \o <<":">>) \o <<":">>)
    BY <1>1, <1>3, Colons, Zenon
  <2>2. Flag(v.readOnly) = <<>> /\ Flag(v.readOnly) \o <<":">> = <<":">>
    BY <1>8, Colons, Zenon DEF Flag
  <2>3. Info!Reads(piece, v) <=> piece = sd \/ piece = sd \o <<":">> \/ piece = sd \o <<":", ":">>
    BY <1>4, <1>5, <1>8, Zenon
  <2>4. sd = (v.src \o <<":">>) \o v.dest
    BY DEF sd
  <2> QED
    BY <1>8, <2>1, <2>2, <2>3, <2>4, Zenon
<1> QED
  BY <1>1, <1>7, <1>8

LEMMA ColonFields ==
    /\ \A f, a \in Seq(Tokens) : (\A i \in 1..Len(f) : f[i] # ":") =>
         /\ Info!Field((f \o <<":">>) \o a, ":") = f
         /\ Info!After((f \o <<":">>) \o a, ":") = a
    /\ \A f \in Seq(Tokens) : (\A i \in 1..Len(f) : f[i] # ":") =>
         Info!Field(f, ":") = f /\ Info!After(f, ":") = <<>>
    /\ Info!Field(<<>>, ":") = <<>> /\ Info!After(<<>>, ":") = <<>>
<1> DEFINE d == ":"  e == <<>>
<1>0. d \in Tokens /\ e \in Seq(Tokens) /\ \A i \in 1..Len(e) : e[i] # d
  <2>1. d \in Tokens /\ e \in Seq(Tokens)
    BY Colons, Zenon
  <2>2. 1..Len(e) = {}
    BY EmptySeq
  <2> QED
    BY <2>1, <2>2, Zenon
<1> HIDE DEF d, e
<1>1. \A f, a \in Seq(Tokens) : (\A i \in 1..Len(f) : f[i] # d) =>
        Info!Field((f \o <<d>>) \o a, d) = f /\ Info!After((f \o <<d>>) \o a, d) = a
  BY <1>0, FieldOfJoined
<1>2. \A f \in Seq(Tokens) : (\A i \in 1..Len(f) : f[i] # d) =>
        Info!Field(f, d) = f /\ Info!After(f, d) = <<>>
  BY <1>0, FieldOfWhole
<1>3. Info!Field(e, d) = e /\ Info!After(e, d) = <<>>
  BY <1>0, <1>2
<1> QED
  BY <1>1, <1>2, <1>3, Zenon DEF d, e

(* A piece put together of a volume is one that run takes, and takes apart  *)
(* into that volume.                                                        *)
LEMMA ReadBack ==
    ASSUME NEW v, AVolume(v), NEW piece, Info!Reads(piece, v)
    PROVE  Info!IsValidSpec(piece) /\ Info!Volume(piece) = v
<1> DEFINE two == Info!After(piece, ":")  three == Info!After(two, ":")
<1>1. /\ v.src \in Seq(Tokens) /\ v.src # <<>> /\ \A i \in 1..Len(v.src) : v.src[i] # ":"
      /\ v.dest \in Seq(Tokens) /\ v.dest # <<>> /\ \A i \in 1..Len(v.dest) : v.dest[i] # ":"
      /\ v.readOnly \in BOOLEAN /\ ":" \in Tokens /\ <<>> \in Seq(Tokens)
  BY Colons DEF AVolume, Path
<1>2. /\ Info!Field(piece, ":") = v.src /\ Info!Field(two, ":") = v.dest
      /\ Info!Field(three, ":") = Flag(v.readOnly) /\ Info!After(three, ":") = <<>>
  <2>1. CASE ~v.readOnly /\ piece = (v.src \o <<":">>) \o v.dest
    <3>1. Info!Field(piece, ":") = v.src /\ two = v.dest
      BY <1>1, <2>1, ColonFields, Zenon
    <3>2. Info!Field(two, ":") = v.dest /\ three = <<>>
      BY <1>1, <3>1, ColonFields, Zenon
    <3>3. three \in {Flag(v.readOnly), Flag(v.readOnly) \o <<":">>} /\ three \in Seq(Tokens)
      BY <1>1, <2>1, <3>2, Zenon DEF Flag
    <3>4. Info!Field(three, ":") = Flag(v.readOnly) /\ Info!After(three, ":") = <<>>
      BY <1>1, <3>3, ThirdField, Zenon
    <3> QED
      BY <3>1, <3>2, <3>4, Zenon
  <2>2. ASSUME NEW t \in {Flag(v.readOnly), Flag(v.readOnly) \o <<":">>},
               piece = (v.src \o <<":">>) \o ((v.dest \o <<":">>) \o t)
        PROVE  /\ Info!Field(piece, ":") = v.src /\ Info!Field(two, ":") = v.dest
               /\ Info!Field(three, ":") = Flag(v.readOnly) /\ Info!After(three, ":") = <<>>
    <3>1. t \in Seq(Tokens) /\ (v.dest \o <<":">>) \o t \in Seq(Tokens)
      <4>1. Flag(v.readOnly) \in Seq(Tokens) /\ <<":">> \in Seq(Tokens)
        BY <1>1, FlagFacts, Colons, Zenon
      <4>2. t \in Seq(Tokens) /\ v.dest \o <<":">> \in Seq(Tokens)
        BY <1>1, <4>1, ConcatProperties, Zenon
      <4> QED
        BY <4>2, ConcatProperties, Zenon
    <3>2. Info!Field(piece, ":") = v.src /\ two = (v.dest \o <<":">>) \o t
      BY <1>1, <2>2, <3>1, ColonFields, Zenon
    <3>3. Info!Field(two, ":") = v.dest /\ three = t
      <4>1. /\ Info!Field((v.dest \o <<":">>) \o t, ":") = v.dest
            /\ Info!After((v.dest \o <<":">>) \o t, ":") = t
        BY <1>1, <3>1, ColonFields, Zenon
      <4> HIDE DEF two
      <4> QED
        BY <3>2, <4>1, Zenon
    <3>4. Info!Field(three, ":") = Flag(v.readOnly) /\ Info!After(three, ":") = <<>>
      BY <1>1, <3>1, <3>3, ThirdField, Zenon
    <3> QED
      BY <3>2, <3>3, <3>4, Zenon
  <2> QED
    BY <2>1, <2>2, ReadsByFields, Zenon
<1>3. Info!Decompose(piece) =
        [ok |-> TRUE, src |-> v.src, dest |-> v.dest, opt |-> Flag(v.readOnly)]
  BY <1>2 DEF Info!Decompose
<1>4. Flag(v.readOnly) \in {<<>>, <<"ro">>} /\ (Flag(v.readOnly) = <<"ro">> <=> v.readOnly)
  <2>1. <<"ro">> # <<>>
    OBVIOUS
  <2> QED
    BY <1>1, <2>1, Zenon DEF Flag
<1>5. Info!IsValidSpec(piece)
  BY <1>1, <1>3, <1>4 DEF Info!IsValidSpec
<1>6. Info!Volume(piece) = v
  <2>1. Info!Volume(piece) =
          [src |-> v.src, dest |-> v.dest, readOnly |-> Flag(v.readOnly) = <<"ro">>]
    BY <1>3 DEF Info!Volume
  <2>2. (Flag(v.readOnly) = <<"ro">>) = v.readOnly
    BY <1>1, <1>4, Zenon
  <2> QED
    BY <2>1, <2>2, Zenon DEF AVolume
<1> QED
  BY <1>5, <1>6

(* And a piece that run takes is put together of the volume it is taken to  *)
(* mean.                                                                    *)
LEMMA ValidIsRead ==
    ASSUME NEW piece \in Seq(Tokens), Info!IsValidSpec(piece)
    PROVE  AVolume(Info!Volume(piece)) /\ Info!Reads(piece, Info!Volume(piece))
<1> DEFINE two == Info!After(piece, ":")  three == Info!After(two, ":")
           src == Info!Field(piece, ":")  dest == Info!Field(two, ":")
           opt == Info!Field(three, ":")  v == Info!Volume(piece)
<1>1. /\ src # <<>> /\ dest # <<>> /\ opt \in {<<>>, <<"ro">>} /\ Info!After(three, ":") = <<>>
      /\ v = [src |-> src, dest |-> dest, readOnly |-> opt = <<"ro">>]
  BY DEF Info!IsValidSpec, Info!Volume, Info!Decompose
<1>2. v = [src |-> v.src, dest |-> v.dest, readOnly |-> v.readOnly]
      /\ v.src = src /\ v.dest = dest /\ v.readOnly = (opt = <<"ro">>) /\ v.readOnly \in BOOLEAN
  BY <1>1
<1>3. /\ two \in Seq(Tokens) /\ three \in Seq(Tokens) /\ src \in Seq(Tokens) /\ dest \in Seq(Tokens)
      /\ \A i \in 1..Len(src) : src[i] # ":"
      /\ \A i \in 1..Len(dest) : dest[i] # ":"
  <2>1. \A t \in Seq(Tokens) :
          /\ Info!After(t, ":") \in Seq(Tokens) /\ Info!Field(t, ":") \in Seq(Tokens)
          /\ \A i \in 1..Len(Info!Field(t, ":")) : Info!Field(t, ":")[i] # ":"
    BY FieldFacts
  <2> QED
    BY <2>1
<1>4. opt = Flag(v.readOnly)
  BY <1>1, <1>2, Zenon DEF Flag
<1>5. ":" \in Tokens
  BY Colons
<1> HIDE DEF two, three, src, dest, opt, v
<1>6. AVolume(v)
  BY <1>1, <1>2, <1>3 DEF AVolume, Path
<1>7. \/ src = piece /\ two = <<>>
      \/ piece = (src \o <<":">>) \o two
  BY <1>5, Rejoin DEF src, two
<1>8. \/ dest = two /\ three = <<>>
      \/ two = (dest \o <<":">>) \o three
  BY <1>3, <1>5, Rejoin DEF dest, three
<1>9. two # <<>>
  BY <1>1, ColonFields, Zenon DEF dest
<1>10. three \in {Flag(v.readOnly), Flag(v.readOnly) \o <<":">>}
  BY <1>1, <1>2, <1>3, <1>4, ThirdField, Zenon DEF opt
<1>11. CASE two = (dest \o <<":">>) \o three
  BY <1>2, <1>6, <1>7, <1>9, <1>10, <1>11, ReadsByFields, Zenon DEF v
<1>12. CASE dest = two /\ three = <<>>
  <2>1. ~v.readOnly
    <3>1. <<"ro">> # <<>>
      OBVIOUS
    <3>2. opt = <<>>
      BY <1>12, ColonFields, Zenon DEF opt
    <3> QED
      BY <1>2, <3>1, <3>2, Zenon
  <2>2. piece = (v.src \o <<":">>) \o v.dest
    BY <1>2, <1>7, <1>9, <1>12, Zenon
  <2> QED
    BY <1>6, <2>1, <2>2, ReadsByFields, Zenon DEF v
<1> QED
  BY <1>6, <1>8, <1>11, <1>12 DEF v

(* The paths that can stand in a piece are colon-free, and a colon-free     *)
(* stretch of it is one of them.                                            *)
LEMMA PathsArePaths ==
    ASSUME NEW piece \in Seq(Tokens), NEW p \in Info!Paths(piece)
    PROVE  Path(p)
<1>1. p \in Info!Parts(piece) /\ p # <<>> /\ ":" \notin Info!ToSet(p)
  BY DEF Info!Paths
<1>2. PICK i, j \in DOMAIN piece : p = SubSeq(piece, i, j)
  BY <1>1 DEF Info!Parts
<1>3. i \in 1..Len(piece) /\ j \in 1..Len(piece) /\ \A k \in 1..Len(piece) : piece[k] \in Tokens
  BY LenProperties, ElementOfSeq
<1>4. p \in Seq(Tokens)
  <2>1. i \in Int /\ j \in Int /\ \A k \in i..j : piece[k] \in Tokens
    BY <1>3
  <2> QED
    BY <1>2, <2>1, SubSeqProperties
<1>5. \A k \in 1..Len(p) : p[k] # ":"
  BY <1>1, <1>4, LenProperties DEF Info!ToSet
<1> QED
  BY <1>1, <1>4, <1>5 DEF Path

LEMMA StretchIsPath ==
    ASSUME NEW piece \in Seq(Tokens), NEW p, Path(p), NEW n \in 0..Len(piece),
           n + Len(p) <= Len(piece), \A k \in 1..Len(p) : p[k] = piece[n + k]
    PROVE  p \in Info!Paths(piece)
<1>1. /\ Len(piece) \in Nat /\ DOMAIN piece = 1..Len(piece)
      /\ p \in Seq(Tokens) /\ p # <<>> /\ Len(p) \in Nat /\ DOMAIN p = 1..Len(p)
      /\ \A k \in 1..Len(p) : p[k] # ":"
  BY LenProperties DEF Path
<1>2. Len(p) >= 1
  BY <1>1, EmptySeq
<1> DEFINE m == n + Len(p)  q == SubSeq(piece, n + 1, m)
<1>3. m \in 1..Len(piece) /\ n + 1 \in 1..Len(piece) /\ n + 1 <= m
  BY <1>1, <1>2
<1>4. q \in Seq(Tokens) /\ Len(q) = Len(p) /\ \A k \in 1..Len(p) : q[k] = piece[n + k]
  <2>1. \A k \in (n + 1)..m : piece[k] \in Tokens
    BY <1>1, <1>3, ElementOfSeq
  <2>2. /\ q \in Seq(Tokens) /\ Len(q) = IF n + 1 <= m THEN m - (n + 1) + 1 ELSE 0
        /\ \A k \in 1..(m - (n + 1) + 1) : q[k] = piece[n + 1 + k - 1]
    BY <1>3, <2>1, SubSeqProperties
  <2> HIDE DEF q
  <2>3. m - (n + 1) + 1 = Len(p)
    BY <1>1
  <2> HIDE DEF m
  <2>4. \A k \in 1..Len(p) : n + 1 + k - 1 = n + k
    BY <1>1
  <2> QED
    BY <1>1, <1>3, <2>2, <2>3, <2>4
<1>5. q = p
  <2> HIDE DEF q
  <2> QED
    BY <1>1, <1>4, SeqEqual
<1>6. p \in Info!Parts(piece)
  <2>1. n + 1 \in DOMAIN piece /\ m \in DOMAIN piece
    BY <1>1, <1>3
  <2> DEFINE stretch(i, j) == SubSeq(piece, i, j)
  <2>2. p = stretch(n + 1, m)
    BY <1>5
  <2>3. Info!Parts(piece) = {stretch(i, j) : i, j \in DOMAIN piece}
    BY DEF Info!Parts
  <2> HIDE DEF stretch, m
  <2> QED
    BY <2>1, <2>2, <2>3
<1>7. ":" \notin Info!ToSet(p)
  BY <1>1 DEF Info!ToSet
<1> QED
  BY <1>1, <1>6, <1>7 DEF Info!Paths

(* The two paths of a piece that run takes stand in it.                     *)
LEMMA ValidPathsStand ==
    ASSUME NEW piece \in Seq(Tokens), Info!IsValidSpec(piece)
    PROVE  /\ Info!Volume(piece).src \in Info!Paths(piece)
           /\ Info!Volume(piece).dest \in Info!Paths(piece)
<1> DEFINE two == Info!After(piece, ":")  src == Info!Field(piece, ":")
           dest == Info!Field(two, ":")  c == Info!Cut(piece, ":")  e == Info!Cut(two, ":")
<1>1. Info!Volume(piece).src = src /\ Info!Volume(piece).dest = dest
  BY DEF Info!Volume, Info!Decompose
<1>2. Path(src) /\ Path(dest)
  BY <1>1, ValidIsRead DEF AVolume
<1>3. /\ c \in 1..(Len(piece) + 1) /\ Len(piece) \in Nat /\ Len(src) = c - 1
      /\ \A i \in 1..(c - 1) : src[i] = piece[i]
      /\ two \in Seq(Tokens)
      /\ c > Len(piece) => two = <<>>
      /\ c <= Len(piece) => /\ Len(two) = Len(piece) - c
                            /\ \A i \in 1..(Len(piece) - c) : two[i] = piece[c + i]
  BY FieldFacts
<1>4. /\ e \in 1..(Len(two) + 1) /\ Len(two) \in Nat /\ Len(dest) = e - 1
      /\ \A i \in 1..(e - 1) : dest[i] = two[i]
  BY <1>3, FieldFacts
<1> HIDE DEF two, src, dest, c, e
<1>5. src \in Info!Paths(piece)
  <2>1. 0 \in 0..Len(piece) /\ 0 + Len(src) <= Len(piece) /\ \A i \in 1..Len(src) : src[i] = piece[0 + i]
    BY <1>3
  <2> QED
    BY <1>2, <2>1, StretchIsPath
<1>6. dest \in Info!Paths(piece)
  <2>1. dest # <<>>
    BY <1>2 DEF Path
  <2>2. c <= Len(piece)
    <3>1. dest = <<>> \/ two # <<>>
      BY ColonFields, Zenon DEF dest
    <3> QED
      BY <1>3, <2>1, <3>1
  <2>3. /\ c \in 0..Len(piece) /\ c + Len(dest) <= Len(piece)
        /\ \A i \in 1..Len(dest) : i \in 1..(e - 1) /\ i \in 1..(Len(piece) - c)
    BY <1>3, <1>4, <2>2
  <2>4. \A i \in 1..Len(dest) : dest[i] = piece[c + i]
    BY <1>3, <1>4, <2>2, <2>3
  <2> QED
    BY <1>2, <2>3, <2>4, StretchIsPath
<1> QED
  BY <1>1, <1>5, <1>6

(* What a piece means is what run takes it for, and nothing when run does   *)
(* not take it.                                                             *)
LEMMA MeaningOfPiece ==
    ASSUME NEW piece \in Seq(Tokens)
    PROVE  Info!Means(piece) = IF Info!IsValidSpec(piece) THEN {Info!Volume(piece)} ELSE {}
<1>1. ASSUME NEW v \in Info!Means(piece) PROVE Info!IsValidSpec(piece) /\ v = Info!Volume(piece)
  <2>1. /\ v \in [src : Info!Paths(piece), dest : Info!Paths(piece), readOnly : BOOLEAN]
        /\ Info!Reads(piece, v)
    BY DEF Info!Means
  <2>2. AVolume(v)
    BY <2>1, PathsArePaths DEF AVolume
  <2> QED
    BY <2>1, <2>2, ReadBack
<1>2. ASSUME Info!IsValidSpec(piece) PROVE Info!Volume(piece) \in Info!Means(piece)
  <2> DEFINE v == Info!Volume(piece)
  <2>1. AVolume(v) /\ Info!Reads(piece, v)
    BY <1>2, ValidIsRead
  <2>2. v.src \in Info!Paths(piece) /\ v.dest \in Info!Paths(piece)
    BY <1>2, ValidPathsStand
  <2> HIDE DEF v
  <2>3. v \in [src : Info!Paths(piece), dest : Info!Paths(piece), readOnly : BOOLEAN]
    BY <2>1, <2>2 DEF AVolume
  <2>4. v \in Info!Means(piece)
    BY <2>1, <2>3 DEF Info!Means
  <2> QED
    BY <2>4 DEF v
<1> QED
  BY <1>1, <1>2

-----------------------------------------------------------------------------
(* Pieces.  What getline() takes off the --volume text one by one are the   *)
(* stretches between its cuts.                                              *)

Below(t, c) == {b \in Info!Cuts(t) : b < c}
(* c is a cut of t, and k others are in front of it.                        *)
CutNo(t, c, k) == c \in Info!Cuts(t) /\ Cardinality(Below(t, c)) = k
Stretch(t, n) == SubSeq(t, Info!NthCut(t, n - 1) + 1, Info!NthCut(t, n) - 1)
Stretches(t) == [n \in 1..(Info!Cardinality(Info!Cuts(t)) - 1) |-> Stretch(t, n)]

LEMMA CutsFinite ==
    ASSUME NEW t \in Seq(Tokens)
    PROVE  /\ Len(t) \in Nat /\ Info!Cuts(t) \subseteq 0..(Len(t) + 1)
           /\ IsFiniteSet(Info!Cuts(t)) /\ 0 \in Info!Cuts(t) /\ Len(t) + 1 \in Info!Cuts(t)
           /\ \A i \in 1..Len(t) : i \in Info!Cuts(t) <=> t[i] = ","
           /\ \A c : IsFiniteSet(Below(t, c)) /\ Cardinality(Below(t, c)) \in Nat
<1> DEFINE d == ","  n == Len(t)  At == {i \in 1..n : t[i] = d}
<1>1. Len(t) \in Nat /\ DOMAIN t = 1..Len(t)
  BY LenProperties
<1>2. Info!Cuts(t) = At \cup {0, n + 1}
  BY <1>1, Zenon DEF Info!Cuts
<1>3. Info!Cuts(t) \subseteq 0..(Len(t) + 1) /\ 0 \in Info!Cuts(t) /\ Len(t) + 1 \in Info!Cuts(t)
  <2>1. At \subseteq 1..n
    OBVIOUS
  <2>2. n \in Nat
    BY <1>1
  <2> HIDE DEF At, n
  <2>3. At \cup {0, n + 1} \subseteq 0..(n + 1)
    BY <2>1, <2>2
  <2> QED
    BY <1>2, <2>3 DEF n
<1>4. \A i \in 1..Len(t) : i \in Info!Cuts(t) <=> t[i] = ","
  <2>1. \A i \in 1..n : i \in At <=> t[i] = d
    OBVIOUS
  <2>2. \A i \in 1..n : i # 0 /\ i # n + 1
    BY <1>1
  <2> HIDE DEF At, d
  <2>3. \A i \in 1..n : i \in Info!Cuts(t) <=> t[i] = d
    BY <1>2, <2>1, <2>2
  <2> QED
    BY <2>3 DEF d
<1> HIDE DEF At, d, n
<1>5. IsFiniteSet(0..(Len(t) + 1))
  BY <1>1, FS_Interval
<1>6. IsFiniteSet(Info!Cuts(t))
  BY <1>3, <1>5, FS_Subset
<1>7. ASSUME NEW c PROVE IsFiniteSet(Below(t, c)) /\ Cardinality(Below(t, c)) \in Nat
  <2>1. Below(t, c) \subseteq Info!Cuts(t)
    BY DEF Below
  <2> QED
    BY <1>6, <2>1, FS_Subset, FS_CardinalityType
<1> QED
  BY <1>1, <1>3, <1>4, <1>6, <1>7

(* A cut and the next one. *)
LEMMA BelowNext ==
    ASSUME NEW t \in Seq(Tokens), NEW b \in Info!Cuts(t), NEW c \in Info!Cuts(t), b < c
    PROVE  /\ Cardinality(Below(t, b)) + 1 <= Cardinality(Below(t, c))
           /\ (\A a \in Info!Cuts(t) : ~(b < a /\ a < c)) =>
                 Cardinality(Below(t, c)) = Cardinality(Below(t, b)) + 1
<1> DEFINE B == Below(t, b) \cup {b}
<1>0. Info!Cuts(t) \subseteq 0..(Len(t) + 1) /\ Len(t) \in Nat
  BY CutsFinite
<1>1. /\ \A a \in Info!Cuts(t) : a \in Int
      /\ IsFiniteSet(Below(t, b)) /\ IsFiniteSet(Below(t, c))
      /\ Cardinality(Below(t, b)) \in Nat /\ Cardinality(Below(t, c)) \in Nat
  <2>1. \A a : IsFiniteSet(Below(t, a)) /\ Cardinality(Below(t, a)) \in Nat
    BY CutsFinite
  <2>2. \A a \in Info!Cuts(t) : a \in Int
    BY <1>0
  <2> QED
    BY <2>1, <2>2
<1>2. b \notin Below(t, b)
  BY <1>1 DEF Below
<1>3. Cardinality(B) = Cardinality(Below(t, b)) + 1
  BY <1>1, <1>2, FS_AddElement
<1>4. B \subseteq Below(t, c)
  BY <1>1 DEF Below
<1>5. Cardinality(B) <= Cardinality(Below(t, c))
  BY <1>1, <1>4, FS_Subset
<1>6. (\A a \in Info!Cuts(t) : ~(b < a /\ a < c)) => Below(t, c) = B
  <2> SUFFICES ASSUME \A a \in Info!Cuts(t) : ~(b < a /\ a < c),
                      NEW a \in Below(t, c)
               PROVE  a \in B
    BY <1>4
  <2>1. a \in Info!Cuts(t) /\ a \in Int /\ b \in Int /\ a < c /\ ~(b < a)
    BY <1>1 DEF Below
  <2>2. a < b \/ a = b
    BY <2>1
  <2> QED
    BY <2>1, <2>2 DEF Below
<1> QED
  BY <1>3, <1>5, <1>6

LEMMA OneCutOfNumber ==
    ASSUME NEW t \in Seq(Tokens), NEW b, NEW c, NEW k, CutNo(t, b, k), CutNo(t, c, k)
    PROVE  b = c
<1>0. /\ b \in Info!Cuts(t) /\ c \in Info!Cuts(t) /\ k \in Nat
      /\ Cardinality(Below(t, b)) = k /\ Cardinality(Below(t, c)) = k
      /\ Info!Cuts(t) \subseteq 0..(Len(t) + 1) /\ Len(t) \in Nat
  BY CutsFinite DEF CutNo
<1>1. b \in Int /\ c \in Int
  BY <1>0
<1>2. ~(b < c)
  BY <1>0, BelowNext
<1>3. ~(c < b)
  BY <1>0, BelowNext
<1> QED
  BY <1>1, <1>2, <1>3

LEMMA NthCutIs ==
    ASSUME NEW t \in Seq(Tokens), NEW c, NEW k, CutNo(t, c, k)
    PROVE  Info!NthCut(t, k) = c
<1> DEFINE P(b) == b \in Info!Cuts(t) /\ Info!Cardinality({a \in Info!Cuts(t) : a < b}) = k
<1>1. \A b : P(b) <=> CutNo(t, b, k)
  BY SameCardinality DEF CutNo, Below
<1>2. Info!NthCut(t, k) = CHOOSE b : P(b)
  BY DEF Info!NthCut
<1> HIDE DEF P
<1>3. P(CHOOSE b : P(b))
  BY <1>1
<1> QED
  BY <1>1, <1>2, <1>3, OneCutOfNumber

(* As many stretches as cuts but one; the last cut is behind the text.      *)
LEMMA LastCut ==
    ASSUME NEW t \in Seq(Tokens), NEW m, m = Cardinality(Info!Cuts(t)) - 1
    PROVE  /\ m \in Nat /\ m >= 1 /\ CutNo(t, Len(t) + 1, m) /\ CutNo(t, 0, 0)
           /\ \A c, k : CutNo(t, c, k) => k \in 0..m /\ (k = m <=> c = Len(t) + 1)
           /\ DOMAIN Stretches(t) = 1..m
<1> DEFINE z == Len(t) + 1
<1>1. /\ Len(t) \in Nat /\ Info!Cuts(t) \subseteq 0..z /\ 0 \in Info!Cuts(t) /\ z \in Info!Cuts(t)
      /\ IsFiniteSet(Info!Cuts(t)) /\ Cardinality(Below(t, z)) \in Nat
      /\ \A c : Cardinality(Below(t, c)) \in Nat
  BY CutsFinite
<1>2. Below(t, z) = Info!Cuts(t) \ {z} /\ Below(t, 0) = {}
  BY <1>1 DEF Below
<1>3. Cardinality(Below(t, z)) = m
  BY <1>1, <1>2, FS_RemoveElement
<1>4. CutNo(t, z, m) /\ CutNo(t, 0, 0)
  BY <1>1, <1>2, <1>3, FS_EmptySet DEF CutNo
<1>5. ASSUME NEW c, NEW k, CutNo(t, c, k) PROVE k \in 0..m /\ (k = m <=> c = z)
  <2>1. c \in Info!Cuts(t) /\ c \in 0..z /\ k = Cardinality(Below(t, c)) /\ k \in Nat
    BY <1>1, <1>5 DEF CutNo
  <2>2. CASE c = z
    BY <1>1, <1>3, <2>1, <2>2
  <2>3. CASE c < z
    <3>1. k + 1 <= m
      BY <1>1, <1>3, <2>1, <2>3, BelowNext
    <3> QED
      BY <1>1, <1>3, <2>1, <2>3, <3>1
  <2> QED
    BY <1>1, <2>1, <2>2, <2>3
<1>6. m >= 1
  <2>1. m \in Nat /\ 0 # z
    BY <1>1, <1>3
  <2>2. m = 0 => 0 = z
    BY <1>4, <1>5
  <2>3. m # 0
    BY <2>1, <2>2, Zenon
  <2>4. \A k \in Nat : k # 0 => k >= 1
    OBVIOUS
  <2> QED
    BY <2>1, <2>3, <2>4, Zenon
<1>7. DOMAIN Stretches(t) = 1..m
  BY SameCardinality DEF Stretches
<1> QED
  BY <1>1, <1>3, <1>4, <1>5, <1>6, <1>7

LEMMA StretchSeq ==
    ASSUME NEW t \in Seq(Tokens), NEW i \in Nat, NEW j \in 0..Len(t), i + 1 >= 1
    PROVE  /\ SubSeq(t, i + 1, j) \in Seq(Tokens)
           /\ i <= j => Len(SubSeq(t, i + 1, j)) = j - i
           /\ i >= j => SubSeq(t, i + 1, j) = <<>>
           /\ \A k \in 1..(j - i) : SubSeq(t, i + 1, j)[k] = t[i + k]
<1> DEFINE q == SubSeq(t, i + 1, j)
<1>1. Len(t) \in Nat /\ \A k \in 1..Len(t) : t[k] \in Tokens
  BY LenProperties, ElementOfSeq
<1>2. i + 1 \in Int /\ j \in Int /\ \A k \in (i + 1)..j : t[k] \in Tokens
  BY <1>1
<1>3. /\ q \in Seq(Tokens) /\ Len(q) = IF i + 1 <= j THEN j - (i + 1) + 1 ELSE 0
      /\ \A k \in 1..(j - (i + 1) + 1) : q[k] = t[i + 1 + k - 1]
  BY <1>2, SubSeqProperties
<1> HIDE DEF q
<1>4. i <= j => Len(q) = j - i
  BY <1>1, <1>3
<1>5. i >= j => q = <<>>
  <2>1. i >= j => Len(q) = 0
    BY <1>1, <1>3
  <2> QED
    BY <1>3, <2>1, EmptySeq
<1>6. \A k \in 1..(j - i) : q[k] = t[i + k]
  <2>1. j - (i + 1) + 1 = j - i /\ \A k \in 1..(j - i) : i + 1 + k - 1 = i + k
    BY <1>1
  <2> QED
    BY <1>3, <2>1
<1> QED
  BY <1>3, <1>4, <1>5, <1>6 DEF q

(* What getline() has left behind a cut, and the cut it comes to next.      *)
Left(t, c) == SubSeq(t, c + 1, Len(t))
NextCut(t, c) == c + Info!Cut(Left(t, c), ",")
Piece(left) == Info!Field(left, ",")
More(left) == Info!After(left, ",")

(* What getline() takes next is the stretch up to the next cut.             *)
LEMMA NextStretch ==
    ASSUME NEW t \in Seq(Tokens), NEW c \in Nat, NEW k \in Nat, CutNo(t, c, k), c <= Len(t)
    PROVE  /\ Left(t, c) \in Seq(Tokens) /\ (Left(t, c) = <<>> <=> c = Len(t))
           /\ NextCut(t, c) \in (c + 1)..(Len(t) + 1) /\ CutNo(t, NextCut(t, c), k + 1)
           /\ k + 1 \in DOMAIN Stretches(t)
           /\ Stretches(t)[k + 1] = Piece(Left(t, c)) /\ Piece(Left(t, c)) \in Seq(Tokens)
           /\ More(Left(t, c)) = Left(t, NextCut(t, c))
<1> DEFINE d == ","  n == Len(t)  left == Left(t, c)  f == Info!Cut(left, d)  e == NextCut(t, c)
           field == Info!Field(left, d)  after == Info!After(left, d)
<1>0. n \in Nat /\ c \in 0..n
  <2>1. Len(t) \in Nat
    BY LenProperties
  <2> QED
    BY <2>1
<1>1. /\ Info!Cuts(t) \subseteq 0..(n + 1) /\ n + 1 \in Info!Cuts(t)
      /\ \A i \in 1..n : i \in Info!Cuts(t) <=> t[i] = d
      /\ c \in Info!Cuts(t) /\ Cardinality(Below(t, c)) = k
  BY CutsFinite DEF CutNo
<1> HIDE DEF d
<1>2. Info!Cuts(t) \subseteq Int
  BY <1>0, <1>1
<1>3. /\ left \in Seq(Tokens) /\ Len(left) = n - c
      /\ \A i \in 1..(n - c) : left[i] = t[c + i]
  <2>1. c \in Nat /\ n \in 0..n /\ c + 1 >= 1 /\ c <= n
    BY <1>0
  <2> QED
    BY <2>1, StretchSeq DEF Left
<1>4. /\ f \in 1..(Len(left) + 1)
      /\ field \in Seq(Tokens) /\ Len(field) = f - 1
      /\ \A i \in 1..(f - 1) : field[i] = left[i] /\ left[i] # d
      /\ after \in Seq(Tokens)
      /\ f > Len(left) => after = <<>>
      /\ f <= Len(left) => /\ left[f] = d
                           /\ Len(after) = Len(left) - f
                           /\ \A i \in 1..(Len(left) - f) : after[i] = left[f + i]
  BY <1>3, FieldFacts
<1>5. e = c + f
  BY DEF NextCut, d
<1>6. (left = <<>> <=> c = n)
  <2>1. left = <<>> <=> Len(left) = 0
    BY <1>3, EmptySeq
  <2> QED
    BY <1>0, <1>3, <2>1
<1> HIDE DEF d, n, left, f, e, field, after
<1>8. e \in (c + 1)..(n + 1) /\ e \in Int /\ c \in Int /\ f \in Int
  <2>1. Len(left) = n - c /\ f \in 1..(Len(left) + 1)
    BY <1>3, <1>4
  <2> QED
    BY <1>0, <1>5, <2>1
<1>9. e \in Info!Cuts(t)
  <2>1. CASE f > Len(left)
    <3>1. e = n + 1
      BY <1>0, <1>3, <1>4, <1>5, <2>1
    <3> QED
      BY <1>1, <3>1
  <2>2. CASE f <= Len(left)
    <3>1. Len(left) = n - c /\ f \in 1..(Len(left) + 1) /\ left[f] = d
      BY <1>3, <1>4, <2>2
    <3>2. e \in 1..n /\ f \in 1..(n - c)
      BY <1>0, <1>5, <2>2, <3>1
    <3>3. t[e] = d
      BY <1>3, <1>5, <3>1, <3>2
    <3> QED
      BY <1>1, <3>2, <3>3
  <2> QED
    BY <1>3, <1>4, <2>1, <2>2
<1>10. ASSUME NEW a \in Info!Cuts(t), c < a, a < e PROVE FALSE
  <2>1. a \in Int
    BY <1>2
  <2>2. c < a /\ a < e
    BY <1>10
  <2>3. a \in 1..n /\ a - c \in 1..(f - 1) /\ a - c \in 1..(n - c) /\ c + (a - c) = a
    BY <1>0, <1>3, <1>4, <1>5, <1>8, <1>10, <2>1, <2>2
  <2>4. t[a] = d
    BY <1>1, <2>3
  <2>5. left[a - c] # d /\ left[a - c] = t[c + (a - c)]
    BY <1>3, <1>4, <2>3
  <2> QED
    BY <2>3, <2>4, <2>5
<1>11. CutNo(t, e, k + 1)
  <2>1. c < e
    BY <1>8
  <2>2. Cardinality(Below(t, e)) = k + 1
    BY <1>1, <1>9, <1>10, <2>1, BelowNext
  <2> QED
    BY <1>9, <2>2 DEF CutNo
<1>12. k + 1 \in DOMAIN Stretches(t)
  <2> DEFINE m == Cardinality(Info!Cuts(t)) - 1
  <2>1. m \in Nat /\ k + 1 \in 0..m /\ DOMAIN Stretches(t) = 1..m
    BY <1>11, LastCut
  <2> HIDE DEF m
  <2>2. k + 1 \in 1..m
    BY <1>1, <2>1
  <2> QED
    BY <2>1, <2>2
<1>13. Stretches(t)[k + 1] = SubSeq(t, c + 1, e - 1)
  <2>1. k + 1 \in 1..(Info!Cardinality(Info!Cuts(t)) - 1)
    BY <1>12 DEF Stretches
  <2>2. Stretches(t)[k + 1] = Stretch(t, k + 1)
    BY <2>1 DEF Stretches
  <2>3. Info!NthCut(t, k) = c /\ Info!NthCut(t, k + 1) = e /\ (k + 1) - 1 = k
    BY <1>1, <1>11, NthCutIs
  <2>4. Stretch(t, k + 1) = SubSeq(t, c + 1, e - 1)
    BY <2>3, Zenon DEF Stretch
  <2> QED
    BY <2>2, <2>4
<1>14. SubSeq(t, c + 1, e - 1) = field
  <2> DEFINE q == SubSeq(t, c + 1, e - 1)
  <2>1. c \in Nat /\ e - 1 \in 0..n /\ c + 1 >= 1 /\ c <= e - 1
    BY <1>0, <1>8
  <2>2. /\ q \in Seq(Tokens) /\ Len(q) = (e - 1) - c
        /\ \A i \in 1..((e - 1) - c) : q[i] = t[c + i]
    BY <2>1, StretchSeq DEF n
  <2> HIDE DEF q
  <2>3. (e - 1) - c = f - 1 /\ \A i \in 1..(f - 1) : i \in 1..(n - c)
    BY <1>0, <1>3, <1>4, <1>5, <1>8
  <2>4. \A i \in 1..(f - 1) : q[i] = field[i]
    BY <1>3, <1>4, <2>2, <2>3
  <2>5. q = field
    BY <1>4, <2>2, <2>3, <2>4, SeqEqual
  <2> QED
    BY <2>5 DEF q
<1>15. after = SubSeq(t, e + 1, n)
  <2> DEFINE q == SubSeq(t, e + 1, n)
  <2>1. e \in Nat /\ n \in 0..n /\ e + 1 >= 1
    BY <1>0, <1>8
  <2>2. /\ q \in Seq(Tokens) /\ (e <= n => Len(q) = n - e) /\ (e >= n => q = <<>>)
        /\ \A i \in 1..(n - e) : q[i] = t[e + i]
    BY <2>1, StretchSeq DEF n
  <2> HIDE DEF q
  <2>3. CASE f > Len(left)
    <3>1. e >= n
      BY <1>0, <1>3, <1>4, <1>5, <2>3
    <3> QED
      BY <1>4, <2>2, <2>3, <3>1 DEF q
  <2>4. CASE f <= Len(left)
    <3>1. e <= n /\ Len(left) - f = n - e /\ \A i \in 1..(n - e) : f + i \in 1..(n - c) /\ c + (f + i) = e + i
      BY <1>0, <1>3, <1>4, <1>5, <1>8, <2>4
    <3>2. \A i \in 1..(n - e) : after[i] = left[f + i] /\ left[f + i] = t[c + (f + i)]
      BY <1>3, <1>4, <2>4, <3>1
    <3>3. \A i \in 1..(n - e) : after[i] = q[i]
      BY <2>2, <3>1, <3>2
    <3>4. after = q
      BY <1>4, <2>2, <2>4, <3>1, <3>3, SeqEqual
    <3> QED
      BY <3>4 DEF q
  <2> QED
    BY <1>3, <1>4, <2>3, <2>4
<1> QED
  BY <1>1, <1>3, <1>4, <1>6, <1>8, <1>11, <1>12, <1>13, <1>14, <1>15, Zenon
  DEF d, n, left, e, field, after, Left, Piece, More

(* The pieces are the stretches, but for an empty one at the end.           *)
LEMMA PiecesAre ==
    ASSUME NEW t \in Seq(Tokens)
    PROVE  \E m, p \in Nat :
             /\ m = Cardinality(Info!Cuts(t)) - 1 /\ m >= 1 /\ DOMAIN Stretches(t) = 1..m
             /\ p = IF Stretches(t)[m] = <<>> THEN m - 1 ELSE m
             /\ Len(Info!Pieces(t)) = p /\ DOMAIN Info!Pieces(t) = 1..p
             /\ \A i \in 1..p : Info!Pieces(t)[i] = Stretches(t)[i]
<1> DEFINE m == Cardinality(Info!Cuts(t)) - 1  all == Stretches(t)  S == {all[i] : i \in 1..m}
<1>1. m \in Nat /\ m >= 1 /\ DOMAIN all = 1..m
  BY LastCut
<1>2. all = [i \in 1..m |-> Stretch(t, i)]
  BY SameCardinality DEF Stretches
<1>3. Info!Pieces(t) = IF Info!Last(all) = <<>> THEN Info!Front(all) ELSE all
  BY DEF Info!Pieces, Stretches, Stretch
<1> HIDE DEF m, all
<1>4. all \in Seq(S) /\ Len(all) = m
  <2>1. all \in [1..m -> S]
    BY <1>2
  <2> HIDE DEF S
  <2> QED
    BY <1>1, <2>1
<1> HIDE DEF S
<1>5. Info!Last(all) = all[m] /\ Info!Front(all) = SubSeq(all, 1, m - 1)
  BY <1>4 DEF Info!Last, Info!Front
<1>6. CASE all[m] = <<>>
  <2>1. 1 \in Int /\ m - 1 \in Int /\ \A i \in 1..(m - 1) : all[i] \in S
    <3>1. \A i \in 1..m : all[i] \in S
      BY <1>4, ElementOfSeq
    <3> QED
      BY <1>1, <3>1
  <2> DEFINE q == SubSeq(all, 1, m - 1)
  <2>2. /\ q \in Seq(S) /\ Len(q) = IF 1 <= m - 1 THEN m - 1 - 1 + 1 ELSE 0
        /\ \A i \in 1..(m - 1 - 1 + 1) : q[i] = all[1 + i - 1]
    BY <2>1, SubSeqProperties
  <2>3. Info!Pieces(t) = q
    BY <1>3, <1>5, <1>6
  <2> HIDE DEF q
  <2>4. m - 1 \in Nat /\ Len(q) = m - 1 /\ DOMAIN q = 1..(m - 1)
    BY <1>1, <2>2, LenProperties
  <2>5. \A i \in 1..(m - 1) : q[i] = all[i]
    BY <1>1, <2>2
  <2> QED
    BY <1>1, <1>6, <2>3, <2>4, <2>5 DEF m, all
<1>7. CASE all[m] # <<>>
  <2>1. Info!Pieces(t) = all
    BY <1>3, <1>5, <1>7
  <2> QED
    BY <1>1, <1>4, <1>7, <2>1 DEF m, all
<1> QED
  BY <1>6, <1>7

(* The volumes run has put together so far are what the stretches up to     *)
(* some cut mean, and it has left what is behind that cut.                  *)
ThePaths == {p \in Seq(Tokens) : Path(p)}
TheVolumes == [src : ThePaths, dest : ThePaths, readOnly : BOOLEAN]

ReadUpTo(t, vols, c) ==
    /\ vols \in Seq(TheVolumes) /\ CutNo(t, c, Len(vols))
    /\ \A i \in 1..Len(vols) :
         i \in DOMAIN Stretches(t) /\ Info!Means(Stretches(t)[i]) = {vols[i]}

Walked(t, vols, left) == \E c \in Nat : ReadUpTo(t, vols, c) /\ left = Left(t, c)

(* They are the meaning of the whole text.                                  *)
MeantBy(t, vols) ==
    /\ vols \in Seq(TheVolumes) /\ Len(vols) = Len(Info!Pieces(t))
    /\ DOMAIN vols = DOMAIN Info!Pieces(t)
    /\ \A i \in DOMAIN vols : Info!Means(Info!Pieces(t)[i]) = {vols[i]}

LEMMA VolumesAreVolumes == \A v : AVolume(v) <=> v \in TheVolumes
<1>1. ASSUME NEW v \in TheVolumes PROVE AVolume(v)
  BY DEF TheVolumes, ThePaths, AVolume
<1>2. ASSUME NEW v, AVolume(v) PROVE v \in TheVolumes
  <2>1. v.src \in ThePaths /\ v.dest \in ThePaths /\ v.readOnly \in BOOLEAN
    BY <1>2 DEF AVolume, ThePaths, Path
  <2>2. v = [src |-> v.src, dest |-> v.dest, readOnly |-> v.readOnly]
    BY <1>2 DEF AVolume
  <2> QED
    BY <2>1, <2>2 DEF TheVolumes
<1> QED
  BY <1>1, <1>2

LEMMA NothingMeansNothing == Info!Means(<<>>) = {}
<1> DEFINE e == <<>>
<1>1. e \in Seq(Tokens)
  BY EmptySeq
<1>2. Info!Field(e, ":") = <<>>
  BY ColonFields
<1>3. ~Info!IsValidSpec(e)
  BY <1>2 DEF Info!IsValidSpec, Info!Decompose
<1> QED
  BY <1>1, <1>3, MeaningOfPiece

LEMMA WalkStarts == ASSUME NEW t \in Seq(Tokens) PROVE Walked(t, <<>>, t)
<1> DEFINE e == <<>>
<1>1. e \in Seq(TheVolumes) /\ Len(e) = 0
  BY EmptySeq
<1>2. CutNo(t, 0, 0)
  BY LastCut
<1>3. t = Left(t, 0)
  BY SubSeqFull DEF Left
<1> HIDE DEF e
<1>4. ReadUpTo(t, e, 0)
  BY <1>1, <1>2 DEF ReadUpTo
<1> QED
  BY <1>3, <1>4 DEF Walked, e

LEMMA LeftAhead ==
    ASSUME NEW t \in Seq(Tokens), NEW c \in Nat, Left(t, c) # <<>>
    PROVE  c <= Len(t) /\ c # Len(t) /\ Len(t) \in Nat
<1> DEFINE n == Len(t)
<1>1. n \in Nat
  BY LenProperties
<1>2. n \in 0..n /\ c + 1 >= 1
  BY <1>1
<1>3. c >= n => Left(t, c) = <<>>
  BY <1>2, StretchSeq DEF Left
<1>4. ~(c >= n)
  BY <1>3, Zenon
<1> HIDE DEF n
<1>5. c <= n /\ c # n
  BY <1>1, <1>4
<1> QED
  BY <1>1, <1>5 DEF n

(* One more specification taken. *)
LEMMA WalkStep ==
    ASSUME NEW t \in Seq(Tokens), NEW vols \in Seq(TheVolumes), NEW c \in Nat,
           ReadUpTo(t, vols, c), Left(t, c) # <<>>,
           Info!IsValidSpec(Piece(Left(t, c)))
    PROVE  Walked(t, Append(vols, Info!Volume(Piece(Left(t, c)))),
                  More(Left(t, c)))
<1> DEFINE k == Len(vols)  piece == Piece(Left(t, c))
           v == Info!Volume(piece)  more == Append(vols, v)  e == NextCut(t, c)
<1>1. k \in Nat /\ c <= Len(t) /\ Len(t) \in Nat
  BY LeftAhead, LenProperties
<1>2. CutNo(t, c, k) /\ \A i \in 1..k :
        i \in DOMAIN Stretches(t) /\ Info!Means(Stretches(t)[i]) = {vols[i]}
  BY DEF ReadUpTo
<1>3. /\ e \in (c + 1)..(Len(t) + 1) /\ CutNo(t, e, k + 1)
      /\ k + 1 \in DOMAIN Stretches(t) /\ Stretches(t)[k + 1] = piece /\ piece \in Seq(Tokens)
      /\ More(Left(t, c)) = Left(t, e)
  BY <1>1, <1>2, NextStretch
<1>4. v \in TheVolumes
  BY <1>3, ValidIsRead, VolumesAreVolumes
<1>5. Info!Means(piece) = {v}
  BY <1>3, MeaningOfPiece
<1> HIDE DEF v
<1>6. /\ more \in Seq(TheVolumes) /\ Len(more) = k + 1 /\ more[k + 1] = v
      /\ \A i \in 1..k : more[i] = vols[i]
  <2>1. /\ more \in Seq(TheVolumes) /\ Len(more) = Len(vols) + 1
        /\ \A i \in 1..Len(vols) : more[i] = vols[i]
        /\ more[Len(vols) + 1] = v
    BY <1>4, AppendProperties
  <2> QED
    BY <2>1
<1> HIDE DEF more, e, k, piece
<1>7. ASSUME NEW i \in 1..Len(more)
      PROVE  i \in DOMAIN Stretches(t) /\ Info!Means(Stretches(t)[i]) = {more[i]}
  <2>1. i \in 1..k \/ i = k + 1
    <3>1. Len(more) = k + 1 /\ k \in Nat
      BY <1>1, <1>6
    <3> QED
      BY <3>1
  <2>2. CASE i = k + 1
    BY <1>3, <1>5, <1>6, <2>2
  <2>3. CASE i \in 1..k
    BY <1>2, <1>6, <2>3
  <2> QED
    BY <2>1, <2>2, <2>3
<1>8. e \in Nat
  <2>1. e \in (c + 1)..(Len(t) + 1) /\ Len(t) \in Nat
    BY <1>1, <1>3
  <2> QED
    BY <2>1
<1>9. ReadUpTo(t, more, e)
  BY <1>3, <1>6, <1>7 DEF ReadUpTo
<1>10. Walked(t, more, More(Left(t, c)))
  BY <1>3, <1>8, <1>9 DEF Walked
<1> QED
  BY <1>10 DEF more, v, piece

(* A specification that is not taken is a piece that means nothing.         *)
LEMMA WalkStuck ==
    ASSUME NEW t \in Seq(Tokens), NEW vols \in Seq(TheVolumes), NEW c \in Nat,
           ReadUpTo(t, vols, c), Left(t, c) # <<>>,
           ~Info!IsValidSpec(Piece(Left(t, c)))
    PROVE  \E i \in DOMAIN Info!Pieces(t) : Info!Means(Info!Pieces(t)[i]) = {}
<1> DEFINE k == Len(vols)  e == NextCut(t, c)  left == Left(t, c)  piece == Piece(left)
           n == Len(t)
<1>1. k \in Nat /\ c <= n /\ c # n /\ n \in Nat
  BY LeftAhead, LenProperties
<1>2. CutNo(t, c, k)
  BY DEF ReadUpTo
<1>3. /\ e \in (c + 1)..(n + 1) /\ CutNo(t, e, k + 1)
      /\ k + 1 \in DOMAIN Stretches(t) /\ Stretches(t)[k + 1] = piece /\ piece \in Seq(Tokens)
  BY <1>1, <1>2, NextStretch
<1>4. Info!Means(piece) = {}
  BY <1>3, MeaningOfPiece
<1>5. PICK m, p \in Nat :
        /\ m = Cardinality(Info!Cuts(t)) - 1 /\ m >= 1 /\ DOMAIN Stretches(t) = 1..m
        /\ p = IF Stretches(t)[m] = <<>> THEN m - 1 ELSE m
        /\ Len(Info!Pieces(t)) = p /\ DOMAIN Info!Pieces(t) = 1..p
        /\ \A i \in 1..p : Info!Pieces(t)[i] = Stretches(t)[i]
  BY PiecesAre
<1>6. k + 1 = m <=> e = n + 1
  <2>1. \A b, h : CutNo(t, b, h) => (h = m <=> b = n + 1)
    BY <1>5, LastCut
  <2> HIDE DEF e, k, n
  <2> QED
    BY <1>3, <2>1
<1>7. e = n + 1 => piece # <<>>
  <2> DEFINE f == Info!Cut(left, ",")
  <2>1. left \in Seq(Tokens) /\ Len(left) = n - c
    <3>1. c <= n /\ n \in 0..n /\ c + 1 >= 1
      <4> HIDE DEF n
      <4> QED
        BY <1>1
    <3> QED
      BY <3>1, StretchSeq DEF Left
  <2> HIDE DEF left
  <2>2. Len(piece) = f - 1 /\ f \in 1..(Len(left) + 1)
    <3>1. \A d : /\ Len(Info!Field(left, d)) = Info!Cut(left, d) - 1
                 /\ Info!Cut(left, d) \in 1..(Len(left) + 1)
      BY <2>1, FieldFacts
    <3> QED
      BY <3>1, Zenon DEF Piece
  <2>3. piece = <<>> => Len(piece) = 0
    BY EmptySeq
  <2>4. e = c + f
    BY DEF NextCut, left
  <2> HIDE DEF e, piece, f, n
  <2>5. Len(left) = n - c
    BY <2>1
  <2>6. e = n + 1 => Len(piece) # 0
    BY <1>1, <2>2, <2>4, <2>5
  <2> QED
    BY <2>3, <2>6
<1> HIDE DEF k, e, piece, n, left
<1>8. k + 1 \in 1..p
  <2>1. k + 1 \in 1..m
    BY <1>3, <1>5
  <2>2. CASE k + 1 = m
    <3>1. p = m
      BY <1>3, <1>5, <1>6, <1>7, <2>2
    <3> QED
      BY <2>1, <3>1
  <2>3. CASE k + 1 # m
    <3>1. p = m - 1 \/ p = m
      BY <1>5
    <3> QED
      BY <1>1, <2>1, <2>3, <3>1
  <2> QED
    BY <2>2, <2>3
<1> QED
  BY <1>3, <1>4, <1>5, <1>8

(* With nothing left, what run has is what the text means.                  *)
LEMMA WalkEnds ==
    ASSUME NEW t \in Seq(Tokens), NEW vols \in Seq(TheVolumes), NEW c \in Nat,
           ReadUpTo(t, vols, c), Left(t, c) = <<>>
    PROVE  MeantBy(t, vols)
<1> DEFINE k == Len(vols)  n == Len(t)  e == NextCut(t, c)
<1>0. Left(t, c) = <<>>
  OBVIOUS
<1>1. k \in Nat /\ n \in Nat /\ DOMAIN vols = 1..k
  BY LenProperties
<1>2. /\ CutNo(t, c, k)
      /\ \A i \in 1..k : i \in DOMAIN Stretches(t) /\ Info!Means(Stretches(t)[i]) = {vols[i]}
  BY DEF ReadUpTo
<1>3. PICK m, p \in Nat :
        /\ m = Cardinality(Info!Cuts(t)) - 1 /\ m >= 1 /\ DOMAIN Stretches(t) = 1..m
        /\ p = IF Stretches(t)[m] = <<>> THEN m - 1 ELSE m
        /\ Len(Info!Pieces(t)) = p /\ DOMAIN Info!Pieces(t) = 1..p
        /\ \A i \in 1..p : Info!Pieces(t)[i] = Stretches(t)[i]
  BY PiecesAre
<1>4. \A b, h : CutNo(t, b, h) => h \in 0..m /\ (h = m <=> b = n + 1)
  BY <1>3, LastCut
<1>5. p = k
  <2>1. CASE c <= n
    <3>1. /\ (Left(t, c) = <<>> <=> c = n)
          /\ e \in (c + 1)..(n + 1) /\ CutNo(t, e, k + 1)
          /\ Stretches(t)[k + 1] = Piece(Left(t, c))
      BY <1>1, <1>2, <2>1, NextStretch
    <3>2. e = n + 1
      <4>1. c = n
        BY <3>1
      <4>2. e \in (c + 1)..(n + 1)
        BY <3>1
      <4> HIDE DEF e, n
      <4> QED
        BY <1>1, <4>1, <4>2
    <3>3. k + 1 = m
      <4> HIDE DEF e, n, k
      <4> QED
        BY <1>4, <3>1, <3>2
    <3>4. Stretches(t)[m] = <<>>
      <4> DEFINE z == <<>>
      <4>1. z \in Seq(Tokens) /\ \A i \in 1..Len(z) : z[i] # ","
        BY EmptySeq
      <4> HIDE DEF z
      <4>2. Info!Field(z, ",") = z
        BY <4>1, FieldOfWhole
      <4>3. Piece(<<>>) = <<>>
        BY <4>2 DEF z, Piece
      <4>4. Stretches(t)[m] = Piece(Left(t, c))
        BY <3>1, <3>3
      <4> QED
        BY <1>0, <4>3, <4>4, Zenon
    <3> HIDE DEF k
    <3> QED
      BY <1>1, <1>3, <3>3, <3>4
  <2>2. CASE ~(c <= n)
    <3>1. c \in Info!Cuts(t) /\ Info!Cuts(t) \subseteq 0..(n + 1)
      BY <1>2, CutsFinite DEF CutNo
    <3>2. c = n + 1
      BY <1>1, <2>2, <3>1
    <3>3. k = m
      BY <1>2, <1>4, <3>2
    <3>4. m \in 1..k
      BY <1>3, <3>3
    <3>5. Stretches(t)[m] # <<>>
      <4>1. Info!Means(Stretches(t)[m]) # {}
        BY <1>2, <3>4
      <4> QED
        BY <4>1, NothingMeansNothing
    <3> QED
      BY <1>3, <3>3, <3>5
  <2> QED
    BY <2>1, <2>2
<1> QED
  BY <1>1, <1>2, <1>3, <1>5 DEF MeantBy

-----------------------------------------------------------------------------
(* The configuration.  What run puts together is what the line means, and   *)
(* info.json keeps what start needs to put the same together again.         *)

Object(g, o) ==
    o = [argv |-> g.argv, image |-> Info!ImageInfo(g.image), volumes |-> o.volumes,
         memory |-> o.memory]

Strings(vols) == [i \in DOMAIN vols |-> Info!GetSpecString(vols[i])]
Document(g, d) ==
    \E vols : /\ MeantBy(g.volume, vols)
              /\ d = [argv |-> g.argv, image |-> Info!ImageInfo(g.image), volumes |-> Strings(vols)]

Refusable(t) == \E i \in DOMAIN Info!Pieces(t) : Info!Means(Info!Pieces(t)[i]) = {}

(* Run has options only when a line means it, and configures what they say. *)
Ready == cmd = "run" /\ goes # {}

InfoState ==
    /\ ipc \in {"new", "volumes", "refused", "serialize", "mount", "running", "stopped"}
    /\ ipc = "new" => obj = Info!Nothing
    /\ ipc \in {"new", "volumes", "refused", "serialize"} => doc = Info!Nothing
    /\ ipc \in {"volumes", "refused"} =>
         Object(given, obj) /\ Walked(given.volume, obj.volumes, specs)
    /\ ipc = "refused" => Refusable(given.volume)
    /\ ipc \in {"serialize", "mount", "running"} =>
         Object(given, obj) /\ MeantBy(given.volume, obj.volumes)
    /\ ipc \in {"mount", "running", "stopped"} => Document(given, doc)
    /\ ipc = "stopped" => obj = Info!Nothing

InfoInv ==
    /\ given.volume \in Seq(Tokens) /\ given.image \in Seq(Tokens)
    /\ Ready => \E r \in goes : given = Handed(r)
    /\ ipc # "new" => Ready
    /\ InfoState

(* What is written of a volume to info.json is read back as that volume.    *)
LEMMA StringRead ==
    ASSUME NEW v \in TheVolumes
    PROVE  /\ Info!IsValidSpec(Info!GetSpecString(v))
           /\ Info!Volume(Info!GetSpecString(v)) = v
<1>1. AVolume(v)
  BY VolumesAreVolumes
<1>2. Info!Reads(Info!GetSpecString(v), v)
  <2>1. v.readOnly \in BOOLEAN
    BY <1>1 DEF AVolume
  <2>2. CASE v.readOnly
    BY <2>2, Zenon DEF Info!Reads, Info!GetSpecString
  <2>3. CASE ~v.readOnly
    BY <2>3, Zenon DEF Info!Reads, Info!GetSpecString
  <2> QED
    BY <2>2, <2>3
<1> QED
  BY <1>1, <1>2, ReadBack

LEMMA StringsRead ==
    ASSUME NEW vols \in Seq(TheVolumes)
    PROVE  [i \in DOMAIN Strings(vols) |-> Info!Volume(Strings(vols)[i])] = vols
<1>1. /\ DOMAIN vols = 1..Len(vols) /\ vols = [i \in DOMAIN vols |-> vols[i]]
      /\ \A i \in DOMAIN vols : vols[i] \in TheVolumes
  BY LenProperties, ElementOfSeq
<1>2. DOMAIN Strings(vols) = DOMAIN vols
  BY DEF Strings
<1>3. \A i \in DOMAIN vols : Info!Volume(Strings(vols)[i]) = vols[i]
  BY <1>1, StringRead DEF Strings
<1> QED
  BY <1>1, <1>2, <1>3

LEMMA ConstructKeeps == ASSUME InfoInv, Info!Construct PROVE InfoState'
<1> USE DEF Info!Construct
<1>1. given.volume \in Seq(Tokens) /\ ipc = "new" /\ doc = Info!Nothing
  BY DEF InfoInv, InfoState
<1>2. /\ ipc' = "volumes" /\ given' = given /\ specs' = given.volume /\ doc' = Info!Nothing
      /\ obj' = [argv |-> given.argv, image |-> Info!ImageInfo(given.image), volumes |-> <<>>,
                 memory |-> Info!NoLimit]
  BY <1>1
<1>3. Object(given', obj') /\ obj'.volumes = <<>>
  BY <1>2 DEF Object
<1>4. Walked(given'.volume, obj'.volumes, specs')
  BY <1>1, <1>2, <1>3, WalkStarts
<1> QED
  BY <1>2, <1>3, <1>4 DEF InfoState

LEMMA Walk ==
    ASSUME InfoInv, ipc = "volumes"
    PROVE  /\ given.volume \in Seq(Tokens) /\ doc = Info!Nothing /\ Object(given, obj)
           /\ obj.volumes \in Seq(TheVolumes)
           /\ \E c \in Nat : ReadUpTo(given.volume, obj.volumes, c) /\ specs = Left(given.volume, c)
BY DEF InfoInv, InfoState, Walked, ReadUpTo

LEMMA AddVolumeKeeps == ASSUME InfoInv, Info!AddVolume PROVE InfoState'
<1>1. /\ ipc = "volumes" /\ specs # <<>> /\ Info!IsValidSpec(Piece(specs))
      /\ obj' = [obj EXCEPT !.volumes = Append(@, Info!Volume(Piece(specs)))]
      /\ specs' = More(specs)
      /\ UNCHANGED <<given, doc, ipc>>
  BY DEF Info!AddVolume, Piece, More
<1>2. PICK c \in Nat : ReadUpTo(given.volume, obj.volumes, c) /\ specs = Left(given.volume, c)
  BY <1>1, Walk
<1>3. /\ given.volume \in Seq(Tokens) /\ doc = Info!Nothing /\ Object(given, obj)
      /\ obj.volumes \in Seq(TheVolumes)
  BY <1>1, Walk
<1>4. Walked(given.volume, Append(obj.volumes, Info!Volume(Piece(specs))), More(specs))
  BY <1>1, <1>2, <1>3, WalkStep
<1>5. Object(given, obj') /\ obj'.volumes = Append(obj.volumes, Info!Volume(Piece(specs)))
  <2> DEFINE more == Append(obj.volumes, Info!Volume(Piece(specs)))
  <2>1. obj' = [obj EXCEPT !.volumes = more]
    BY <1>1, Zenon
  <2>2. obj = [argv |-> given.argv, image |-> Info!ImageInfo(given.image), volumes |-> obj.volumes,
               memory |-> obj.memory]
    BY <1>3 DEF Object
  <2> HIDE DEF more
  <2>3. obj' = [argv |-> given.argv, image |-> Info!ImageInfo(given.image), volumes |-> more,
                memory |-> obj.memory]
    BY <2>1, <2>2
  <2>4. Object(given, obj') /\ obj'.volumes = more
    BY <2>3 DEF Object
  <2> QED
    BY <2>4 DEF more
<1> QED
  BY <1>1, <1>3, <1>4, <1>5 DEF InfoState

LEMMA InvalidSpecKeeps == ASSUME InfoInv, Info!InvalidSpec PROVE InfoState'
<1>1. /\ ipc = "volumes" /\ ipc' = "refused" /\ specs # <<>> /\ ~Info!IsValidSpec(Piece(specs))
      /\ UNCHANGED <<given, specs, obj, doc>>
  BY DEF Info!InvalidSpec, Piece
<1>2. PICK c \in Nat : ReadUpTo(given.volume, obj.volumes, c) /\ specs = Left(given.volume, c)
  BY <1>1, Walk
<1>3. given.volume \in Seq(Tokens) /\ obj.volumes \in Seq(TheVolumes)
  BY <1>1, Walk
<1>4. Refusable(given.volume)
  BY <1>1, <1>2, <1>3, WalkStuck DEF Refusable
<1> QED
  BY <1>1, <1>4 DEF InfoInv, InfoState

LEMMA AddCgroupKeeps == ASSUME InfoInv, Info!AddCgroup PROVE InfoState'
<1>1. /\ ipc = "volumes" /\ ipc' = "serialize" /\ specs = <<>>
      /\ obj' = [obj EXCEPT !.memory = given.memory]
      /\ UNCHANGED <<given, specs, doc>>
  BY DEF Info!AddCgroup
<1>2. PICK c \in Nat : ReadUpTo(given.volume, obj.volumes, c) /\ specs = Left(given.volume, c)
  BY <1>1, Walk
<1>3. /\ given.volume \in Seq(Tokens) /\ doc = Info!Nothing /\ Object(given, obj)
      /\ obj.volumes \in Seq(TheVolumes)
  BY <1>1, Walk
<1>4. MeantBy(given.volume, obj.volumes)
  BY <1>1, <1>2, <1>3, WalkEnds
<1>5. Object(given, obj') /\ obj'.volumes = obj.volumes
  BY <1>1, <1>3 DEF Object
<1> QED
  BY <1>1, <1>3, <1>4, <1>5 DEF InfoState

LEMMA SerializeKeeps == ASSUME InfoInv, Info!Serialize PROVE InfoState'
<1>1. /\ ipc = "serialize" /\ ipc' = "mount"
      /\ doc' = [argv |-> obj.argv, image |-> obj.image, volumes |-> Strings(obj.volumes)]
      /\ UNCHANGED <<given, specs, obj>>
  BY DEF Info!Serialize, Strings
<1>2. Object(given, obj) /\ MeantBy(given.volume, obj.volumes)
  BY <1>1 DEF InfoInv, InfoState
<1>3. obj.argv = given.argv /\ obj.image = Info!ImageInfo(given.image)
  BY <1>2 DEF Object
<1>4. Document(given, doc')
  BY <1>1, <1>2, <1>3 DEF Document
<1> QED
  BY <1>1, <1>2, <1>4 DEF InfoState

LEMMA DeserializeKeeps == ASSUME InfoInv, Info!Deserialize PROVE InfoState'
<1>1. /\ ipc = "stopped" /\ ipc' = "mount"
      /\ obj' = [argv |-> doc.argv, image |-> doc.image, memory |-> Info!NoLimit,
                 volumes |-> [i \in DOMAIN doc.volumes |-> Info!Volume(doc.volumes[i])]]
      /\ UNCHANGED <<given, specs, doc>>
  BY DEF Info!Deserialize
<1>2. Document(given, doc)
  BY <1>1 DEF InfoInv, InfoState
<1>3. PICK vols :
        /\ MeantBy(given.volume, vols)
        /\ doc = [argv |-> given.argv, image |-> Info!ImageInfo(given.image),
                  volumes |-> Strings(vols)]
  BY <1>2 DEF Document
<1>4. doc.argv = given.argv /\ doc.image = Info!ImageInfo(given.image) /\ doc.volumes = Strings(vols)
  BY <1>3
<1>5. [i \in DOMAIN doc.volumes |-> Info!Volume(doc.volumes[i])] = vols
  <2>1. vols \in Seq(TheVolumes)
    BY <1>3 DEF MeantBy
  <2> QED
    BY <1>4, <2>1, StringsRead
<1>6. Object(given, obj') /\ obj'.volumes = vols
  BY <1>1, <1>4, <1>5 DEF Object
<1> QED
  BY <1>1, <1>2, <1>3, <1>6 DEF InfoState

LEMMA SessionKeeps == ASSUME InfoInv, Info!MountVolumes \/ Info!Stop PROVE InfoState'
<1>1. CASE Info!MountVolumes
  BY <1>1 DEF InfoInv, InfoState, Info!MountVolumes
<1>2. CASE Info!Stop
  BY <1>2 DEF InfoInv, InfoState, Info!Stop
<1> QED
  BY <1>1, <1>2

LEMMA ConfiguringKeeps == ASSUME InfoInv, Configuring PROVE InfoInv'
<1>1. Ready /\ Ready' /\ goes' = goes /\ Info!Next
  BY DEF Configuring, vars, Ready
<1>2. given' = given
  BY <1>1 DEF Info!Next, Info!Construct, Info!AddVolume, Info!InvalidSpec, Info!AddCgroup,
              Info!Serialize, Info!MountVolumes, Info!Stop, Info!Deserialize
<1>3. InfoState'
  BY <1>1, ConstructKeeps, AddVolumeKeeps, InvalidSpecKeeps, AddCgroupKeeps, SerializeKeeps,
     DeserializeKeeps, SessionKeeps DEF Info!Next
<1>4. /\ given.volume \in Seq(Tokens) /\ given.image \in Seq(Tokens)
      /\ \E r \in goes : given = Handed(r)
  BY <1>1 DEF InfoInv
<1> QED
  BY <1>1, <1>2, <1>3, <1>4 DEF InfoInv

(* While the command line is read nothing is configured. *)
LEMMA NotReady == ASSUME ParserInv, pc # "end" PROVE goes = {} /\ ~Ready
BY DEF ParserInv, Ready

LEMMA ReadingKeeps == ASSUME ParserInv, InfoInv, Reading PROVE InfoInv'
<1>1. /\ pc # "end" /\ UNCHANGED infoVars
      /\ goes' = goes \/ (pc = "start" /\ cmd' = cmd)
  <2>1. UNCHANGED infoVars /\ (Parse \/ OtherThanRun)
    BY DEF Reading
  <2>2. Parse => pc # "end" /\ goes' = goes
    BY DEF Parse, UnknownOption, TakeFlag, TakeValue, ValueMissing, AtOption, Phases, GlobalHelp,
           NoCommand, UnknownCommand, GetCmdInfo, CommandHelp, Dispatch, Parsed, Exit
  <2>3. OtherThanRun => pc # "end" /\ (goes' = goes \/ (pc = "start" /\ cmd' = cmd))
    BY DEF OtherThanRun, System, RunRefused, StartUnnamed, StartRefused, Start, Exit, GoOn
  <2> QED
    BY <2>1, <2>2, <2>3
<1>2. ~Ready /\ ~Ready'
  <2>1. goes = {} /\ ~Ready
    BY <1>1, NotReady
  <2>2. pc = "start" => cmd = "start"
    BY OptionFacts DEF ParserInv
  <2> QED
    BY <1>1, <2>1, <2>2 DEF Ready
<1>3. UNCHANGED <<given, specs, obj, doc, mounts, ipc>>
  BY <1>1 DEF infoVars
<1>4. InfoState'
  BY <1>3 DEF InfoInv, InfoState
<1> QED
  BY <1>2, <1>3, <1>4 DEF InfoInv

LEMMA GreatestNumber ==
    ASSUME NEW n \in Nat, NEW S \in SUBSET (1..n), S # {}
    PROVE  \E m \in S : \A y \in S : y <= m
<1> DEFINE R == {n - y : y \in S}
<1>1. R \in SUBSET Nat /\ R # {} /\ \A y \in S : n - y \in R /\ y \in Int
  <2>1. \A y \in S : y \in Int /\ n - y \in Nat
    OBVIOUS
  <2>2. \A y \in S : n - y \in R
    OBVIOUS
  <2>3. R \in SUBSET Nat
    BY <2>1
  <2> QED
    BY <2>1, <2>2, <2>3
<1>2. \A k \in R : \E y \in S : k = n - y
  OBVIOUS
<1> HIDE DEF R
<1>3. Info!Min(R) \in R /\ \A k \in R : Info!Min(R) <= k
  BY <1>1, LeastNumber
<1>4. PICK m \in S : Info!Min(R) = n - m
  BY <1>2, <1>3
<1>5. \A y \in S : n - m <= n - y
  BY <1>1, <1>3, <1>4
<1>6. \A y \in S : y <= m
  BY <1>1, <1>5
<1> QED
  BY <1>6

(* What was said of an option is a word of the line. *)
LEMMA SaidIsWord ==
    ASSUME argv \in Seq(Words), NEW n \in Nat, 2 * n + 1 <= Len(argv), NEW o
    PROVE  Said(o, n) = NotGiven \/ Said(o, n) \in Words
<1> DEFINE at == {i \in 1..n : argv[2 * i] \in Spellings(o)}
           top == CHOOSE i \in at : \A j \in at : j <= i
<1>1. Said(o, n) = IF at = {} THEN NotGiven ELSE argv[2 * top + 1]
  BY DEF Said
<1>2. Len(argv) \in Nat /\ \A i \in 1..Len(argv) : argv[i] \in Words
  BY LenProperties, ElementOfSeq
<1>3. at \in SUBSET (1..n)
  OBVIOUS
<1> HIDE DEF at
<1>4. at # {} => top \in at
  BY <1>3, GreatestNumber
<1> HIDE DEF top
<1>5. at # {} => 2 * top + 1 \in 1..Len(argv)
  <2>1. at # {} => top \in 1..n
    BY <1>3, <1>4
  <2>2. \A i \in 1..n : 2 * i + 1 \in 1..Len(argv)
    BY <1>2
  <2> QED
    BY <2>1, <2>2
<1> QED
  BY <1>1, <1>2, <1>5

(* What run hands over are texts. *)
LEMMA HandKeeps == ASSUME ParserInv, InfoInv, Hand PROVE InfoInv'
<1> DEFINE vol == GetOptionValue("--volume")
           r == [name |-> GetOptionValue("--name"), volume |-> vol,
                 memory |-> GetOptionValue("--memory"), words |-> rest]
<1>1. /\ pc = "run" /\ rest # <<>> /\ UNCHANGED <<argv, cmd, specs, obj, doc, mounts, ipc>>
      /\ goes' = {r}
      /\ \E q \in goes' : given' = Handed(q)
  BY DEF Hand, Run, GoOn
<1>2. given' = Handed(r)
  BY <1>1
<1>3. PICK n \in Nat : ReadTo(n)
  BY <1>1, OptionFacts DEF ParserInv
<1>4. argv \in Seq(Words) /\ Len(argv) \in Nat
  BY LenProperties DEF ParserInv
<1>5. 2 * n + 1 <= Len(argv) /\ rest = SubSeq(argv, (2 * n + 1) + 1, Len(argv))
  BY <1>3 DEF ReadTo
<1>6. vol = NotGiven \/ vol \in Words
  <2>1. "--volume" \in Spellings(Volume) /\ Volume \in Valued
    BY OptionFacts DEF Valued
  <2>2. vol = Said(Volume, n)
    BY <1>3, <2>1 DEF ReadTo
  <2> QED
    BY <1>4, <1>5, <2>2, SaidIsWord
<1>7. rest \in Seq(Words) /\ Head(rest) \in Words
  <2>1. 2 * n + 1 \in 0..Len(argv)
    BY <1>4, <1>5
  <2>2. rest \in Seq(Words)
    BY <1>4, <1>5, <2>1, Suffix
  <2> QED
    BY <1>1, <2>2, HeadTailProperties
<1> HIDE DEF vol
<1>8. /\ given'.volume = IF vol = NotGiven THEN <<>> ELSE Text(vol)
      /\ given'.image = Text(Head(rest))
  BY <1>2 DEF Handed
<1>9. given'.volume \in Seq(Tokens) /\ given'.image \in Seq(Tokens)
  <2>1. <<>> \in Seq(Tokens) /\ \A w \in Words : Text(w) \in Seq(Tokens)
    BY TextAssumption, EmptySeq
  <2> QED
    BY <1>6, <1>7, <1>8, <2>1
<1>10. ipc = "new" /\ InfoState'
  <2>1. ~Ready
    BY <1>1, NotReady
  <2>2. ipc = "new" /\ InfoState
    BY <2>1 DEF InfoInv
  <2> QED
    BY <1>1, <2>2 DEF InfoState
<1>11. \E q \in goes' : given' = Handed(q)'
  BY <1>1, <1>2 DEF Handed
<1> QED
  BY <1>1, <1>9, <1>10, <1>11 DEF InfoInv

THEOREM InfoInvariant == ConfigureSpec => [](ParserInv /\ InfoInv)
<1>1. ConfigureInit => InfoInv
  <2> SUFFICES ASSUME ConfigureInit PROVE InfoInv
    OBVIOUS
  <2>1. given = NoOptions /\ obj = Info!Nothing /\ doc = Info!Nothing /\ ipc = "new" /\ goes = {}
    BY DEF ConfigureInit, Init, Info!Init
  <2>2. given.volume \in Seq(Tokens) /\ given.image \in Seq(Tokens)
    BY <2>1, EmptySeq DEF NoOptions
  <2> QED
    BY <2>1, <2>2 DEF InfoInv, InfoState, Ready
<1>2. ParserInv /\ InfoInv /\ [ConfigureNext]_<<vars, infoVars>> => InfoInv'
  <2> SUFFICES ASSUME ParserInv, InfoInv, [ConfigureNext]_<<vars, infoVars>> PROVE InfoInv'
    OBVIOUS
  <2>1. CASE UNCHANGED <<vars, infoVars>>
    BY <2>1 DEF vars, infoVars, InfoInv, InfoState, Ready
  <2>2. CASE ConfigureNext
    BY <2>2, ReadingKeeps, HandKeeps, ConfiguringKeeps DEF ConfigureNext
  <2> QED
    BY <2>1, <2>2
<1> QED
  BY <1>1, <1>2, ParserInvariant, PTL DEF ConfigureSpec

-----------------------------------------------------------------------------
(* What follows of a configuration. *)

(* Every variable has the values the two parts can give it.                 *)
THEOREM ConfigureTypeCorrect == ConfigureSpec => []ConfigureTypeOK
<1>1. ParserInv /\ InfoInv => ConfigureTypeOK
  <2> SUFFICES ASSUME ParserInv, InfoInv PROVE ConfigureTypeOK
    OBVIOUS
  <2>1. TypeOK /\ InfoState
    BY DEF ParserInv, InfoInv
  <2>2. obj = Info!Nothing \/ obj.volumes \in Seq(TheVolumes)
    BY <2>1 DEF InfoState, Walked, ReadUpTo, MeantBy
  <2>3. \A vols \in Seq(TheVolumes) : \A v \in Info!ToSet(vols) : v.src # <<>> /\ v.dest # <<>>
    <3> SUFFICES ASSUME NEW vols \in Seq(TheVolumes), NEW v \in Info!ToSet(vols)
                 PROVE  v.src # <<>> /\ v.dest # <<>>
      OBVIOUS
    <3>1. v \in TheVolumes
      BY LenProperties, ElementOfSeq DEF Info!ToSet
    <3>2. Path(v.src) /\ Path(v.dest)
      BY <3>1, VolumesAreVolumes DEF AVolume
    <3> QED
      BY <3>2 DEF Path
  <2>4. doc = Info!Nothing \/ Document(given, doc)
    BY <2>1 DEF InfoState
  <2>5. ASSUME Document(given, doc), NEW s \in Info!ToSet(doc.volumes) PROVE Info!IsValidSpec(s)
    <3>1. PICK vols : vols \in Seq(TheVolumes) /\ doc.volumes = Strings(vols)
      BY <2>5 DEF Document, MeantBy
    <3>2. PICK i \in DOMAIN vols : s = Info!GetSpecString(vols[i])
      BY <2>5, <3>1 DEF Strings, Info!ToSet
    <3>3. vols[i] \in TheVolumes
      BY <3>1, LenProperties, ElementOfSeq
    <3> QED
      BY <3>2, <3>3, StringRead
  <2>6. Info!TypeOK
    BY <2>1, <2>2, <2>3, <2>4, <2>5 DEF Info!TypeOK, InfoState
  <2> QED
    BY <2>1, <2>6 DEF ConfigureTypeOK
<1> QED
  BY <1>1, InfoInvariant, PTL

(* For --volume texts of any length and of any tokens: run takes exactly    *)
(* those that have a meaning, and takes them to mean that (cmd_run.cpp:53-  *)
(* 66, volume.cpp:24-66).                                                   *)
THEOREM TextsReadAsWritten == ConfigureSpec => []AcceptedAsWritten
<1>1. InfoInv => AcceptedAsWritten
  <2> SUFFICES ASSUME InfoInv PROVE Info!AcceptedAsWritten
    BY DEF AcceptedAsWritten
  <2>1. ipc = "refused" =>
          \E p \in Info!ToSet(Info!Pieces(given.volume)) : Info!Means(p) = {}
    BY DEF InfoInv, InfoState, Refusable, Info!ToSet
  <2>2. ipc = "serialize" => MeantBy(given.volume, obj.volumes)
    BY DEF InfoInv, InfoState
  <2> QED
    BY <2>1, <2>2 DEF Info!AcceptedAsWritten, MeantBy
<1> QED
  BY <1>1, InfoInvariant, PTL

(* For every command line and every number of restarts: what the mounts are *)
(* made of is what the line means (cmd_option.cpp:78-156, cmd_run.cpp:24-66,*)
(* container.cpp:118-209).                                                  *)
THEOREM SessionsAsTyped == ConfigureSpec => []StartedAsTyped
<1>1. ParserInv /\ InfoInv => StartedAsTyped
  <2> SUFFICES ASSUME ParserInv, InfoInv, ipc = "mount"
               PROVE  \E r \in Meanings : given = Handed(r) /\ Info!RestoredAsCreated
    BY DEF StartedAsTyped
  <2>1. Ready /\ Object(given, obj) /\ MeantBy(given.volume, obj.volumes)
    BY DEF InfoInv, InfoState
  <2>2. goes = Meanings
    BY <2>1 DEF ParserInv, Ready
  <2>3. PICK r \in Meanings : given = Handed(r)
    BY <2>1, <2>2 DEF InfoInv
  <2>4. obj.argv = given.argv /\ obj.image = Info!ImageInfo(given.image)
    BY <2>1 DEF Object
  <2>5. [i \in DOMAIN obj.volumes |-> {obj.volumes[i]}]
          = [i \in DOMAIN Info!Pieces(given.volume) |-> Info!Means(Info!Pieces(given.volume)[i])]
    BY <2>1 DEF MeantBy
  <2> QED
    BY <2>3, <2>4, <2>5 DEF Info!RestoredAsCreated
<1> QED
  BY <1>1, InfoInvariant, PTL

(* The two ways with a name come to the same when the script's second field *)
(* is the whole of what the code takes for the tag.                         *)
LEMMA OneColonOneDirectory ==
    ASSUME NEW name \in Seq(Tokens)
    PROVE  Info!ImageInfo(name) = Info!ImportDir(name)
             <=> \A i, j \in DOMAIN name : name[i] = ":" /\ name[j] = ":" => i = j
<1> DEFINE d == ":"  n == Len(name)  c == Info!Cut(name, d)  tag == Info!After(name, d)
           first == Info!Field(tag, d)
<1>1. /\ n \in Nat /\ DOMAIN name = 1..n
      /\ IsCut(name, d, c) /\ c \in 1..(n + 1) /\ tag \in Seq(Tokens)
      /\ c > n => tag = <<>>
      /\ c <= n => /\ name[c] = d /\ Len(tag) = n - c
                   /\ \A i \in 1..(n - c) : tag[i] = name[c + i]
  BY LenProperties, CutIsCut, FieldFacts
<1>2. /\ first \in Seq(Tokens) /\ \A i \in 1..Len(first) : first[i] # d
  <2>1. first \in Seq(Tokens) /\ Len(first) = Info!Cut(tag, d) - 1
        /\ \A i \in 1..(Info!Cut(tag, d) - 1) : first[i] = tag[i] /\ tag[i] # d
    BY <1>1, FieldFacts
  <2> HIDE DEF first
  <2> QED
    BY <2>1
<1>3. Info!ImageInfo(name) = Info!ImportDir(name) <=> Info!OrLatest(tag) = Info!OrLatest(first)
  BY DEF Info!ImageInfo, Info!ImportDir
<1>4. ASSUME \A i, j \in 1..n : name[i] = d /\ name[j] = d => i = j PROVE tag = first
  <2>1. \A i \in 1..Len(tag) : tag[i] # d
    <3>1. CASE c > n
      BY <1>1, <3>1, EmptySeq
    <3>2. CASE c <= n
      <4> HIDE DEF d, n, c, tag
      <4>1. c \in 1..n /\ \A i \in 1..(n - c) : c + i \in 1..n /\ c + i # c
        BY <1>1, <3>2
      <4> QED
        BY <1>1, <1>4, <3>2, <4>1
    <3> HIDE DEF n, c
    <3> QED
      BY <1>1, <3>1, <3>2
  <2> QED
    BY <1>1, <2>1, FieldOfWhole
<1>5. ASSUME NEW i \in 1..n, NEW j \in 1..n, name[i] = d, name[j] = d, i < j
      PROVE  Info!OrLatest(tag) # Info!OrLatest(first)
  <2> HIDE DEF c, tag, first, n
  <2>1. c <= i
    BY <1>1, <1>5 DEF IsCut
  <2>2. j - c \in 1..(n - c) /\ c <= n /\ c + (j - c) = j
    BY <1>1, <1>5, <2>1
  <2>3. j - c \in 1..Len(tag) /\ tag[j - c] = d
    BY <1>1, <1>5, <2>2
  <2>4. tag # <<>>
    BY <2>3, EmptySeq
  <2>5. tag # first
    BY <1>2, <2>3
  <2>6. tag # <<"latest">>
    <3>1. <<"latest">>[1] = "latest" /\ Len(<<"latest">>) = 1
      OBVIOUS
    <3>2. "latest" # d
      OBVIOUS
    <3> QED
      BY <2>3, <3>1, <3>2
  <2> QED
    BY <2>4, <2>5, <2>6 DEF Info!OrLatest
<1>6. (\A i, j \in 1..n : name[i] = d /\ name[j] = d => i = j)
        <=> Info!OrLatest(tag) = Info!OrLatest(first)
  <2>1. ASSUME NEW i \in 1..n, NEW j \in 1..n, name[i] = d, name[j] = d, i # j
        PROVE  Info!OrLatest(tag) # Info!OrLatest(first)
    <3>1. i < j \/ j < i
      BY <2>1
    <3> QED
      BY <1>5, <2>1, <3>1
  <2> QED
    BY <1>4, <2>1
<1> QED
  BY <1>1, <1>3, <1>6, Zenon

(* For image names of any length and of any tokens: the directory that the  *)
(* container is made from is the one import_image.sh extracted the image to *)
(* exactly for the names of one colon at most (image.cpp:17-30,             *)
(* import_image.sh:33-39).                                                  *)
THEOREM NamesOfOneColonAreFound == ConfigureSpec => []ImportedIsFound
<1>1. InfoInv => ImportedIsFound
  <2> SUFFICES ASSUME InfoInv, ipc # "new", obj # Info!Nothing
               PROVE  obj.image = Info!ImportDir(given.image)
                        <=> \A i, j \in DOMAIN given.image :
                               given.image[i] = ":" /\ given.image[j] = ":" => i = j
    BY DEF ImportedIsFound, Info!ImportedIsFound
  <2>1. Object(given, obj) /\ given.image \in Seq(Tokens)
    BY DEF InfoInv, InfoState
  <2>2. obj.image = Info!ImageInfo(given.image)
    BY <2>1 DEF Object
  <2> QED
    BY <2>1, <2>2, OneColonOneDirectory, Zenon
<1> QED
  BY <1>1, InfoInvariant, PTL

=============================================================================
