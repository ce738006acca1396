----------------------------- MODULE MC_Configure -----------------------------
(* Command lines for TLC: all those of up to MaxWords of MC_Words; and run  *)
(* with every --volume text of up to MaxTokens tokens, lists of three       *)
(* specifications, and some images, arguments and limits.                   *)
EXTENDS Configure

CONSTANTS MaxWords, MaxTokens

(* Texts of up to n letters; "R" stands for ro.                             *)
Texts[n \in 0..MaxTokens] ==
    IF n = 0 THEN {""} ELSE {""} \cup {t \o c : t \in Texts[n - 1], c \in {"x", "R", ":", ","}}
Lists == {s \o "," \o t \o "," \o u : s, t, u \in {"x:x", "x:x:R", "R:xR:", "x::R"}}
Volumes == Texts[MaxTokens] \cup Lists
Images == {"u", "u:", "u:v", "uR", "u:v:", "u:5:v"}

MC_Dashed == AllSpellings \cup {"-x"}
MC_Names == {"run", "start", "system", "w", ""}
SomeWords == {"-h", "-n", "--name", "-v", "-m", "-x", "run", "start", "system", "w", ""}
MC_Words == SomeWords \cup Volumes \cup Images

MC_Argvs ==
    UNION {[1..n -> SomeWords] : n \in 0..MaxWords}
    \cup {<<"run", "-n", "w", "-v", t, "u">> : t \in Volumes}
    \cup {<<"run", "-n", "w", "-m", m, i>> \o a :
            m \in {"w", ""}, i \in Images, a \in {<<>>, <<"-v", "w">>}}

MC_Text(w) ==
    [i \in 1..Len(w) |-> LET c == SubSeq(w, i, i) IN IF c = "R" THEN "ro" ELSE c]
Letters == "xR:,uv5-hnamerstyw"
MC_Tokens == {"latest"} \cup {MC_Text(Letters)[i] : i \in 1..Len(Letters)}
=============================================================================
