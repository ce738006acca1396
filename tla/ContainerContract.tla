--------------------------- MODULE ContainerContract ---------------------------
(* What the commands promise about a container when users wait for one to   *)
(* end before they issue the next: it is there from its creation to its     *)
(* removal, runs once at a time, and every time with the volumes it had     *)
(* when it ran first (README.md:69-75, "resume the container").             *)
CONSTANTS Containers, Configs, Nil   (* Nil is none of the Configs *)

VARIABLES present,   (* the containers that exist                           *)
          config,    (* config[c]: the volumes c first ran with, or Nil     *)
          running    (* running[c]: the volumes it runs with, or Nil        *)

vars == <<present, config, running>>

Init ==
    /\ present = {}
    /\ config = [c \in Containers |-> Nil]
    /\ running = [c \in Containers |-> Nil]

Make(c) ==
    /\ present' = present \cup {c}
    /\ UNCHANGED <<config, running>>

Enter(c, u) ==
    /\ c \in present /\ running[c] = Nil /\ config[c] \in {Nil, u}
    /\ config' = [config EXCEPT ![c] = u]
    /\ running' = [running EXCEPT ![c] = u]
    /\ UNCHANGED present

(* One ends, or with the machine all of them.                               *)
Leave(S) ==
    /\ running' = [c \in Containers |-> IF c \in S THEN Nil ELSE running[c]]
    /\ UNCHANGED <<present, config>>

Discard(c) ==
    /\ running[c] = Nil
    /\ present' = present \ {c}
    /\ config' = [config EXCEPT ![c] = Nil]
    /\ UNCHANGED running

Next ==
    \/ \E c \in Containers : Make(c) \/ Discard(c) \/ \E u \in Configs : Enter(c, u)
    \/ \E S \in SUBSET Containers : Leave(S)

Spec == Init /\ [][Next]_vars

=============================================================================
