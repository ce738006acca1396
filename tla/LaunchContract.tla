---------------------------- MODULE LaunchContract ----------------------------
(***************************************************************************)
(* What ContainerInstance::run() promises about one launch: the command is *)
(* held back until its network stands, it is never held for ever, and what *)
(* it runs on is taken away only after it ended.                           *)
(***************************************************************************)

VARIABLES
    command,   (* the container's first process                             *)
    ready,     (* its network was brought up                                *)
    released   (* run() returned to a caller that unmounts everything       *)

vars == <<command, ready, released>>

Init == command = "none" /\ ready = FALSE /\ released = FALSE

Hold ==
    /\ command = "none" /\ ~released
    /\ command' = "held"
    /\ UNCHANGED <<ready, released>>

Prepare ==
    /\ command \in {"held", "ended"} /\ ~released
    /\ ready' = TRUE
    /\ UNCHANGED <<command, released>>

Run ==
    /\ command = "held" /\ ready
    /\ command' = "running"
    /\ UNCHANGED <<ready, released>>

Discard ==
    /\ command = "held"
    /\ command' = "ended"
    /\ UNCHANGED <<ready, released>>

End ==
    /\ command = "running"
    /\ command' = "ended"
    /\ UNCHANGED <<ready, released>>

Release ==
    /\ command = "ended"
    /\ released' = TRUE
    /\ UNCHANGED <<command, ready>>

Next == Hold \/ Prepare \/ Run \/ Discard \/ End \/ Release

Safety == Init /\ [][Next]_vars

(* A command that is held is let go or given up. *)
Resolves == command = "held" ~> command # "held"

=============================================================================
