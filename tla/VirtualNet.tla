------------------------------ MODULE VirtualNet ------------------------------
(***************************************************************************)
(* VirtualNetwork::Bringup() of virtual_net.cpp: the pair of virtual       *)
(* Ethernet devices veth0_<name> (the container's) and veth1_<name> (the   *)
(* host's), over the sessions of several containers on one host.  Nothing  *)
(* in the code deletes a pair: it goes when the kernel destroys the        *)
(* network namespace that one of its ends is in, some time after the last  *)
(* process and the last open file that refer to the namespace are gone.    *)
(***************************************************************************)
EXTENDS FiniteSets, Integers

CONSTANTS Names,        (* container names                                  *)
          Namespaces,   (* network namespaces besides the host's; one is
                           used again once the kernel destroyed it           *)
          Host,         (* the host's network namespace                     *)
          None,         (* no namespace, no file                            *)
          Lengths       (* how many characters a device's name may have     *)

Nl == INSTANCE RtNlReq

ASSUME NamespaceAssumption == Host \notin Namespaces /\ None \notin Namespaces \cup {Host}

(* Two names leave room for the rest of a request.                          *)
ASSUME LengthAssumption == \A n \in Lengths : n \in Nat /\ 2 * n + 88 <= Nl!Capacity

VARIABLES
    pair,       (* pair[c]: where veth0_<c> is and which ends are up        *)
    parent,     (* parent[c]: the diy_docker process of c                   *)
    child,      (* child[c]: the process it cloned                          *)
    used,       (* the namespaces the kernel has                            *)
    loUp,       (* the namespaces whose loopback device is up               *)
    routed,     (* the namespaces with a default route                      *)
    stranded    (* history: the containers whose pair never left the host   *)

vars == <<pair, parent, child, used, loUp, routed, stranded>>

NoPair == [at |-> None, up |-> FALSE, peerUp |-> FALSE]
NoParent == [pc |-> "idle", at |-> Host, fd |-> None, home |-> FALSE]
NoChild == [st |-> "none", ns |-> None]

Idle(c) == parent[c].pc = "idle" /\ child[c].st = "none"

(* What keeps a namespace alive. *)
Referenced(n) ==
    \E c \in Names : \/ child[c].st \in {"held", "running"} /\ child[c].ns = n
                     \/ n \in {parent[c].at, parent[c].fd}

Goto(c, pc) == parent' = [parent EXCEPT ![c].pc = pc]

kernel == <<used, loUp, routed>>
-----------------------------------------------------------------------------
(* The host may have a default route. *)
Init ==
    /\ pair = [c \in Names |-> NoPair]
    /\ parent = [c \in Names |-> NoParent]
    /\ child = [c \in Names |-> NoChild]
    /\ used = {} /\ loUp = {}
    /\ routed \in SUBSET {Host}
    /\ stranded = {}

(* clone(CLONE_NEWNET): users wait for a container to end. *)
Clone(c, n) ==
    /\ Idle(c) /\ n \notin used
    /\ child' = [child EXCEPT ![c] = [st |-> "held", ns |-> n]]
    /\ used' = used \cup {n}
    /\ Goto(c, "create")
    /\ UNCHANGED <<pair, loUp, routed, stranded>>

-----------------------------------------------------------------------------
(* _bringup_helper(): every call may fail, and the first that does is the   *)
(* last that is made.                                                       *)
Fails(c) ==
    /\ Goto(c, "die")
    /\ UNCHANGED <<pair, child, kernel>>

FailsOnHost(c) == Fails(c) /\ stranded' = stranded \cup {c}
FailsElsewhere(c) == Fails(c) /\ UNCHANGED stranded

(* _create_veth(): NLM_F_EXCL, so a pair left from before is an error.      *)
CreateVeth(c) ==
    /\ parent[c].pc = "create"
    /\ \/ /\ pair[c] = NoPair
          /\ pair' = [pair EXCEPT ![c].at = Host]
          /\ Goto(c, "peer")
          /\ UNCHANGED <<child, kernel, stranded>>
       \/ FailsElsewhere(c)

(* Fault: the result of _if_up() dropped. *)
PeerUpUnchecked(c) ==
    /\ parent[c].pc = "peer"
    /\ \E up \in BOOLEAN : pair' = [pair EXCEPT ![c].peerUp = up]
    /\ Goto(c, "files")
    /\ UNCHANGED <<child, kernel, stranded>>

PeerUp(c) ==
    /\ parent[c].pc = "peer"
    /\ \/ /\ pair' = [pair EXCEPT ![c].peerUp = TRUE]
          /\ Goto(c, "files")
          /\ UNCHANGED <<child, kernel, stranded>>
       \/ FailsOnHost(c)

(* _get_netns_fd() of both: a child that is dead has no namespace.  The     *)
(* code gives up only when neither could be opened.                         *)
OpenFiles(c) ==
    /\ parent[c].pc = "files"
    /\ \E home \in BOOLEAN,
          fd \in IF child[c].st = "held" THEN {child[c].ns, None} ELSE {None} :
         IF home \/ fd # None
         THEN /\ parent' = [parent EXCEPT ![c].pc = "move", ![c].home = home, ![c].fd = fd]
              /\ UNCHANGED <<pair, child, kernel, stranded>>
         ELSE FailsOnHost(c)

(* Fault: the answer to the request not waited for. *)
MoveVethUnchecked(c) ==
    /\ parent[c].pc = "move"
    /\ \E at \in {Host, parent[c].fd} \ {None} : pair' = [pair EXCEPT ![c].at = at]
    /\ Goto(c, "enter")
    /\ UNCHANGED <<child, kernel, stranded>>

(* _mv_veth_to_netns(): the kernel refuses the descriptor -1. *)
MoveVeth(c) ==
    /\ parent[c].pc = "move"
    /\ \/ /\ parent[c].fd # None
          /\ pair' = [pair EXCEPT ![c].at = parent[c].fd]
          /\ Goto(c, "enter")
          /\ UNCHANGED <<child, kernel, stranded>>
       \/ FailsOnHost(c)

(* setns() into the child's namespace *)
EnterNamespace(c) ==
    /\ parent[c].pc = "enter"
    /\ \/ /\ parent[c].fd # None
          /\ parent' = [parent EXCEPT ![c].pc = "veth", ![c].at = parent[c].fd]
          /\ UNCHANGED <<pair, child, kernel, stranded>>
       \/ FailsElsewhere(c)

(* The next three act on the namespace the parent is in. *)
VethUp(c) ==
    /\ parent[c].pc = "veth"
    /\ \/ /\ pair[c].at = parent[c].at
          /\ pair' = [pair EXCEPT ![c].up = TRUE]
          /\ Goto(c, "lo")
          /\ UNCHANGED <<child, kernel, stranded>>
       \/ FailsElsewhere(c)

(* Fault: the order of the operands of && swapped. *)
LoopbackUpAnyway(c) ==
    /\ parent[c].pc \in {"lo", "die"}
    /\ loUp' = loUp \cup {parent[c].at}
    /\ parent' = [parent EXCEPT ![c].pc = IF @ = "lo" THEN "route" ELSE @]
    /\ UNCHANGED <<pair, child, used, routed, stranded>>

LoopbackUp(c) ==
    /\ parent[c].pc = "lo"
    /\ \/ /\ loUp' = loUp \cup {parent[c].at}
          /\ Goto(c, "route")
          /\ UNCHANGED <<pair, child, used, routed, stranded>>
       \/ FailsElsewhere(c)

(* Fault: `succ = _set_default_gw(br_addr) && succ`. *)
SetDefaultGwAnyway(c) ==
    /\ parent[c].pc \in {"route", "die"} /\ parent[c].at \notin routed
    /\ routed' = routed \cup {parent[c].at}
    /\ parent' = [parent EXCEPT ![c].pc = IF @ = "route" THEN "back" ELSE @]
    /\ UNCHANGED <<pair, child, used, loUp, stranded>>

(* _set_default_gw(): NLM_F_EXCL again. *)
SetDefaultGw(c) ==
    /\ parent[c].pc = "route"
    /\ \/ /\ parent[c].at \notin routed
          /\ routed' = routed \cup {parent[c].at}
          /\ Goto(c, "back")
          /\ UNCHANGED <<pair, child, used, loUp, stranded>>
       \/ FailsElsewhere(c)

LeaveNamespace(c) ==
    /\ parent[c].pc = "back"
    /\ \/ /\ parent[c].home
          /\ parent' = [parent EXCEPT ![c].pc = "go", ![c].at = Host]
          /\ UNCHANGED <<pair, child, kernel, stranded>>
       \/ FailsElsewhere(c)

-----------------------------------------------------------------------------
(* The rest of the launch, as far as the namespaces are concerned.          *)

(* exit(): the parent leaves its namespace and its files are closed.        *)
ParentGone(c) == parent' = [parent EXCEPT ![c] = NoParent]

Tell(c) ==
    /\ parent[c].pc \in {"go", "die"}
    /\ IF child[c].st = "held"
       THEN /\ child' = [child EXCEPT ![c].st = IF parent[c].pc = "go" THEN "running" ELSE "zombie"]
            /\ Goto(c, "wait")
       ELSE ParentGone(c) /\ UNCHANGED child   (* SIGPIPE *)
    /\ UNCHANGED <<pair, kernel, stranded>>

Wait(c) ==
    /\ parent[c].pc = "wait" /\ child[c].st = "zombie"
    /\ child' = [child EXCEPT ![c] = NoChild]
    /\ ParentGone(c)
    /\ UNCHANGED <<pair, kernel, stranded>>

CommandEnds(c) ==
    /\ child[c].st = "running"
    /\ child' = [child EXCEPT ![c].st = "zombie"]
    /\ UNCHANGED <<pair, parent, kernel, stranded>>

(* A child whose parent is gone meets the end of the file and gives up (see *)
(* module Launch for what else it might do); init reaps it.                 *)
OrphanEnds(c) ==
    /\ parent[c].pc = "idle" /\ child[c].st \in {"held", "zombie"}
    /\ child' = [child EXCEPT ![c] = NoChild]
    /\ UNCHANGED <<pair, parent, kernel, stranded>>

-----------------------------------------------------------------------------
(* The environment                                                          *)

KillChild(c) ==
    /\ child[c].st \in {"held", "running"}
    /\ child' = [child EXCEPT ![c].st = "zombie"]
    /\ UNCHANGED <<pair, parent, kernel, stranded>>

KillParent(c) ==
    /\ parent[c].pc # "idle"
    /\ ParentGone(c)
    /\ stranded' = IF parent[c].pc \in {"peer", "files", "move"} THEN stranded \cup {c}
                                                                 ELSE stranded
    /\ UNCHANGED <<pair, child, kernel>>

(* The kernel's worker for dead namespaces: a veth goes with its peer.      *)
DestroyNamespace(n) ==
    /\ n \in used /\ ~Referenced(n)
    /\ used' = used \ {n} /\ loUp' = loUp \ {n} /\ routed' = routed \ {n}
    /\ pair' = [c \in Names |-> IF pair[c].at = n THEN NoPair ELSE pair[c]]
    /\ UNCHANGED <<parent, child, stranded>>

(* ip link delete (README.md:85-87) *)
UserDeletes(c) ==
    /\ Idle(c) /\ pair[c].at = Host
    /\ pair' = [pair EXCEPT ![c] = NoPair]
    /\ stranded' = stranded \ {c}
    /\ UNCHANGED <<parent, child, kernel>>

-----------------------------------------------------------------------------
Bringup(c) ==
    \/ CreateVeth(c) \/ PeerUp(c) \/ OpenFiles(c) \/ MoveVeth(c) \/ EnterNamespace(c)
    \/ VethUp(c) \/ LoopbackUp(c) \/ SetDefaultGw(c) \/ LeaveNamespace(c)

Next ==
    \/ \E c \in Names, n \in Namespaces : Clone(c, n)
    \/ \E c \in Names : \/ Bringup(c) \/ Tell(c) \/ Wait(c)
                        \/ CommandEnds(c) \/ OrphanEnds(c)
                        \/ KillChild(c) \/ KillParent(c) \/ UserDeletes(c)
    \/ \E n \in Namespaces : DestroyNamespace(n)

(* The kernel gets round to destroying what nobody refers to. *)
Fairness == \A n \in Namespaces : WF_vars(DestroyNamespace(n))

Spec == Init /\ [][Next]_vars /\ Fairness

-----------------------------------------------------------------------------
(* Every variable has the values the code can give it.                      *)
Spaces == Namespaces \cup {Host}

TypeOK ==
    /\ pair \in [Names -> [at : Spaces \cup {None}, up : BOOLEAN, peerUp : BOOLEAN]]
    /\ parent \in [Names ->
         [pc : {"idle", "create", "peer", "files", "move", "enter", "veth", "lo", "route",
                "back", "go", "die", "wait"},
          at : Spaces, fd : Namespaces \cup {None}, home : BOOLEAN]]
    /\ child \in [Names -> [st : {"none", "held", "running", "zombie"}, ns : Namespaces \cup {None}]]
    /\ used \subseteq Namespaces /\ loUp \subseteq used
    /\ routed \subseteq used \cup {Host}
    /\ stranded \subseteq Names

(* A command that was let go is on line, and stays so while namespaces of   *)
(* earlier sessions and of other containers come and go: both ends of its   *)
(* pair, the loopback device and the route are up in its own namespace.     *)
CommandOnline ==
    \A c \in Names : child[c].st = "running" =>
        /\ pair[c] = [at |-> child[c].ns, up |-> TRUE, peerUp |-> TRUE]
        /\ child[c].ns \in loUp \cap routed

(* The requests of a bring-up, and what each is to hold.                    *)
Requests ==
    [create |-> {<<Nl!CreateVeth(n, m), Nl!VethTree(n, m)>> : n, m \in Lengths},
     move   |-> {<<Nl!MoveVeth(n), Nl!MoveTree(n)>> : n \in Lengths},
     route  |-> {<<Nl!SetDefaultGw, Nl!GwTree>>}]

Garbled == {r \in UNION {Requests[pc] : pc \in DOMAIN Requests} : ~Nl!ReadBack(r[1], r[2])}

(* Whatever the length of the names, the kernel reads a request of a        *)
(* bring-up as the code nests it: no attribute is lost, cut or found on     *)
(* another level than it was put on (virtual_net.cpp:93-124, 173-243).      *)
RequestsReadBack ==
    \A c \in Names : parent[c].pc \in DOMAIN Requests =>
                        Requests[parent[c].pc] \cap Garbled = {}

(* The host keeps its default route, or keeps having none, whichever call   *)
(* of a bring-up fails: nothing meant for the container's namespace is done *)
(* to the host's.                                                           *)
HostRouteKept == [][(Host \in routed') = (Host \in routed)]_vars

(* Once a pair left the host it needs nobody to delete it: when its session *)
(* is over, however it ended, the kernel removes it.                        *)
PairRemoved ==
    \A c \in Names : Idle(c) /\ c \notin stranded ~> pair[c] = NoPair

(* What README.md:83-87 says: a pair is left behind by a premature exit.  A *)
(* session whose parent waited for its child and returned leaves none.      *)
ReturnLeavesNoPair ==
    [][\A c \in Names : parent[c].pc = "wait" /\ child'[c].st = "none" =>
           pair'[c].at # Host]_vars

=============================================================================
