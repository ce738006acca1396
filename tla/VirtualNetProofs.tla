-------------------------- MODULE VirtualNetProofs --------------------------
(***************************************************************************)
(* A command that was let go is on line, and no bring-up touches the       *)
(* host's own route, for any number of containers and namespaces; and its  *)
(* requests are read as they are meant, for names of any length.           *)
(***************************************************************************)
EXTENDS VirtualNet, SequenceTheorems, TLAPS

(* How far a session is says what is up, and where.  x, p and k are its     *)
(* pair, parent and child.                                                  *)
Moved == {"enter", "veth", "lo", "route", "back", "go"}
Inside == {"veth", "lo", "route", "back"}

Places(x, p, k, us) ==
    /\ p.pc \in {"idle", "create", "peer", "files"} => p.at = Host /\ p.fd = None
    /\ p.pc # "idle" => k.st # "none"
    /\ k.st # "none" => k.ns \in Namespaces
    /\ k.st \in {"held", "running"} => k.ns \in us
    /\ p.fd # None => p.fd = k.ns /\ p.fd \in us
    /\ p.at \in {Host, p.fd}
    /\ p.pc \in {"peer", "files", "move"} => x.at = Host
    /\ p.pc \in Moved => p.fd # None /\ x.at = p.fd
    /\ p.pc \in Inside => p.at = p.fd

Progress(x, p, lo, ro) ==
    /\ p.pc \in Moved \cup {"files", "move"} => x.peerUp = TRUE
    /\ p.pc \in {"lo", "route", "back", "go"} => x.up = TRUE
    /\ p.pc \in {"route", "back", "go"} => p.fd \in lo
    /\ p.pc \in {"back", "go"} => p.fd \in ro

Online(x, p, k, lo, ro) ==
    k.st = "running" =>
        /\ p.pc \in {"wait", "idle"}
        /\ x = [at |-> k.ns, up |-> TRUE, peerUp |-> TRUE]
        /\ k.ns \in lo /\ k.ns \in ro

Session(c) ==
    /\ Places(pair[c], parent[c], child[c], used)
    /\ Progress(pair[c], parent[c], loUp, routed)
    /\ Online(pair[c], parent[c], child[c], loUp, routed)

NetInv == TypeOK /\ \A c \in Names : Session(c)

-----------------------------------------------------------------------------
Pairs == [at : Spaces \cup {None}, up : BOOLEAN, peerUp : BOOLEAN]
Parents ==
    [pc : {"idle", "create", "peer", "files", "move", "enter", "veth", "lo", "route",
           "back", "go", "die", "wait"},
     at : Spaces, fd : Namespaces \cup {None}, home : BOOLEAN]
Children == [st : {"none", "held", "running", "zombie"}, ns : Namespaces \cup {None}]

(* The kernel's sets only grow, within their types. *)
Grows ==
    /\ used \subseteq used' /\ loUp \subseteq loUp' /\ routed \subseteq routed'
    /\ used' \subseteq Namespaces /\ loUp' \subseteq used' /\ routed' \subseteq used' \cup {Host}

(* A step of one session that takes nothing from the kernel's sets needs to *)
(* be looked at for that session only.                                      *)
LEMMA SessionStep ==
    ASSUME NetInv, NEW c \in Names,
           NEW x \in Pairs, NEW p \in Parents, NEW k \in Children,
           pair' = [pair EXCEPT ![c] = x],
           parent' = [parent EXCEPT ![c] = p],
           child' = [child EXCEPT ![c] = k],
           Grows,
           stranded' \subseteq Names,
           Places(x, p, k, used'), Progress(x, p, loUp', routed'),
           Online(x, p, k, loUp', routed')
    PROVE  NetInv'
<1>1. TypeOK'
  BY DEF NetInv, TypeOK, Pairs, Parents, Children, Grows
<1>2. /\ pair \in [Names -> Pairs] /\ parent \in [Names -> Parents] /\ child \in [Names -> Children]
  BY DEF NetInv, TypeOK, Pairs, Parents, Children
<1>3. ASSUME NEW d \in Names PROVE Session(d)'
  <2>1. CASE d = c
    <3>1. pair'[d] = x /\ parent'[d] = p /\ child'[d] = k
      BY <1>2, <2>1
    <3> QED
      BY <3>1 DEF Session
  <2>2. CASE d # c
    <3>1. pair'[d] = pair[d] /\ parent'[d] = parent[d] /\ child'[d] = child[d]
      BY <1>2, <2>2
    <3>2. Session(d)
      BY DEF NetInv
    <3>3. Places(pair[d], parent[d], child[d], used')
      BY <3>2 DEF Session, Places, Grows
    <3>4. Progress(pair[d], parent[d], loUp', routed')
      BY <3>2 DEF Session, Progress, Grows
    <3>5. Online(pair[d], parent[d], child[d], loUp', routed')
      BY <3>2 DEF Session, Online, Grows
    <3> QED
      BY <3>1, <3>3, <3>4, <3>5 DEF Session
  <2> QED
    BY <2>1, <2>2
<1> QED
  BY <1>1, <1>3 DEF NetInv

(* The facts about one session that its steps start from. *)
LEMMA SessionFacts ==
    ASSUME NetInv, NEW c \in Names
    PROVE  /\ pair[c] \in Pairs /\ parent[c] \in Parents /\ child[c] \in Children
           /\ pair = [pair EXCEPT ![c] = pair[c]]
           /\ parent = [parent EXCEPT ![c] = parent[c]]
           /\ child = [child EXCEPT ![c] = child[c]]
           /\ Places(pair[c], parent[c], child[c], used)
           /\ Progress(pair[c], parent[c], loUp, routed)
           /\ Online(pair[c], parent[c], child[c], loUp, routed)
           /\ used \subseteq Namespaces /\ loUp \subseteq used
           /\ routed \subseteq used \cup {Host} /\ stranded \subseteq Names
<1>1. /\ pair \in [Names -> Pairs] /\ parent \in [Names -> Parents] /\ child \in [Names -> Children]
  BY DEF NetInv, TypeOK, Pairs, Parents, Children
<1>2. Session(c)
  BY DEF NetInv
<1>3. /\ used \subseteq Namespaces /\ loUp \subseteq used
      /\ routed \subseteq used \cup {Host} /\ stranded \subseteq Names
  BY DEF NetInv, TypeOK
<1> QED
  BY <1>1, <1>2, <1>3 DEF Session

LEMMA FailureKeeps ==
    ASSUME NetInv, NEW c \in Names, Fails(c), stranded' \subseteq Names,
           parent[c].pc \notin {"idle", "wait"}
    PROVE  NetInv'
<1> DEFINE p == [parent[c] EXCEPT !.pc = "die"]
<1>1. parent' = [parent EXCEPT ![c] = p] /\ UNCHANGED <<pair, child, used, loUp, routed>>
  BY DEF Fails, Goto, kernel
<1>2. p \in Parents /\ p.pc = "die" /\ p.at = parent[c].at /\ p.fd = parent[c].fd
  BY SessionFacts DEF Parents
<1> HIDE DEF p
<1>3. /\ Places(pair[c], p, child[c], used) /\ Progress(pair[c], p, loUp, routed)
      /\ Online(pair[c], p, child[c], loUp, routed)
  BY <1>2, SessionFacts DEF Places, Progress, Online, Moved, Inside
<1> QED
  BY <1>1, <1>2, <1>3, SessionFacts, SessionStep DEF Grows

LEMMA NetInit == Init => NetInv
<1> SUFFICES ASSUME Init PROVE NetInv
  OBVIOUS
<1>1. TypeOK
  BY DEF Init, TypeOK, Spaces, NoPair, NoParent, NoChild
<1>2. ASSUME NEW c \in Names PROVE Session(c)
  BY NamespaceAssumption
  DEF Init, Session, Places, Progress, Online, Moved, Inside, NoPair, NoParent, NoChild
<1> QED
  BY <1>1, <1>2 DEF NetInv

LEMMA NetNext == NetInv /\ [Next]_vars => NetInv'
<1> SUFFICES ASSUME NetInv, [Next]_vars PROVE NetInv'
  OBVIOUS
<1>1. ASSUME NEW c \in Names, NEW n \in Namespaces, Clone(c, n) PROVE NetInv'
  <2> DEFINE x == pair[c]
             p == [parent[c] EXCEPT !.pc = "create"]
             k == [st |-> "held", ns |-> n]
  <2>1. /\ pair' = [pair EXCEPT ![c] = x] /\ parent' = [parent EXCEPT ![c] = p]
        /\ child' = [child EXCEPT ![c] = k] /\ used' = used \cup {n}
        /\ UNCHANGED <<loUp, routed>> /\ stranded' \subseteq Names
    BY <1>1, SessionFacts DEF Clone, Goto, kernel, Idle
  <2>2. /\ x \in Pairs /\ p \in Parents /\ k \in Children
        /\ x = pair[c]
        /\ p.pc = "create" /\ p.at = parent[c].at /\ p.fd = parent[c].fd /\ p.home = parent[c].home
    BY <1>1, SessionFacts DEF Clone, Pairs, Parents, Children, Spaces, Places, Moved, Inside, Idle
  <2>3. Grows
    BY <1>1, <2>1, <2>2, SessionFacts DEF Places, Moved, Inside, Grows, Clone, Idle
  <2>4. /\ Places(x, p, k, used') /\ Progress(x, p, loUp', routed')
        /\ Online(x, p, k, loUp', routed')
    BY <1>1, <2>1, <2>2, SessionFacts, NamespaceAssumption
    DEF Places, Progress, Online, Pairs, Moved, Inside, Clone, Idle
  <2> HIDE DEF x, p, k
  <2> QED
    BY <2>1, <2>2, <2>3, <2>4, SessionStep
<1>2. ASSUME NEW c \in Names, CreateVeth(c) PROVE NetInv'
  <2>1. CASE FailsElsewhere(c) \/ FailsOnHost(c)
    BY <1>2, <2>1, FailureKeeps, SessionFacts
    DEF CreateVeth, FailsElsewhere, FailsOnHost
  <2>2. CASE ~(FailsElsewhere(c) \/ FailsOnHost(c))
    <3> DEFINE x == [pair[c] EXCEPT !.at = Host]
               p == [parent[c] EXCEPT !.pc = "peer"]
               k == child[c]
    <3>1. /\ pair' = [pair EXCEPT ![c] = x] /\ parent' = [parent EXCEPT ![c] = p]
          /\ child' = [child EXCEPT ![c] = k]
          /\ UNCHANGED <<used, loUp, routed>> /\ stranded' \subseteq Names
      BY <1>2, <2>2, SessionFacts DEF CreateVeth, Goto, kernel
    <3>2. /\ x \in Pairs /\ p \in Parents /\ k \in Children
          /\ x.at = Host /\ x.up = pair[c].up /\ x.peerUp = pair[c].peerUp
          /\ p.pc = "peer" /\ p.at = parent[c].at /\ p.fd = parent[c].fd /\ p.home = parent[c].home
          /\ k = child[c]
      BY <1>2, <2>2, SessionFacts DEF CreateVeth, Pairs, Parents, Children, Spaces, Places, Moved, Inside
    <3> HIDE DEF x, p, k
    <3>3. /\ Places(x, p, k, used') /\ Progress(x, p, loUp', routed')
          /\ Online(x, p, k, loUp', routed')
          /\ Grows
      BY <1>2, <2>2, <3>1, <3>2, SessionFacts, NamespaceAssumption
      DEF Places, Progress, Online, Pairs, Moved, Inside, Grows, CreateVeth
    <3> QED
      BY <3>1, <3>2, <3>3, SessionStep
  <2> QED
    BY <2>1, <2>2
<1>3. ASSUME NEW c \in Names, PeerUp(c) PROVE NetInv'
  <2>1. CASE FailsElsewhere(c) \/ FailsOnHost(c)
    BY <1>3, <2>1, FailureKeeps, SessionFacts
    DEF PeerUp, FailsElsewhere, FailsOnHost
  <2>2. CASE ~(FailsElsewhere(c) \/ FailsOnHost(c))
    <3> DEFINE x == [pair[c] EXCEPT !.peerUp = TRUE]
               p == [parent[c] EXCEPT !.pc = "files"]
               k == child[c]
    <3>1. /\ pair' = [pair EXCEPT ![c] = x] /\ parent' = [parent EXCEPT ![c] = p]
          /\ child' = [child EXCEPT ![c] = k]
          /\ UNCHANGED <<used, loUp, routed>> /\ stranded' \subseteq Names
      BY <1>3, <2>2, SessionFacts DEF PeerUp, Goto, kernel
    <3>2. /\ x \in Pairs /\ p \in Parents /\ k \in Children
          /\ x.at = pair[c].at /\ x.up = pair[c].up /\ x.peerUp = TRUE
          /\ p.pc = "files" /\ p.at = parent[c].at /\ p.fd = parent[c].fd /\ p.home = parent[c].home
          /\ k = child[c]
      BY <1>3, <2>2, SessionFacts DEF PeerUp, Pairs, Parents, Children, Spaces, Places, Moved, Inside
    <3> HIDE DEF x, p, k
    <3>3. /\ Places(x, p, k, used') /\ Progress(x, p, loUp', routed')
          /\ Online(x, p, k, loUp', routed')
          /\ Grows
      BY <1>3, <2>2, <3>1, <3>2, SessionFacts, NamespaceAssumption
      DEF Places, Progress, Online, Pairs, Moved, Inside, Grows, PeerUp
    <3> QED
      BY <3>1, <3>2, <3>3, SessionStep
  <2> QED
    BY <2>1, <2>2
<1>4. ASSUME NEW c \in Names, OpenFiles(c) PROVE NetInv'
  <2>1. CASE FailsElsewhere(c) \/ FailsOnHost(c)
    BY <1>4, <2>1, FailureKeeps, SessionFacts
    DEF OpenFiles, FailsElsewhere, FailsOnHost
  <2>2. CASE ~(FailsElsewhere(c) \/ FailsOnHost(c))
    <3>0. PICK home \in BOOLEAN, fd \in {child[c].ns, None} :
              /\ fd # None => child[c].st = "held"
              /\ parent' = [parent EXCEPT ![c].pc = "move", ![c].home = home, ![c].fd = fd]
              /\ UNCHANGED <<pair, child, kernel, stranded>>
      BY <1>4, <2>2 DEF OpenFiles
    <3> DEFINE x == pair[c]
               p == [parent[c] EXCEPT !.pc = "move", !.home = home, !.fd = fd]
               k == child[c]
    <3>1. /\ pair' = [pair EXCEPT ![c] = x] /\ parent' = [parent EXCEPT ![c] = p]
          /\ child' = [child EXCEPT ![c] = k]
          /\ UNCHANGED <<used, loUp, routed>> /\ stranded' \subseteq Names
      BY <1>4, <2>2, <3>0, SessionFacts DEF OpenFiles, Goto, kernel
    <3>2. /\ x \in Pairs /\ p \in Parents /\ k \in Children
          /\ x = pair[c]
          /\ p.pc = "move" /\ p.at = parent[c].at /\ p.fd = fd /\ p.home = home
          /\ k = child[c]
      BY <1>4, <2>2, <3>0, SessionFacts DEF OpenFiles, Pairs, Parents, Children, Spaces, Places, Moved, Inside
    <3> HIDE DEF x, p, k
    <3>3. /\ Places(x, p, k, used') /\ Progress(x, p, loUp', routed')
          /\ Online(x, p, k, loUp', routed')
          /\ Grows
      BY <1>4, <2>2, <3>0, <3>1, <3>2, SessionFacts, NamespaceAssumption
      DEF Places, Progress, Online, Pairs, Moved, Inside, Grows, OpenFiles
    <3> QED
      BY <3>1, <3>2, <3>3, SessionStep
  <2> QED
    BY <2>1, <2>2
<1>5. ASSUME NEW c \in Names, MoveVeth(c) PROVE NetInv'
  <2>1. CASE FailsElsewhere(c) \/ FailsOnHost(c)
    BY <1>5, <2>1, FailureKeeps, SessionFacts
    DEF MoveVeth, FailsElsewhere, FailsOnHost
  <2>2. CASE ~(FailsElsewhere(c) \/ FailsOnHost(c))
    <3> DEFINE x == [pair[c] EXCEPT !.at = parent[c].fd]
               p == [parent[c] EXCEPT !.pc = "enter"]
               k == child[c]
    <3>1. /\ pair' = [pair EXCEPT ![c] = x] /\ parent' = [parent EXCEPT ![c] = p]
          /\ child' = [child EXCEPT ![c] = k]
          /\ UNCHANGED <<used, loUp, routed>> /\ stranded' \subseteq Names
      BY <1>5, <2>2, SessionFacts DEF MoveVeth, Goto, kernel
    <3>2. /\ x \in Pairs /\ p \in Parents /\ k \in Children
          /\ x.at = parent[c].fd /\ x.up = pair[c].up /\ x.peerUp = pair[c].peerUp
          /\ p.pc = "enter" /\ p.at = parent[c].at /\ p.fd = parent[c].fd /\ p.home = parent[c].home
          /\ k = child[c]
      BY <1>5, <2>2, SessionFacts DEF MoveVeth, Pairs, Parents, Children, Spaces, Places, Moved, Inside
    <3> HIDE DEF x, p, k
    <3>3. /\ Places(x, p, k, used') /\ Progress(x, p, loUp', routed')
          /\ Online(x, p, k, loUp', routed')
          /\ Grows
      BY <1>5, <2>2, <3>1, <3>2, SessionFacts, NamespaceAssumption
      DEF Places, Progress, Online, Pairs, Moved, Inside, Grows, MoveVeth
    <3> QED
      BY <3>1, <3>2, <3>3, SessionStep
  <2> QED
    BY <2>1, <2>2
<1>6. ASSUME NEW c \in Names, EnterNamespace(c) PROVE NetInv'
  <2>1. CASE FailsElsewhere(c) \/ FailsOnHost(c)
    BY <1>6, <2>1, FailureKeeps, SessionFacts
    DEF EnterNamespace, FailsElsewhere, FailsOnHost
  <2>2. CASE ~(FailsElsewhere(c) \/ FailsOnHost(c))
    <3> DEFINE x == pair[c]
               p == [parent[c] EXCEPT !.pc = "veth", !.at = parent[c].fd]
               k == child[c]
    <3>1. /\ pair' = [pair EXCEPT ![c] = x] /\ parent' = [parent EXCEPT ![c] = p]
          /\ child' = [child EXCEPT ![c] = k]
          /\ UNCHANGED <<used, loUp, routed>> /\ stranded' \subseteq Names
      BY <1>6, <2>2, SessionFacts DEF EnterNamespace, Goto, kernel
    <3>2. /\ x \in Pairs /\ p \in Parents /\ k \in Children
          /\ x = pair[c]
          /\ p.pc = "veth" /\ p.at = parent[c].fd /\ p.fd = parent[c].fd /\ p.home = parent[c].home
          /\ k = child[c]
      BY <1>6, <2>2, SessionFacts DEF EnterNamespace, Pairs, Parents, Children, Spaces, Places, Moved, Inside
    <3> HIDE DEF x, p, k
    <3>3. /\ Places(x, p, k, used') /\ Progress(x, p, loUp', routed')
          /\ Online(x, p, k, loUp', routed')
          /\ Grows
      BY <1>6, <2>2, <3>1, <3>2, SessionFacts, NamespaceAssumption
      DEF Places, Progress, Online, Pairs, Moved, Inside, Grows, EnterNamespace
    <3> QED
      BY <3>1, <3>2, <3>3, SessionStep
  <2> QED
    BY <2>1, <2>2
<1>7. ASSUME NEW c \in Names, VethUp(c) PROVE NetInv'
  <2>1. CASE FailsElsewhere(c) \/ FailsOnHost(c)
    BY <1>7, <2>1, FailureKeeps, SessionFacts
    DEF VethUp, FailsElsewhere, FailsOnHost
  <2>2. CASE ~(FailsElsewhere(c) \/ FailsOnHost(c))
    <3> DEFINE x == [pair[c] EXCEPT !.up = TRUE]
               p == [parent[c] EXCEPT !.pc = "lo"]
               k == child[c]
    <3>1. /\ pair' = [pair EXCEPT ![c] = x] /\ parent' = [parent EXCEPT ![c] = p]
          /\ child' = [child EXCEPT ![c] = k]
          /\ UNCHANGED <<used, loUp, routed>> /\ stranded' \subseteq Names
      BY <1>7, <2>2, SessionFacts DEF VethUp, Goto, kernel
    <3>2. /\ x \in Pairs /\ p \in Parents /\ k \in Children
          /\ x.at = pair[c].at /\ x.up = TRUE /\ x.peerUp = pair[c].peerUp
          /\ p.pc = "lo" /\ p.at = parent[c].at /\ p.fd = parent[c].fd /\ p.home = parent[c].home
          /\ k = child[c]
      BY <1>7, <2>2, SessionFacts DEF VethUp, Pairs, Parents, Children, Spaces, Places, Moved, Inside
    <3> HIDE DEF x, p, k
    <3>3. Grows
      BY <1>7, <2>2, <3>1, <3>2, SessionFacts DEF Places, Moved, Inside, Grows, VethUp
    <3>4. /\ Places(x, p, k, used') /\ Progress(x, p, loUp', routed')
          /\ Online(x, p, k, loUp', routed')
      BY <1>7, <2>2, <3>1, <3>2, SessionFacts, NamespaceAssumption
      DEF Places, Progress, Online, Pairs, Moved, Inside, VethUp
    <3> QED
      BY <3>1, <3>2, <3>3, <3>4, SessionStep
  <2> QED
    BY <2>1, <2>2
<1>8. ASSUME NEW c \in Names, LoopbackUp(c) PROVE NetInv'
  <2>1. CASE FailsElsewhere(c) \/ FailsOnHost(c)
    BY <1>8, <2>1, FailureKeeps, SessionFacts
    DEF LoopbackUp, FailsElsewhere, FailsOnHost
  <2>2. CASE ~(FailsElsewhere(c) \/ FailsOnHost(c))
    <3> DEFINE x == pair[c]
               p == [parent[c] EXCEPT !.pc = "route"]
               k == child[c]
    <3>1. /\ pair' = [pair EXCEPT ![c] = x] /\ parent' = [parent EXCEPT ![c] = p]
          /\ child' = [child EXCEPT ![c] = k] /\ loUp' = loUp \cup {parent[c].at}
          /\ UNCHANGED <<used, routed>> /\ stranded' \subseteq Names
      BY <1>8, <2>2, SessionFacts DEF LoopbackUp, Goto, kernel
    <3>2. /\ x \in Pairs /\ p \in Parents /\ k \in Children
          /\ x = pair[c]
          /\ p.pc = "route" /\ p.at = parent[c].at /\ p.fd = parent[c].fd /\ p.home = parent[c].home
          /\ k = child[c]
      BY <1>8, <2>2, SessionFacts DEF LoopbackUp, Pairs, Parents, Children, Spaces, Places, Moved, Inside
    <3> HIDE DEF x, p, k
    <3>3. Grows
      BY <1>8, <2>2, <3>1, <3>2, SessionFacts DEF Places, Moved, Inside, Grows, LoopbackUp
    <3>4. /\ Places(x, p, k, used') /\ Progress(x, p, loUp', routed')
          /\ Online(x, p, k, loUp', routed')
      BY <1>8, <2>2, <3>1, <3>2, SessionFacts, NamespaceAssumption
      DEF Places, Progress, Online, Pairs, Moved, Inside, LoopbackUp
    <3> QED
      BY <3>1, <3>2, <3>3, <3>4, SessionStep
  <2> QED
    BY <2>1, <2>2
<1>9. ASSUME NEW c \in Names, SetDefaultGw(c) PROVE NetInv'
  <2>1. CASE FailsElsewhere(c) \/ FailsOnHost(c)
    BY <1>9, <2>1, FailureKeeps, SessionFacts
    DEF SetDefaultGw, FailsElsewhere, FailsOnHost
  <2>2. CASE ~(FailsElsewhere(c) \/ FailsOnHost(c))
    <3> DEFINE x == pair[c]
               p == [parent[c] EXCEPT !.pc = "back"]
               k == child[c]
    <3>1. /\ pair' = [pair EXCEPT ![c] = x] /\ parent' = [parent EXCEPT ![c] = p]
          /\ child' = [child EXCEPT ![c] = k] /\ routed' = routed \cup {parent[c].at}
          /\ UNCHANGED <<used, loUp>> /\ stranded' \subseteq Names
      BY <1>9, <2>2, SessionFacts DEF SetDefaultGw, Goto, kernel
    <3>2. /\ x \in Pairs /\ p \in Parents /\ k \in Children
          /\ x = pair[c]
          /\ p.pc = "back" /\ p.at = parent[c].at /\ p.fd = parent[c].fd /\ p.home = parent[c].home
          /\ k = child[c]
      BY <1>9, <2>2, SessionFacts DEF SetDefaultGw, Pairs, Parents, Children, Spaces, Places, Moved, Inside
    <3> HIDE DEF x, p, k
    <3>3. Grows
      BY <1>9, <2>2, <3>1, <3>2, SessionFacts DEF Places, Moved, Inside, Grows, SetDefaultGw
    <3>4. /\ Places(x, p, k, used') /\ Progress(x, p, loUp', routed')
          /\ Online(x, p, k, loUp', routed')
      BY <1>9, <2>2, <3>1, <3>2, SessionFacts, NamespaceAssumption
      DEF Places, Progress, Online, Pairs, Moved, Inside, SetDefaultGw
    <3> QED
      BY <3>1, <3>2, <3>3, <3>4, SessionStep
  <2> QED
    BY <2>1, <2>2
<1>10. ASSUME NEW c \in Names, LeaveNamespace(c) PROVE NetInv'
  <2>1. CASE FailsElsewhere(c) \/ FailsOnHost(c)
    BY <1>10, <2>1, FailureKeeps, SessionFacts
    DEF LeaveNamespace, FailsElsewhere, FailsOnHost
  <2>2. CASE ~(FailsElsewhere(c) \/ FailsOnHost(c))
    <3> DEFINE x == pair[c]
               p == [parent[c] EXCEPT !.pc = "go", !.at = Host]
               k == child[c]
    <3>1. /\ pair' = [pair EXCEPT ![c] = x] /\ parent' = [parent EXCEPT ![c] = p]
          /\ child' = [child EXCEPT ![c] = k]
          /\ UNCHANGED <<used, loUp, routed>> /\ stranded' \subseteq Names
      BY <1>10, <2>2, SessionFacts DEF LeaveNamespace, Goto, kernel
    <3>2. /\ x \in Pairs /\ p \in Parents /\ k \in Children
          /\ x = pair[c]
          /\ p.pc = "go" /\ p.at = Host /\ p.fd = parent[c].fd /\ p.home = parent[c].home
          /\ k = child[c]
      BY <1>10, <2>2, SessionFacts DEF LeaveNamespace, Pairs, Parents, Children, Spaces, Places, Moved, Inside
    <3> HIDE DEF x, p, k
    <3>3. /\ Places(x, p, k, used') /\ Progress(x, p, loUp', routed')
          /\ Online(x, p, k, loUp', routed')
          /\ Grows
      BY <1>10, <2>2, <3>1, <3>2, SessionFacts, NamespaceAssumption
      DEF Places, Progress, Online, Pairs, Moved, Inside, Grows, LeaveNamespace
    <3> QED
      BY <3>1, <3>2, <3>3, SessionStep
  <2> QED
    BY <2>1, <2>2
<1>11. ASSUME NEW c \in Names, KillParent(c) PROVE NetInv'
  <2> DEFINE x == pair[c]
             p == NoParent
             k == child[c]
  <2>1. /\ pair' = [pair EXCEPT ![c] = x] /\ parent' = [parent EXCEPT ![c] = p]
        /\ child' = [child EXCEPT ![c] = k]
        /\ UNCHANGED <<used, loUp, routed>> /\ stranded' \subseteq Names
    BY <1>11, SessionFacts DEF KillParent, Goto, kernel, ParentGone, NoParent
  <2>2. /\ x \in Pairs /\ p \in Parents /\ k \in Children
        /\ x = pair[c]
        /\ k = child[c]
    BY <1>11, SessionFacts DEF KillParent, Pairs, Parents, Children, Spaces, Places, Moved, Inside, ParentGone, NoParent
  <2>3. /\ Places(x, p, k, used') /\ Progress(x, p, loUp', routed')
        /\ Online(x, p, k, loUp', routed')
        /\ Grows
    BY <1>11, <2>1, <2>2, SessionFacts, NamespaceAssumption
    DEF Places, Progress, Online, Pairs, Moved, Inside, Grows, KillParent, ParentGone, NoParent
  <2> HIDE DEF x, p, k
  <2> QED
    BY <2>1, <2>2, <2>3, SessionStep
<1>12. ASSUME NEW c \in Names, Wait(c) PROVE NetInv'
  <2> DEFINE x == pair[c]
             p == NoParent
             k == NoChild
  <2>1. /\ pair' = [pair EXCEPT ![c] = x] /\ parent' = [parent EXCEPT ![c] = p]
        /\ child' = [child EXCEPT ![c] = k]
        /\ UNCHANGED <<used, loUp, routed>> /\ stranded' \subseteq Names
    BY <1>12, SessionFacts DEF Wait, Goto, kernel, ParentGone, NoParent, NoChild
  <2>2. /\ x \in Pairs /\ p \in Parents /\ k \in Children
        /\ x = pair[c]
    BY <1>12, SessionFacts DEF Wait, Pairs, Parents, Children, Spaces, Places, Moved, Inside, ParentGone, NoParent, NoChild
  <2>3. /\ Places(x, p, k, used') /\ Progress(x, p, loUp', routed')
        /\ Online(x, p, k, loUp', routed')
        /\ Grows
    BY <1>12, <2>1, <2>2, SessionFacts, NamespaceAssumption
    DEF Places, Progress, Online, Pairs, Moved, Inside, Grows, Wait, ParentGone, NoParent, NoChild
  <2> HIDE DEF x, p, k
  <2> QED
    BY <2>1, <2>2, <2>3, SessionStep
<1>13. ASSUME NEW c \in Names, CommandEnds(c) PROVE NetInv'
  <2> DEFINE x == pair[c]
             p == parent[c]
             k == [child[c] EXCEPT !.st = "zombie"]
  <2>1. /\ pair' = [pair EXCEPT ![c] = x] /\ parent' = [parent EXCEPT ![c] = p]
        /\ child' = [child EXCEPT ![c] = k]
        /\ UNCHANGED <<used, loUp, routed>> /\ stranded' \subseteq Names
    BY <1>13, SessionFacts DEF CommandEnds, Goto, kernel
  <2>2. /\ x \in Pairs /\ p \in Parents /\ k \in Children
        /\ x = pair[c]
        /\ p = parent[c]
        /\ k.st = "zombie" /\ k.ns = child[c].ns
    BY <1>13, SessionFacts DEF CommandEnds, Pairs, Parents, Children, Spaces, Places, Moved, Inside
  <2> HIDE DEF x, p, k
  <2>3. /\ Places(x, p, k, used') /\ Progress(x, p, loUp', routed')
        /\ Online(x, p, k, loUp', routed')
        /\ Grows
    BY <1>13, <2>1, <2>2, SessionFacts, NamespaceAssumption
    DEF Places, Progress, Online, Pairs, Moved, Inside, Grows, CommandEnds
  <2> QED
    BY <2>1, <2>2, <2>3, SessionStep
<1>14. ASSUME NEW c \in Names, OrphanEnds(c) PROVE NetInv'
  <2> DEFINE x == pair[c]
             p == parent[c]
             k == NoChild
  <2>1. /\ pair' = [pair EXCEPT ![c] = x] /\ parent' = [parent EXCEPT ![c] = p]
        /\ child' = [child EXCEPT ![c] = k]
        /\ UNCHANGED <<used, loUp, routed>> /\ stranded' \subseteq Names
    BY <1>14, SessionFacts DEF OrphanEnds, Goto, kernel, NoChild
  <2>2. /\ x \in Pairs /\ p \in Parents /\ k \in Children
        /\ x = pair[c]
        /\ p = parent[c]
    BY <1>14, SessionFacts DEF OrphanEnds, Pairs, Parents, Children, Spaces, Places, Moved, Inside, NoChild
  <2>3. /\ Places(x, p, k, used') /\ Progress(x, p, loUp', routed')
        /\ Online(x, p, k, loUp', routed')
        /\ Grows
    BY <1>14, <2>1, <2>2, SessionFacts, NamespaceAssumption
    DEF Places, Progress, Online, Pairs, Moved, Inside, Grows, OrphanEnds, NoChild
  <2> HIDE DEF x, p, k
  <2> QED
    BY <2>1, <2>2, <2>3, SessionStep
<1>15. ASSUME NEW c \in Names, KillChild(c) PROVE NetInv'
  <2> DEFINE x == pair[c]
             p == parent[c]
             k == [child[c] EXCEPT !.st = "zombie"]
  <2>1. /\ pair' = [pair EXCEPT ![c] = x] /\ parent' = [parent EXCEPT ![c] = p]
        /\ child' = [child EXCEPT ![c] = k]
        /\ UNCHANGED <<used, loUp, routed>> /\ stranded' \subseteq Names
    BY <1>15, SessionFacts DEF KillChild, Goto, kernel
  <2>2. /\ x \in Pairs /\ p \in Parents /\ k \in Children
        /\ x = pair[c]
        /\ p = parent[c]
        /\ k.st = "zombie" /\ k.ns = child[c].ns
    BY <1>15, SessionFacts DEF KillChild, Pairs, Parents, Children, Spaces, Places, Moved, Inside
  <2> HIDE DEF x, p, k
  <2>3. /\ Places(x, p, k, used') /\ Progress(x, p, loUp', routed')
        /\ Online(x, p, k, loUp', routed')
        /\ Grows
    BY <1>15, <2>1, <2>2, SessionFacts, NamespaceAssumption
    DEF Places, Progress, Online, Pairs, Moved, Inside, Grows, KillChild
  <2> QED
    BY <2>1, <2>2, <2>3, SessionStep
<1>16. ASSUME NEW c \in Names, UserDeletes(c) PROVE NetInv'
  <2> DEFINE x == NoPair
             p == parent[c]
             k == child[c]
  <2>1. /\ pair' = [pair EXCEPT ![c] = x] /\ parent' = [parent EXCEPT ![c] = p]
        /\ child' = [child EXCEPT ![c] = k]
        /\ UNCHANGED <<used, loUp, routed>> /\ stranded' \subseteq Names
    BY <1>16, SessionFacts DEF UserDeletes, Goto, kernel, NoPair, Idle
  <2>2. /\ x \in Pairs /\ p \in Parents /\ k \in Children
        /\ p = parent[c]
        /\ k = child[c]
    BY <1>16, SessionFacts DEF UserDeletes, Pairs, Parents, Children, Spaces, Places, Moved, Inside, NoPair, Idle
  <2>3. /\ Places(x, p, k, used') /\ Progress(x, p, loUp', routed')
        /\ Online(x, p, k, loUp', routed')
        /\ Grows
    BY <1>16, <2>1, <2>2, SessionFacts, NamespaceAssumption
    DEF Places, Progress, Online, Pairs, Moved, Inside, Grows, UserDeletes, NoPair, Idle
  <2> HIDE DEF x, p, k
  <2> QED
    BY <2>1, <2>2, <2>3, SessionStep
<1>17. ASSUME NEW c \in Names, child[c].st = "held", parent[c].pc = "go", Tell(c) PROVE NetInv'
  <2> DEFINE x == pair[c]
             p == [parent[c] EXCEPT !.pc = "wait"]
             k == [child[c] EXCEPT !.st = "running"]
  <2>1. /\ pair' = [pair EXCEPT ![c] = x] /\ parent' = [parent EXCEPT ![c] = p]
        /\ child' = [child EXCEPT ![c] = k]
        /\ UNCHANGED <<used, loUp, routed>> /\ stranded' \subseteq Names
    BY <1>17, SessionFacts DEF Tell, Goto, kernel
  <2>2. /\ x \in Pairs /\ p \in Parents /\ k \in Children
        /\ x = pair[c]
        /\ p.pc = "wait" /\ p.at = parent[c].at /\ p.fd = parent[c].fd /\ p.home = parent[c].home
        /\ k.st = "running" /\ k.ns = child[c].ns
    BY <1>17, SessionFacts DEF Tell, Pairs, Parents, Children, Spaces, Places, Moved, Inside
  <2> HIDE DEF x, p, k
  <2>3. /\ Places(x, p, k, used') /\ Progress(x, p, loUp', routed')
        /\ Online(x, p, k, loUp', routed')
        /\ Grows
    BY <1>17, <2>1, <2>2, SessionFacts, NamespaceAssumption
    DEF Places, Progress, Online, Pairs, Moved, Inside, Grows, Tell
  <2> QED
    BY <2>1, <2>2, <2>3, SessionStep
<1>18. ASSUME NEW c \in Names, child[c].st = "held", parent[c].pc # "go", Tell(c) PROVE NetInv'
  <2> DEFINE x == pair[c]
             p == [parent[c] EXCEPT !.pc = "wait"]
             k == [child[c] EXCEPT !.st = "zombie"]
  <2>1. /\ pair' = [pair EXCEPT ![c] = x] /\ parent' = [parent EXCEPT ![c] = p]
        /\ child' = [child EXCEPT ![c] = k]
        /\ UNCHANGED <<used, loUp, routed>> /\ stranded' \subseteq Names
    BY <1>18, SessionFacts DEF Tell, Goto, kernel
  <2>2. /\ x \in Pairs /\ p \in Parents /\ k \in Children
        /\ x = pair[c]
        /\ p.pc = "wait" /\ p.at = parent[c].at /\ p.fd = parent[c].fd /\ p.home = parent[c].home
        /\ k.st = "zombie" /\ k.ns = child[c].ns
    BY <1>18, SessionFacts DEF Tell, Pairs, Parents, Children, Spaces, Places, Moved, Inside
  <2> HIDE DEF x, p, k
  <2>3. /\ Places(x, p, k, used') /\ Progress(x, p, loUp', routed')
        /\ Online(x, p, k, loUp', routed')
        /\ Grows
    BY <1>18, <2>1, <2>2, SessionFacts, NamespaceAssumption
    DEF Places, Progress, Online, Pairs, Moved, Inside, Grows, Tell
  <2> QED
    BY <2>1, <2>2, <2>3, SessionStep
<1>19. ASSUME NEW c \in Names, child[c].st # "held", Tell(c) PROVE NetInv'
  <2> DEFINE x == pair[c]
             p == NoParent
             k == child[c]
  <2>1. /\ pair' = [pair EXCEPT ![c] = x] /\ parent' = [parent EXCEPT ![c] = p]
        /\ child' = [child EXCEPT ![c] = k]
        /\ UNCHANGED <<used, loUp, routed>> /\ stranded' \subseteq Names
    BY <1>19, SessionFacts DEF Tell, Goto, kernel, ParentGone, NoParent
  <2>2. /\ x \in Pairs /\ p \in Parents /\ k \in Children
        /\ x = pair[c]
        /\ k = child[c]
    BY <1>19, SessionFacts DEF Tell, Pairs, Parents, Children, Spaces, Places, Moved, Inside, ParentGone, NoParent
  <2>3. /\ Places(x, p, k, used') /\ Progress(x, p, loUp', routed')
        /\ Online(x, p, k, loUp', routed')
        /\ Grows
    BY <1>19, <2>1, <2>2, SessionFacts, NamespaceAssumption
    DEF Places, Progress, Online, Pairs, Moved, Inside, Grows, Tell, ParentGone, NoParent
  <2> HIDE DEF x, p, k
  <2> QED
    BY <2>1, <2>2, <2>3, SessionStep
<1>20. ASSUME NEW n \in Namespaces, DestroyNamespace(n)
      PROVE  NetInv'
  <2>1. /\ used' = used \ {n} /\ loUp' = loUp \ {n} /\ routed' = routed \ {n}
        /\ pair' = [c \in Names |-> IF pair[c].at = n THEN NoPair ELSE pair[c]]
        /\ UNCHANGED <<parent, child, stranded>>
    BY <1>20 DEF DestroyNamespace
  <2>2. TypeOK'
    BY <2>1 DEF NetInv, TypeOK, NoPair
  <2>3. ASSUME NEW c \in Names PROVE Session(c)'
    <3>1. /\ parent[c].at # n /\ parent[c].fd # n
          /\ child[c].st \in {"held", "running"} => child[c].ns # n
      BY <1>20 DEF DestroyNamespace, Referenced
    <3>2. n # Host /\ n # None
      BY NamespaceAssumption
    <3>3. pair'[c] = IF pair[c].at = n THEN NoPair ELSE pair[c]
      BY <2>1
    <3>4. Places(pair'[c], parent[c], child[c], used')
      BY <2>1, <3>1, <3>2, <3>3, SessionFacts DEF Places, Moved, Inside
    <3>5. Progress(pair'[c], parent[c], loUp', routed')
      <4>1. CASE pair[c].at = n
        <5>1. parent[c].pc \notin Moved \cup {"peer", "files", "move"}
          BY <3>1, <3>2, <4>1, SessionFacts DEF Places
        <5> QED
          BY <5>1 DEF Progress, Moved
      <4>2. CASE pair[c].at # n
        BY <2>1, <3>1, <3>3, <4>2, SessionFacts DEF Progress, Moved
      <4> QED
        BY <4>1, <4>2
    <3>6. Online(pair'[c], parent[c], child[c], loUp', routed')
      BY <2>1, <3>1, <3>3, SessionFacts DEF Online
    <3> QED
      BY <2>1, <3>4, <3>5, <3>6 DEF Session
  <2> QED
    BY <2>2, <2>3 DEF NetInv
<1>21. CASE UNCHANGED vars
  <2>1. UNCHANGED <<pair, parent, child, used, loUp, routed, stranded>>
    BY <1>21 DEF vars
  <2>2. TypeOK'
    BY <2>1 DEF NetInv, TypeOK
  <2>3. \A c \in Names : Session(c)'
    BY <2>1 DEF NetInv, Session
  <2> QED
    BY <2>2, <2>3 DEF NetInv
<1> QED
  BY <1>1, <1>2, <1>3, <1>4, <1>5, <1>6, <1>7, <1>8, <1>9, <1>10, <1>11, <1>12,
     <1>13, <1>14, <1>15, <1>16, <1>17, <1>18, <1>19, <1>20, <1>21 DEF Next, Bringup

(* The sessions keep to the order of the bring-up, in every interleaving of *)
(* containers, deaths of parents and children, and destroyed namespaces.    *)
THEOREM NetInvariant == Spec => []NetInv
  BY NetInit, NetNext, PTL DEF Spec

(* Every variable keeps to the values the code can give it.                 *)
THEOREM NetType == Spec => []TypeOK
<1>1. NetInv => TypeOK
  BY DEF NetInv
<1> QED
  BY <1>1, NetInvariant, PTL

(* run_cmd_in_docker() executes a command only in a namespace that is on    *)
(* line, and it stays on line while the command runs.                       *)
THEOREM CommandIsOnline == Spec => []CommandOnline
<1>1. NetInv => CommandOnline
  <2> SUFFICES ASSUME NetInv, NEW c \in Names, child[c].st = "running"
               PROVE  /\ pair[c] = [at |-> child[c].ns, up |-> TRUE, peerUp |-> TRUE]
                      /\ child[c].ns \in loUp \cap routed
    BY DEF CommandOnline
  <2> QED
    BY SessionFacts DEF Online
<1> QED
  BY <1>1, NetInvariant, PTL

(* No bring-up, whichever of its calls fail, adds a route to the host or    *)
(* takes the host's away.                                                   *)
THEOREM HostRouteIsKept == Spec => HostRouteKept
<1>1. NetInv /\ [Next]_vars => [(Host \in routed') = (Host \in routed)]_vars
  <2> SUFFICES ASSUME NetInv, Next
               PROVE  (Host \in routed') = (Host \in routed)
    OBVIOUS
  <2>1. ASSUME NEW c \in Names, SetDefaultGw(c)
        PROVE  (Host \in routed') = (Host \in routed)
    <3>1. parent[c].pc = "route" /\ routed' \in {routed, routed \cup {parent[c].at}}
      BY <2>1 DEF SetDefaultGw, FailsElsewhere, Fails, kernel
    <3>2. parent[c].at # Host
      BY <3>1, SessionFacts, NamespaceAssumption DEF Places, Inside, Moved, Parents
    <3> QED
      BY <3>1, <3>2
  <2>2. ASSUME NEW n \in Namespaces, DestroyNamespace(n)
        PROVE  (Host \in routed') = (Host \in routed)
    BY <2>2, NamespaceAssumption DEF DestroyNamespace
  <2>3. ASSUME NEW c \in Names, Bringup(c), ~SetDefaultGw(c)
        PROVE  routed' = routed
    BY <2>3 DEF Bringup, CreateVeth, PeerUp, OpenFiles, MoveVeth, EnterNamespace, VethUp,
                LoopbackUp, LeaveNamespace, FailsOnHost, FailsElsewhere, Fails, kernel
  <2>4. ASSUME NEW c \in Names,
               \/ \E n \in Namespaces : Clone(c, n)
               \/ Tell(c) \/ Wait(c) \/ CommandEnds(c) \/ OrphanEnds(c)
               \/ KillChild(c) \/ KillParent(c) \/ UserDeletes(c)
        PROVE  routed' = routed
    BY <2>4 DEF Clone, Tell, Wait, CommandEnds, OrphanEnds, KillChild, KillParent,
                UserDeletes, kernel
  <2> QED
    BY <2>1, <2>2, <2>3, <2>4 DEF Next
<1> QED
  BY <1>1, NetInvariant, PTL DEF Spec, HostRouteKept

-----------------------------------------------------------------------------
(* The requests.  Everything begins at a multiple of four.                  *)
LEMMA AlignFacts ==
    /\ \A n \in Nat : /\ Nl!Align(n) \in Nat /\ n <= Nl!Align(n) /\ Nl!Align(n) <= n + 3
                      /\ \E k \in Nat : Nl!Align(n) = 4 * k
    /\ \A k \in Nat : Nl!Align(4 * k) = 4 * k
<1>1. ASSUME NEW n \in Nat
      PROVE  /\ Nl!Align(n) \in Nat /\ n <= Nl!Align(n) /\ Nl!Align(n) <= n + 3
             /\ \E k \in Nat : Nl!Align(n) = 4 * k
  <2> DEFINE k == (n + 3) \div 4
  <2>1. k \in Nat /\ 4 * k <= n + 3 /\ n + 3 < 4 * k + 4
    OBVIOUS
  <2>2. Nl!Align(n) = 4 * k
    BY DEF Nl!Align
  <2> HIDE DEF k
  <2> QED
    BY <2>1, <2>2
<1>2. ASSUME NEW k \in Nat PROVE Nl!Align(4 * k) = 4 * k
  <2>1. (4 * k + 3) \div 4 = k
    OBVIOUS
  <2> QED
    BY <2>1 DEF Nl!Align
<1> QED
  BY <1>1, <1>2

(* An attribute in the buffer, and a message of such attributes. *)
At(type, at, len) == [type |-> type, at |-> at, len |-> len]
Msg(len, attrs) == [len |-> len, attrs |-> attrs]

(* An attribute for which there is room is added behind the last one. *)
LEMMA Added ==
    ASSUME NEW at, NEW size, NEW attrs, NEW type, NEW len, NEW next \in Nat,
           Nl!Align(at) = at, 4 + size = len, at + Nl!Align(len) = next, next <= 1024
    PROVE  Nl!AddAttr(Msg(at, attrs), type, size) = Msg(next, Append(attrs, At(type, at, len)))
<1>1. Nl!Room(Msg(at, attrs), size)
  BY DEF Nl!Room, Nl!Capacity, Nl!AttrHeader, Msg
<1> QED
  BY <1>1 DEF Nl!AddAttr, Nl!AttrHeader, Msg, At

LEMMA Aligned == Nl!Align(4) = 4 /\ Nl!Align(9) = 12 /\ Nl!Align(8) = 8
  BY DEF Nl!Align

(* An attribute that is closed reaches to the end of the message; the       *)
(* others stay as they are.                                                 *)
Reaching(s, type, end) ==
    [i \in DOMAIN s |-> IF s[i].type = type THEN At(type, s[i].at, end - s[i].at) ELSE s[i]]

LEMMA Closed ==
    ASSUME NEW k \in Nat, NEW s, NEW type,
           \A i \in DOMAIN s : s[i] = At(s[i].type, s[i].at, s[i].len)
    PROVE  Nl!CloseAttr(Msg(4 * k, s), type) = Msg(4 * k, Reaching(s, type, 4 * k))
<1>1. Nl!Align(4 * k) = 4 * k
  BY AlignFacts
<1>2. ASSUME NEW i \in DOMAIN s, s[i].type = type
      PROVE  [s[i] EXCEPT !.len = 4 * k - s[i].at] = At(type, s[i].at, 4 * k - s[i].at)
  BY <1>2 DEF At
<1>3. Nl!CloseAttr(Msg(4 * k, s), type)
        = Msg(4 * k, [i \in DOMAIN s |-> IF s[i].type = type
                                         THEN [s[i] EXCEPT !.len = 4 * k - s[i].at] ELSE s[i]])
  BY <1>1 DEF Nl!CloseAttr, Nl!WithLength, Msg
<1> QED
  BY <1>2, <1>3 DEF Reaching

(* The request for a pair, byte by byte: p and q bytes are what the names   *)
(* take with their headers.                                                 *)
VethLaidOut(msg, n, m, p, q) ==
    /\ msg.len = 72 + p + q
    /\ Len(msg.attrs) = 6
    /\ msg.attrs[1] = At("IFNAME", 32, n + 5)
    /\ msg.attrs[2] = At("LINKINFO", 32 + p, 40 + q)
    /\ msg.attrs[3] = At("KIND", 36 + p, 9)
    /\ msg.attrs[4] = At("DATA", 48 + p, 24 + q)
    /\ msg.attrs[5] = At("PEER", 52 + p, 20 + q)
    /\ msg.attrs[6] = At("IFNAME", 72 + p, m + 5)

(* Before the three attributes are closed. *)
VethAdded(s, n, m, j) ==
    /\ DOMAIN s = 1..6 /\ Len(s) = 6
    /\ s[1] = At("IFNAME", 32, n + 5) /\ s[2] = At("LINKINFO", 32 + 4 * j, 4)
    /\ s[3] = At("KIND", 36 + 4 * j, 9) /\ s[4] = At("DATA", 48 + 4 * j, 4)
    /\ s[5] = At("PEER", 52 + 4 * j, 4) /\ s[6] = At("IFNAME", 72 + 4 * j, m + 5)

LEMMA Behind ==
    ASSUME NEW T, NEW s \in Seq(T), NEW a \in T
    PROVE  /\ Append(s, a) \in Seq(T) /\ Len(Append(s, a)) = Len(s) + 1
           /\ \A i \in 1..Len(s) : Append(s, a)[i] = s[i]
           /\ Append(s, a)[Len(s) + 1] = a
  BY AppendProperties

LEMMA VethIsAdded ==
    ASSUME NEW n \in Nat, NEW m \in Nat, NEW j \in Nat, NEW k \in Nat,
           Nl!Align(n + 5) = 4 * j, Nl!Align(m + 5) = 4 * k, 72 + 4 * j + 4 * k <= 1024
    PROVE  LET ifname == Nl!AddAttr(Nl!Blank(16), "IFNAME", n + 1)
               linkinfo == Nl!AddAttr(ifname, "LINKINFO", 0)
               kind == Nl!AddAttr(linkinfo, "KIND", 5)
               data == Nl!AddAttr(kind, "DATA", 0)
               peer == Nl!SqueezeIfInfo(Nl!AddAttr(data, "PEER", 0))
           IN  \E s : /\ Nl!AddAttr(peer, "IFNAME", m + 1) = Msg(4 * (18 + j + k), s)
                      /\ VethAdded(s, n, m, j)
<1> DEFINE ifname == Nl!AddAttr(Nl!Blank(16), "IFNAME", n + 1)
           linkinfo == Nl!AddAttr(ifname, "LINKINFO", 0)
           kind == Nl!AddAttr(linkinfo, "KIND", 5)
           data == Nl!AddAttr(kind, "DATA", 0)
           peer == Nl!SqueezeIfInfo(Nl!AddAttr(data, "PEER", 0))
           peername == Nl!AddAttr(peer, "IFNAME", m + 1)
           a1 == At("IFNAME", 32, n + 5)
           a2 == At("LINKINFO", 32 + 4 * j, 4)
           a3 == At("KIND", 36 + 4 * j, 9)
           a4 == At("DATA", 48 + 4 * j, 4)
           a5 == At("PEER", 52 + 4 * j, 4)
           a6 == At("IFNAME", 72 + 4 * j, m + 5)
           s0 == <<>>
           s1 == Append(s0, a1)
           s2 == Append(s1, a2)
           s3 == Append(s2, a3)
           s4 == Append(s3, a4)
           s5 == Append(s4, a5)
           s6 == Append(s5, a6)
<1>1. Nl!Blank(16) = Msg(32, s0)
  BY DEF Nl!Blank, Nl!Header, Msg
<1>2. VethAdded(s6, n, m, j)
  <2> DEFINE T == {a1, a2, a3, a4, a5, a6}
  <2> HIDE DEF a1, a2, a3, a4, a5, a6
  <2>1. a1 \in T /\ a2 \in T /\ a3 \in T /\ a4 \in T /\ a5 \in T /\ a6 \in T /\ <<>> \in Seq(T)
    BY EmptySeq
  <2> HIDE DEF T
  <2>2. s1 \in Seq(T) /\ Len(s1) = 1 /\ s1[1] = a1
    BY <2>1, AppendProperties, EmptySeq
  <2> HIDE DEF s1
  <2>3. s2 \in Seq(T) /\ Len(s2) = 2 /\ s2[1] = a1 /\ s2[2] = a2
    <3>1. /\ s2 \in Seq(T) /\ Len(s2) = Len(s1) + 1
          /\ \A i \in 1..Len(s1) : s2[i] = s1[i]
          /\ s2[Len(s1) + 1] = a2
      BY <2>1, <2>2, Behind, Zenon
    <3> HIDE DEF s2
    <3> QED
      BY <2>2, <3>1
  <2> HIDE DEF s2
  <2>4. s3 \in Seq(T) /\ Len(s3) = 3 /\ s3[1] = a1 /\ s3[2] = a2 /\ s3[3] = a3
    <3>1. /\ s3 \in Seq(T) /\ Len(s3) = Len(s2) + 1
          /\ \A i \in 1..Len(s2) : s3[i] = s2[i]
          /\ s3[Len(s2) + 1] = a3
      BY <2>1, <2>3, Behind, Zenon
    <3> HIDE DEF s3
    <3> QED
      BY <2>3, <3>1
  <2> HIDE DEF s3
  <2>5. s4 \in Seq(T) /\ Len(s4) = 4 /\ s4[1] = a1 /\ s4[2] = a2 /\ s4[3] = a3 /\ s4[4] = a4
    <3>1. /\ s4 \in Seq(T) /\ Len(s4) = Len(s3) + 1
          /\ \A i \in 1..Len(s3) : s4[i] = s3[i]
          /\ s4[Len(s3) + 1] = a4
      BY <2>1, <2>4, Behind, Zenon
    <3> HIDE DEF s4
    <3> QED
      BY <2>4, <3>1
  <2> HIDE DEF s4
  <2>6. s5 \in Seq(T) /\ Len(s5) = 5 /\ s5[1] = a1 /\ s5[2] = a2 /\ s5[3] = a3 /\ s5[4] = a4 /\ s5[5] = a5
    <3>1. /\ s5 \in Seq(T) /\ Len(s5) = Len(s4) + 1
          /\ \A i \in 1..Len(s4) : s5[i] = s4[i]
          /\ s5[Len(s4) + 1] = a5
      BY <2>1, <2>5, Behind, Zenon
    <3> HIDE DEF s5
    <3> QED
      BY <2>5, <3>1
  <2> HIDE DEF s5
  <2>7. s6 \in Seq(T) /\ Len(s6) = 6 /\ s6[1] = a1 /\ s6[2] = a2 /\ s6[3] = a3 /\ s6[4] = a4 /\ s6[5] = a5 /\ s6[6] = a6
    <3>1. /\ s6 \in Seq(T) /\ Len(s6) = Len(s5) + 1
          /\ \A i \in 1..Len(s5) : s6[i] = s5[i]
          /\ s6[Len(s5) + 1] = a6
      BY <2>1, <2>6, Behind, Zenon
    <3> HIDE DEF s6
    <3> QED
      BY <2>6, <3>1
  <2>8. DOMAIN s6 = 1..6
    BY <2>7
  <2> QED
    BY <2>7, <2>8 DEF VethAdded, a1, a2, a3, a4, a5, a6
<1>3. \A i \in Nat : Nl!Align(4 * i) = 4 * i
  BY AlignFacts
<1> HIDE DEF s0, s1, s2, s3, s4, s5, s6, ifname, linkinfo, kind, data, peer, peername
<1>4. ifname = Msg(32 + 4 * j, s1)
  <2>1. Nl!Align(32) = 32
    <3>1. 8 \in Nat /\ 4 * (8) = 32
      OBVIOUS
    <3> QED
      BY <3>1, <1>3
  <2>2. Nl!Align(n + 5) = 4 * j /\ 4 + (n + 1) = n + 5
    BY Aligned
  <2>3. 32 + 4 * j \in Nat /\ (32) + 4 * j = 32 + 4 * j /\ 32 + 4 * j <= 1024
    OBVIOUS
  <2>4. Nl!AddAttr(Msg(32, s0), "IFNAME", n + 1) = Msg(32 + 4 * j, Append(s0, a1))
    <3> DEFINE size == n + 1
               len == n + 5
    <3>1. Nl!Align(len) = 4 * j /\ 4 + size = len
      BY <2>2
    <3> HIDE DEF size, len
    <3>2. Nl!AddAttr(Msg(32, s0), "IFNAME", size) = Msg(32 + 4 * j, Append(s0, At("IFNAME", 32, len)))
      BY <2>1, <2>3, <3>1, Added
    <3> QED
      BY <3>2 DEF size, len
  <2> QED
    BY <1>1, <2>4 DEF ifname, s1
<1>5. linkinfo = Msg(36 + 4 * j, s2)
  <2>1. Nl!Align(32 + 4 * j) = 32 + 4 * j
    <3>1. 8 + j \in Nat /\ 4 * (8 + j) = 32 + 4 * j
      OBVIOUS
    <3> QED
      BY <3>1, <1>3
  <2>2. Nl!Align(4) = 4 /\ 4 + (0) = 4
    BY Aligned
  <2>3. 36 + 4 * j \in Nat /\ (32 + 4 * j) + 4 = 36 + 4 * j /\ 36 + 4 * j <= 1024
    OBVIOUS
  <2>4. Nl!AddAttr(Msg(32 + 4 * j, s1), "LINKINFO", 0) = Msg(36 + 4 * j, Append(s1, a2))
    BY <2>1, <2>2, <2>3, Added
  <2> QED
    BY <1>4, <2>4 DEF linkinfo, s2
<1>6. kind = Msg(48 + 4 * j, s3)
  <2>1. Nl!Align(36 + 4 * j) = 36 + 4 * j
    <3>1. 9 + j \in Nat /\ 4 * (9 + j) = 36 + 4 * j
      OBVIOUS
    <3> QED
      BY <3>1, <1>3
  <2>2. Nl!Align(9) = 12 /\ 4 + (5) = 9
    BY Aligned
  <2>3. 48 + 4 * j \in Nat /\ (36 + 4 * j) + 12 = 48 + 4 * j /\ 48 + 4 * j <= 1024
    OBVIOUS
  <2>4. Nl!AddAttr(Msg(36 + 4 * j, s2), "KIND", 5) = Msg(48 + 4 * j, Append(s2, a3))
    BY <2>1, <2>2, <2>3, Added
  <2> QED
    BY <1>5, <2>4 DEF kind, s3
<1>7. data = Msg(52 + 4 * j, s4)
  <2>1. Nl!Align(48 + 4 * j) = 48 + 4 * j
    <3>1. 12 + j \in Nat /\ 4 * (12 + j) = 48 + 4 * j
      OBVIOUS
    <3> QED
      BY <3>1, <1>3
  <2>2. Nl!Align(4) = 4 /\ 4 + (0) = 4
    BY Aligned
  <2>3. 52 + 4 * j \in Nat /\ (48 + 4 * j) + 4 = 52 + 4 * j /\ 52 + 4 * j <= 1024
    OBVIOUS
  <2>4. Nl!AddAttr(Msg(48 + 4 * j, s3), "DATA", 0) = Msg(52 + 4 * j, Append(s3, a4))
    BY <2>1, <2>2, <2>3, Added
  <2> QED
    BY <1>6, <2>4 DEF data, s4
<1>8. peer = Msg(72 + 4 * j, s5)
  <2>1. Nl!Align(52 + 4 * j) = 52 + 4 * j
    <3>1. 13 + j \in Nat /\ 4 * (13 + j) = 52 + 4 * j
      OBVIOUS
    <3> QED
      BY <3>1, <1>3
  <2>2. Nl!Align(4) = 4 /\ 4 + (0) = 4
    BY Aligned
  <2>3. 56 + 4 * j \in Nat /\ (52 + 4 * j) + 4 = 56 + 4 * j /\ 56 + 4 * j <= 1024
    OBVIOUS
  <2>4. Nl!AddAttr(Msg(52 + 4 * j, s4), "PEER", 0) = Msg(56 + 4 * j, Append(s4, a5))
    BY <2>1, <2>2, <2>3, Added
  <2>5. Nl!SqueezeIfInfo(Msg(56 + 4 * j, s5)) = Msg(72 + 4 * j, s5)
    BY DEF Nl!SqueezeIfInfo, Nl!IfInfo, Msg
  <2> QED
    BY <1>7, <2>4, <2>5 DEF peer, s5
<1>9. peername = Msg(4 * (18 + j + k), s6)
  <2>1. Nl!Align(72 + 4 * j) = 72 + 4 * j
    <3>1. 18 + j \in Nat /\ 4 * (18 + j) = 72 + 4 * j
      OBVIOUS
    <3> QED
      BY <3>1, <1>3
  <2>2. Nl!Align(m + 5) = 4 * k /\ 4 + (m + 1) = m + 5
    BY Aligned
  <2>3. 4 * (18 + j + k) \in Nat /\ (72 + 4 * j) + 4 * k = 4 * (18 + j + k) /\ 4 * (18 + j + k) <= 1024
    OBVIOUS
  <2>4. Nl!AddAttr(Msg(72 + 4 * j, s5), "IFNAME", m + 1) = Msg(4 * (18 + j + k), Append(s5, a6))
    <3> DEFINE size == m + 1
               len == m + 5
    <3>1. Nl!Align(len) = 4 * k /\ 4 + size = len
      BY <2>2
    <3> HIDE DEF size, len
    <3>2. Nl!AddAttr(Msg(72 + 4 * j, s5), "IFNAME", size) = Msg(4 * (18 + j + k), Append(s5, At("IFNAME", 72 + 4 * j, len)))
      BY <2>1, <2>3, <3>1, Added
    <3> QED
      BY <3>2 DEF size, len
  <2> QED
    BY <1>8, <2>4 DEF peername, s6
<1> QED
  BY <1>2, <1>9 DEF ifname, linkinfo, kind, data, peer, peername

LEMMA VethIsLaidOut ==
    ASSUME NEW n \in Nat, NEW m \in Nat, NEW j \in Nat, NEW k \in Nat,
           Nl!Align(n + 5) = 4 * j, Nl!Align(m + 5) = 4 * k, 72 + 4 * j + 4 * k <= 1024
    PROVE  VethLaidOut(Nl!CreateVeth(n, m), n, m, 4 * j, 4 * k)
<1> DEFINE ifname == Nl!AddAttr(Nl!Blank(16), "IFNAME", n + 1)
           linkinfo == Nl!AddAttr(ifname, "LINKINFO", 0)
           kind == Nl!AddAttr(linkinfo, "KIND", 5)
           data == Nl!AddAttr(kind, "DATA", 0)
           peer == Nl!SqueezeIfInfo(Nl!AddAttr(data, "PEER", 0))
           added == Nl!AddAttr(peer, "IFNAME", m + 1)
           e == 18 + j + k
<1>1. PICK s : added = Msg(4 * e, s) /\ VethAdded(s, n, m, j)
  BY VethIsAdded
<1>2. Nl!CreateVeth(n, m) = Nl!CloseAttr(Nl!CloseAttr(Nl!CloseAttr(added, "PEER"), "DATA"), "LINKINFO")
  BY DEF Nl!CreateVeth, Nl!IfInfo
<1> HIDE DEF added
<1>3. e \in Nat /\ 4 * e = 72 + 4 * j + 4 * k
  OBVIOUS
<1> HIDE DEF e
<1> DEFINE s1 == Reaching(s, "PEER", 4 * e)
           s2 == Reaching(s1, "DATA", 4 * e)
           s3 == Reaching(s2, "LINKINFO", 4 * e)
           Six(t) == DOMAIN t = 1..6 /\ \A i \in DOMAIN t : t[i] = At(t[i].type, t[i].at, t[i].len)
<1>4. Six(s)
  BY <1>1 DEF VethAdded, At
<1>5. \A t, type : Six(t) => Six(Reaching(t, type, 4 * e))
  BY DEF Reaching, At
<1>6. Six(s1) /\ Six(s2) /\ Six(s3)
  BY <1>4, <1>5
<1>7. Nl!CreateVeth(n, m) = Msg(4 * e, s3)
  <2>1. \A t, type : Six(t) => Nl!CloseAttr(Msg(4 * e, t), type) = Msg(4 * e, Reaching(t, type, 4 * e))
    BY <1>3, Closed
  <2> HIDE DEF Six
  <2> QED
    BY <1>1, <1>2, <1>4, <1>6, <2>1
<1>8. \A i \in 1..6 : s1[i] = IF s[i].type = "PEER" THEN At("PEER", s[i].at, 4 * e - s[i].at) ELSE s[i]
  BY <1>4 DEF Reaching
<1>9. \A i \in 1..6 : s2[i] = IF s1[i].type = "DATA" THEN At("DATA", s1[i].at, 4 * e - s1[i].at) ELSE s1[i]
  BY <1>6 DEF Reaching
<1>10. \A i \in 1..6 : s3[i] = IF s2[i].type = "LINKINFO" THEN At("LINKINFO", s2[i].at, 4 * e - s2[i].at) ELSE s2[i]
  BY <1>6 DEF Reaching
<1> HIDE DEF s1, s2, s3
<1>11. Len(s3) = 6
  BY <1>6
<1>12. /\ s1[1] = s[1] /\ s1[2] = s[2] /\ s1[3] = s[3] /\ s1[4] = s[4] /\ s1[6] = s[6]
       /\ s1[5] = At("PEER", 52 + 4 * j, 4 * e - (52 + 4 * j))
  BY <1>1, <1>8 DEF VethAdded, At
<1>13. /\ s2[1] = s[1] /\ s2[2] = s[2] /\ s2[3] = s[3] /\ s2[5] = s1[5] /\ s2[6] = s[6]
       /\ s2[4] = At("DATA", 48 + 4 * j, 4 * e - (48 + 4 * j))
  BY <1>1, <1>9, <1>12 DEF VethAdded, At
<1>14. /\ s3[1] = s[1] /\ s3[3] = s[3] /\ s3[4] = s2[4] /\ s3[5] = s1[5] /\ s3[6] = s[6]
       /\ s3[2] = At("LINKINFO", 32 + 4 * j, 4 * e - (32 + 4 * j))
  BY <1>1, <1>10, <1>12, <1>13 DEF VethAdded, At
<1>15. /\ 4 * e - (52 + 4 * j) = 20 + 4 * k /\ 4 * e - (48 + 4 * j) = 24 + 4 * k
       /\ 4 * e - (32 + 4 * j) = 40 + 4 * k
  BY <1>3
<1> QED
  BY <1>1, <1>3, <1>7, <1>11, <1>12, <1>13, <1>14, <1>15 DEF VethLaidOut, VethAdded, Msg

(* A walk that meets nothing, one attribute, or two. *)
LEMMA MeetsNone == ASSUME NEW msg, NEW from PROVE Nl!Meets(msg, from, from, <<>>)
<1>1. Len(<<>>) = 0 /\ 1..0 = {}
  OBVIOUS
<1> QED
  BY <1>1 DEF Nl!Meets

LEMMA MeetsOne ==
    ASSUME NEW msg, NEW from, NEW to, NEW h, NEW type, NEW len,
           msg.attrs[h] = At(type, from, len), from + len <= to, from + Nl!Align(len) = to
    PROVE  Nl!Meets(msg, from, to, <<h>>)
<1> DEFINE held == <<h>>
           attr(k) == msg.attrs[held[k]]
           next(k) == IF k = 0 THEN from ELSE attr(k).at + Nl!Align(attr(k).len)
<1>1. Len(held) = 1 /\ 1..1 = {1} /\ held[1] = h
  OBVIOUS
<1> HIDE DEF held
<1>2. attr(1).at = from /\ attr(1).len = len /\ next(1 - 1) = from
  BY <1>1 DEF At
<1>3. next(1) = to
  BY <1>2
<1>4. Nl!Meets(msg, from, to, held) <=>
        /\ \A k \in 1..Len(held) : attr(k).at = next(k - 1) /\ attr(k).at + attr(k).len <= to
        /\ next(Len(held)) = to
  BY DEF Nl!Meets
<1> HIDE DEF attr, next
<1>5. Nl!Meets(msg, from, to, held)
  BY <1>1, <1>2, <1>3, <1>4
<1> QED
  BY <1>5 DEF held

LEMMA MeetsTwo ==
    ASSUME NEW msg, NEW from, NEW mid, NEW to, NEW g, NEW h, NEW type, NEW len, NEW typeh, NEW lenh,
           msg.attrs[g] = At(type, from, len), from + len <= to, from + Nl!Align(len) = mid,
           msg.attrs[h] = At(typeh, mid, lenh), mid + lenh <= to, mid + Nl!Align(lenh) = to
    PROVE  Nl!Meets(msg, from, to, <<g, h>>)
<1> DEFINE held == <<g, h>>
           attr(k) == msg.attrs[held[k]]
           next(k) == IF k = 0 THEN from ELSE attr(k).at + Nl!Align(attr(k).len)
<1>1. Len(held) = 2 /\ 1..2 = {1, 2} /\ held[1] = g /\ held[2] = h
  OBVIOUS
<1> HIDE DEF held
<1>2. /\ attr(1).at = from /\ attr(1).len = len /\ next(1 - 1) = from
      /\ attr(2).at = mid /\ attr(2).len = lenh
  BY <1>1 DEF At
<1>3. next(2 - 1) = mid /\ next(2) = to
  BY <1>2
<1>4. Nl!Meets(msg, from, to, held) <=>
        /\ \A k \in 1..Len(held) : attr(k).at = next(k - 1) /\ attr(k).at + attr(k).len <= to
        /\ next(Len(held)) = to
  BY DEF Nl!Meets
<1> HIDE DEF attr, next
<1>5. Nl!Meets(msg, from, to, held)
  BY <1>1, <1>2, <1>3, <1>4
<1> QED
  BY <1>5 DEF held

(* However long the two names are: if the request has room, it holds what   *)
(* the comment in _create_veth() says.                                      *)
LEMMA VethReadsBack ==
    ASSUME NEW n \in Nat, NEW m \in Nat,
           72 + Nl!Align(n + 5) + Nl!Align(m + 5) <= Nl!Capacity
    PROVE  Nl!ReadBack(Nl!CreateVeth(n, m), Nl!VethTree(n, m))
<1>1. PICK j \in Nat : Nl!Align(n + 5) = 4 * j
  BY AlignFacts
<1>2. PICK k \in Nat : Nl!Align(m + 5) = 4 * k
  BY AlignFacts
<1>3. n + 5 <= 4 * j /\ m + 5 <= 4 * k /\ 72 + 4 * j + 4 * k <= 1024
  BY <1>1, <1>2, AlignFacts DEF Nl!Capacity
<1> DEFINE msg == Nl!CreateVeth(n, m)
           tree == Nl!VethTree(n, m)
<1>4. VethLaidOut(msg, n, m, 4 * j, 4 * k)
  BY <1>1, <1>2, <1>3, VethIsLaidOut
<1> HIDE DEF msg
<1>5. /\ Nl!Align(40 + 4 * k) = 40 + 4 * k /\ Nl!Align(24 + 4 * k) = 24 + 4 * k
      /\ Nl!Align(20 + 4 * k) = 20 + 4 * k /\ Nl!Align(9) = 12
  <2>1. /\ 10 + k \in Nat /\ 6 + k \in Nat /\ 5 + k \in Nat /\ 4 * (10 + k) = 40 + 4 * k
        /\ 4 * (6 + k) = 24 + 4 * k /\ 4 * (5 + k) = 20 + 4 * k
    OBVIOUS
  <2> QED
    BY <2>1, AlignFacts, Aligned
<1>6. /\ tree.fixed = 16 /\ tree.holds = <<1, 2>> /\ Len(tree.parts) = 6
      /\ tree.parts[1] = Nl!Part("IFNAME", n + 1, <<>>)
      /\ tree.parts[2] = Nl!Part("LINKINFO", 0, <<3, 4>>)
      /\ tree.parts[3] = Nl!Part("KIND", 5, <<>>)
      /\ tree.parts[4] = Nl!Part("DATA", 0, <<5>>)
      /\ tree.parts[5] = Nl!Part("PEER", 16, <<6>>)
      /\ tree.parts[6] = Nl!Part("IFNAME", m + 1, <<>>)
  BY DEF Nl!VethTree, Nl!IfInfo
<1> HIDE DEF tree
<1>7. msg.len <= Nl!Capacity /\ Len(msg.attrs) = Len(tree.parts)
  BY <1>3, <1>4, <1>6 DEF VethLaidOut, Nl!Capacity
<1> DEFINE p == 4 * j
           q == 4 * k
<1>8. /\ p \in Nat /\ q \in Nat /\ Nl!Align(n + 5) = p /\ Nl!Align(m + 5) = q
      /\ n + 5 <= p /\ m + 5 <= q /\ VethLaidOut(msg, n, m, p, q)
      /\ Nl!Align(40 + q) = 40 + q /\ Nl!Align(24 + q) = 24 + q
      /\ Nl!Align(20 + q) = 20 + q /\ Nl!Align(9) = 12
  BY <1>1, <1>2, <1>3, <1>4, <1>5
<1> HIDE DEF p, q
<1>14. Nl!Meets(msg, Nl!Header + tree.fixed, msg.len, tree.holds)
  <2> DEFINE len == n + 5
  <2>1. /\ len \in Nat /\ 32 + len <= 72 + p + q /\ 32 + Nl!Align(len) = 32 + p
        /\ (32 + p) + (40 + q) <= 72 + p + q /\ (32 + p) + Nl!Align(40 + q) = 72 + p + q
    BY <1>8
  <2>2. msg.attrs[1] = At("IFNAME", 32, len) /\ msg.attrs[2] = At("LINKINFO", 32 + p, 40 + q)
    BY <1>8 DEF VethLaidOut
  <2> HIDE DEF len
  <2>3. Nl!Meets(msg, 32, 72 + p + q, <<1, 2>>)
    BY <2>1, <2>2, MeetsTwo
  <2>4. Nl!Header + tree.fixed = 32 /\ msg.len = 72 + p + q
    BY <1>6, <1>8 DEF VethLaidOut, Nl!Header
  <2> QED
    BY <1>6, <2>3, <2>4
<1> DEFINE Right(i) ==
      LET at == msg.attrs[i]
          part == tree.parts[i]
      IN  /\ at.type = part.type
          /\ Nl!Meets(msg, at.at + Nl!AttrHeader + part.bytes, at.at + at.len, part.holds)
<1>9. Right(1) /\ Right(3) /\ Right(6)
  <2>1. Right(1)
    <3>1. msg.attrs[1] = At("IFNAME", 32, n + 5)
      BY <1>8 DEF VethLaidOut
    <3>2. (32) + 4 + (n + 1) = (32) + (n + 5)
      BY <1>8
    <3>3. Nl!Meets(msg, (32) + 4 + (n + 1), (32) + (n + 5), <<>>)
      BY <3>2, MeetsNone
    <3> QED
      BY <1>6, <3>1, <3>3 DEF At, Nl!AttrHeader, Nl!Part
  <2>2. Right(3)
    <3>1. msg.attrs[3] = At("KIND", 36 + p, 9)
      BY <1>8 DEF VethLaidOut
    <3>2. (36 + p) + 4 + (5) = (36 + p) + (9)
      BY <1>8
    <3>3. Nl!Meets(msg, (36 + p) + 4 + (5), (36 + p) + (9), <<>>)
      BY <3>2, MeetsNone
    <3> QED
      BY <1>6, <3>1, <3>3 DEF At, Nl!AttrHeader, Nl!Part
  <2>3. Right(6)
    <3>1. msg.attrs[6] = At("IFNAME", 72 + p, m + 5)
      BY <1>8 DEF VethLaidOut
    <3>2. (72 + p) + 4 + (m + 1) = (72 + p) + (m + 5)
      BY <1>8
    <3>3. Nl!Meets(msg, (72 + p) + 4 + (m + 1), (72 + p) + (m + 5), <<>>)
      BY <3>2, MeetsNone
    <3> QED
      BY <1>6, <3>1, <3>3 DEF At, Nl!AttrHeader, Nl!Part
  <2> QED
    BY <2>1, <2>2, <2>3
<1>10. Right(2)
  <2>1. /\ (36 + p) + 9 <= 72 + p + q /\ (36 + p) + Nl!Align(9) = 48 + p
        /\ (48 + p) + (24 + q) <= 72 + p + q /\ (48 + p) + Nl!Align(24 + q) = 72 + p + q
    BY <1>8
  <2>2. /\ msg.attrs[3] = At("KIND", 36 + p, 9) /\ msg.attrs[4] = At("DATA", 48 + p, 24 + q)
        /\ msg.attrs[2] = At("LINKINFO", 32 + p, 40 + q)
    BY <1>8 DEF VethLaidOut
  <2>3. Nl!Meets(msg, 36 + p, 72 + p + q, <<3, 4>>)
    BY <2>1, <2>2, MeetsTwo
  <2>4. (32 + p) + 4 + 0 = 36 + p /\ (32 + p) + (40 + q) = 72 + p + q
    BY <1>8
  <2> QED
    BY <1>6, <2>2, <2>3, <2>4 DEF At, Nl!AttrHeader, Nl!Part
<1>11. Right(4)
  <2>1. (52 + p) + (20 + q) <= 72 + p + q /\ (52 + p) + Nl!Align(20 + q) = 72 + p + q
    BY <1>8
  <2>2. msg.attrs[5] = At("PEER", 52 + p, 20 + q) /\ msg.attrs[4] = At("DATA", 48 + p, 24 + q)
    BY <1>8 DEF VethLaidOut
  <2>3. Nl!Meets(msg, 52 + p, 72 + p + q, <<5>>)
    BY <2>1, <2>2, MeetsOne
  <2>4. (48 + p) + 4 + 0 = 52 + p /\ (48 + p) + (24 + q) = 72 + p + q
    BY <1>8
  <2> QED
    BY <1>6, <2>2, <2>3, <2>4 DEF At, Nl!AttrHeader, Nl!Part
<1>12. Right(5)
  <2> DEFINE len == m + 5
  <2>1. (72 + p) + len <= 72 + p + q /\ (72 + p) + Nl!Align(len) = 72 + p + q
    BY <1>8
  <2>2. msg.attrs[6] = At("IFNAME", 72 + p, len) /\ msg.attrs[5] = At("PEER", 52 + p, 20 + q)
    BY <1>8 DEF VethLaidOut
  <2> HIDE DEF len
  <2>3. Nl!Meets(msg, 72 + p, 72 + p + q, <<6>>)
    BY <2>1, <2>2, MeetsOne
  <2>4. (52 + p) + 4 + 16 = 72 + p /\ (52 + p) + (20 + q) = 72 + p + q
    BY <1>8
  <2> QED
    BY <1>6, <2>2, <2>3, <2>4 DEF At, Nl!AttrHeader, Nl!Part
<1>13. \A i \in 1..Len(tree.parts) : Right(i)
  <2> HIDE DEF Right
  <2>1. 1..6 = {1, 2, 3, 4, 5, 6}
    OBVIOUS
  <2> QED
    BY <1>6, <1>9, <1>10, <1>11, <1>12, <2>1
<1> QED
  BY <1>7, <1>13, <1>14 DEF Nl!ReadBack, msg, tree

LEMMA AddedFour ==
    ASSUME NEW at \in Nat, NEW next \in Nat, Nl!Align(at) = at, at + 8 = next, next <= 1024,
           NEW s, NEW type
    PROVE  Nl!AddAttr(Msg(at, s), type, 4) = Msg(next, Append(s, At(type, at, 8)))
<1>1. 4 + 4 = 8 /\ Nl!Align(8) = 8
  BY Aligned
<1> QED
  BY <1>1, Added

LEMMA AddedFirst ==
    ASSUME NEW at \in Nat, NEW next \in Nat, Nl!Align(at) = at, at + 8 = next, next <= 1024,
           NEW type
    PROVE  Nl!AddAttr(Msg(at, <<>>), type, 4) = Msg(next, <<At(type, at, 8)>>)
<1> DEFINE e == <<>>
           a == At(type, at, 8)
<1>1. Append(e, a) = <<a>>
  <2> HIDE DEF a
  <2> QED
    OBVIOUS
<1> HIDE DEF e
<1>2. Nl!AddAttr(Msg(at, e), type, 4) = Msg(next, Append(e, a))
  BY AddedFour
<1> QED
  BY <1>1, <1>2 DEF e

LEMMA AppendTwo == ASSUME NEW a, NEW b PROVE Append(<<a>>, b) = <<a, b>>
<1> DEFINE T == {a, b}
           s == <<a>>
           t == Append(s, b)
           u == <<a, b>>
<1>1. s \in Seq(T) /\ Len(s) = 1 /\ s[1] = a
  OBVIOUS
<1>2. t \in Seq(T) /\ Len(t) = 2 /\ t[1] = a /\ t[2] = b
  <2>1. b \in T
    OBVIOUS
  <2> HIDE DEF s, T
  <2>2. t \in Seq(T) /\ Len(t) = Len(s) + 1 /\ t[Len(s) + 1] = b /\ \A i \in 1..Len(s) : t[i] = s[i]
    BY <1>1, <2>1, Behind
  <2> HIDE DEF t
  <2> QED
    BY <1>1, <2>2
<1>3. u \in Seq(T) /\ Len(u) = 2 /\ u[1] = a /\ u[2] = b
  OBVIOUS
<1> HIDE DEF s, t, u, T
<1>4. \A i \in 1..2 : t[i] = u[i]
  <2>1. 1..2 = {1, 2}
    OBVIOUS
  <2> QED
    BY <1>2, <1>3, <2>1
<1>5. t = u
  BY <1>2, <1>3, <1>4, SeqEqual
<1> QED
  BY <1>5 DEF s, t, u

LEMMA MoveReadsBack ==
    ASSUME NEW n \in Nat, 40 + Nl!Align(n + 5) <= Nl!Capacity
    PROVE  Nl!ReadBack(Nl!MoveVeth(n), Nl!MoveTree(n))
<1> DEFINE a == At("NET_NS_FD", 32, 8)
           b == At("IFNAME", 40, n + 5)
           size == n + 1
           len == n + 5
           end == 40 + Nl!Align(len)
           msg == Msg(end, <<a, b>>)
           tree == Nl!MoveTree(n)
<1>1. /\ len \in Nat /\ size \in Nat /\ 4 + size = len /\ len <= Nl!Align(len) /\ Nl!Align(len) \in Nat
      /\ end \in Nat /\ end <= 1024
  <2>1. len \in Nat /\ size \in Nat /\ 4 + size = len
    OBVIOUS
  <2> HIDE DEF len, size
  <2>2. len <= Nl!Align(len) /\ Nl!Align(len) \in Nat
    BY <2>1, AlignFacts
  <2>3. end <= 1024
    BY DEF len, Nl!Capacity
  <2> QED
    BY <2>1, <2>2, <2>3
<1>2. Nl!Align(32) = 32 /\ Nl!Align(40) = 40 /\ Nl!Align(8) = 8
  BY DEF Nl!Align
<1>3. Nl!MoveVeth(n) = msg
  <2>1. Nl!Blank(16) = Msg(32, <<>>)
    BY DEF Nl!Blank, Nl!Header, Msg
  <2>2. Nl!AddAttr(Msg(32, <<>>), "NET_NS_FD", 4) = Msg(40, <<a>>)
    BY <1>2, AddedFirst
  <2> HIDE DEF a
  <2>3. Nl!AddAttr(Msg(40, <<a>>), "IFNAME", size) = msg
    <3> HIDE DEF size, len, end
    <3>1. Nl!AddAttr(Msg(40, <<a>>), "IFNAME", size) = Msg(end, Append(<<a>>, At("IFNAME", 40, len)))
      BY <1>1, <1>2, Added DEF end
    <3>2. b = At("IFNAME", 40, len)
      BY DEF len
    <3> HIDE DEF b
    <3>3. Append(<<a>>, b) = <<a, b>>
      BY AppendTwo
    <3> QED
      BY <3>1, <3>2, <3>3
  <2> QED
    BY <2>1, <2>2, <2>3 DEF Nl!MoveVeth, Nl!IfInfo
<1>4. msg.len = end /\ Len(msg.attrs) = 2 /\ msg.attrs[1] = a /\ msg.attrs[2] = At("IFNAME", 40, len)
  <2> HIDE DEF a, end
  <2> QED
    BY DEF Msg
<1>5. /\ tree.fixed = 16 /\ tree.holds = <<1, 2>> /\ Len(tree.parts) = 2
      /\ tree.parts[1] = Nl!Part("NET_NS_FD", 4, <<>>)
      /\ tree.parts[2] = Nl!Part("IFNAME", size, <<>>)
  BY DEF Nl!MoveTree, Nl!IfInfo
<1> HIDE DEF msg, tree, size, len
<1>6. Nl!Meets(msg, 32, end, <<1, 2>>)
  <2>1. 32 + 8 <= end /\ 32 + Nl!Align(8) = 40 /\ 40 + len <= end /\ 40 + Nl!Align(len) = end
    BY <1>1, <1>2
  <2> HIDE DEF end
  <2> QED
    BY <1>4, <2>1, MeetsTwo
<1> HIDE DEF end
<1>7. Nl!Meets(msg, 32 + 4 + 4, 32 + 8, <<>>) /\ Nl!Meets(msg, 40 + 4 + size, 40 + len, <<>>)
  <2>1. 32 + 4 + 4 = 40 /\ 32 + 8 = 40 /\ 40 + 4 + size = 40 + len
    BY <1>1
  <2> QED
    BY <2>1, MeetsNone
<1> DEFINE Right(i) ==
      LET at == msg.attrs[i]
          part == tree.parts[i]
      IN  /\ at.type = part.type
          /\ Nl!Meets(msg, at.at + Nl!AttrHeader + part.bytes, at.at + at.len, part.holds)
<1>8. Right(1) /\ Right(2)
  BY <1>4, <1>5, <1>7 DEF At, Nl!AttrHeader, Nl!Part
<1>9. \A i \in 1..Len(tree.parts) : Right(i)
  <2> HIDE DEF Right
  <2>1. 1..2 = {1, 2}
    OBVIOUS
  <2> QED
    BY <1>5, <1>8, <2>1
<1>10. Nl!Header + tree.fixed = 32 /\ msg.len <= Nl!Capacity
  BY <1>1, <1>4, <1>5 DEF Nl!Header, Nl!Capacity
<1>11. Nl!ReadBack(msg, tree)
  BY <1>4, <1>5, <1>6, <1>9, <1>10 DEF Nl!ReadBack
<1> QED
  BY <1>3, <1>11 DEF tree

LEMMA GwReadsBack == Nl!ReadBack(Nl!SetDefaultGw, Nl!GwTree)
<1> DEFINE a == At("GATEWAY", 28, 8)
           msg == Msg(36, <<a>>)
           tree == Nl!GwTree
<1>1. Nl!Align(28) = 28 /\ Nl!Align(8) = 8
  BY DEF Nl!Align
<1>2. Nl!SetDefaultGw = msg
  <2>1. Nl!Blank(12) = Msg(28, <<>>)
    BY DEF Nl!Blank, Nl!Header, Msg
  <2>2. Nl!AddAttr(Msg(28, <<>>), "GATEWAY", 4) = Msg(36, <<a>>)
    BY <1>1, AddedFirst
  <2> QED
    BY <2>1, <2>2 DEF Nl!SetDefaultGw, Nl!RtMsg
<1>3. msg.len = 36 /\ Len(msg.attrs) = 1 /\ msg.attrs[1] = a
  <2> HIDE DEF a
  <2> QED
    BY DEF Msg
<1>4. /\ tree.fixed = 12 /\ tree.holds = <<1>> /\ Len(tree.parts) = 1
      /\ tree.parts[1] = Nl!Part("GATEWAY", 4, <<>>)
  BY DEF Nl!GwTree, Nl!RtMsg
<1> HIDE DEF msg, tree
<1>5. Nl!Meets(msg, 28, 36, <<1>>)
  BY <1>1, <1>3, MeetsOne
<1>6. Nl!Meets(msg, 28 + 4 + 4, 28 + 8, <<>>)
  BY MeetsNone
<1> DEFINE Right(i) ==
      LET at == msg.attrs[i]
          part == tree.parts[i]
      IN  /\ at.type = part.type
          /\ Nl!Meets(msg, at.at + Nl!AttrHeader + part.bytes, at.at + at.len, part.holds)
<1>7. Right(1)
  BY <1>3, <1>4, <1>6 DEF At, Nl!AttrHeader, Nl!Part
<1>8. \A i \in 1..Len(tree.parts) : Right(i)
  <2> HIDE DEF Right
  <2> QED
    BY <1>4, <1>7
<1>9. Nl!Header + tree.fixed = 28 /\ msg.len <= Nl!Capacity
  BY <1>3, <1>4 DEF Nl!Header, Nl!Capacity
<1>10. Nl!ReadBack(msg, tree)
  BY <1>3, <1>4, <1>5, <1>8, <1>9 DEF Nl!ReadBack
<1> QED
  BY <1>2, <1>10 DEF tree

(* Whatever the length of the names, as long as two of them leave room for  *)
(* the rest of a request, the kernel reads a request of a bring-up as the   *)
(* code nests it (virtual_net.cpp:93-124, 173-243).                         *)
THEOREM RequestsAreReadBack == Spec => []RequestsReadBack
<1>1. ASSUME NEW n \in Lengths, NEW m \in Lengths
      PROVE  /\ n \in Nat /\ m \in Nat
             /\ 72 + Nl!Align(n + 5) + Nl!Align(m + 5) <= Nl!Capacity
             /\ 40 + Nl!Align(n + 5) <= Nl!Capacity
  <2>1. n \in Nat /\ m \in Nat /\ 2 * n + 88 <= 1024 /\ 2 * m + 88 <= 1024
    BY LengthAssumption DEF Nl!Capacity
  <2>2. /\ Nl!Align(n + 5) \in Nat /\ Nl!Align(m + 5) \in Nat
        /\ Nl!Align(n + 5) <= (n + 5) + 3 /\ Nl!Align(m + 5) <= (m + 5) + 3
    <3>1. n + 5 \in Nat /\ m + 5 \in Nat
      BY <2>1
    <3> QED
      BY <3>1, AlignFacts
  <2> QED
    BY <2>1, <2>2 DEF Nl!Capacity
<1>2. ASSUME NEW r \in UNION {Requests[pc] : pc \in DOMAIN Requests}
      PROVE  Nl!ReadBack(r[1], r[2])
  <2>1. /\ DOMAIN Requests = {"create", "move", "route"}
        /\ Requests["create"] = {<<Nl!CreateVeth(n, m), Nl!VethTree(n, m)>> : n, m \in Lengths}
        /\ Requests["move"] = {<<Nl!MoveVeth(n), Nl!MoveTree(n)>> : n \in Lengths}
        /\ Requests["route"] = {<<Nl!SetDefaultGw, Nl!GwTree>>}
    BY DEF Requests
  <2>2. r \in Requests["create"] \/ r \in Requests["move"] \/ r \in Requests["route"]
    BY <2>1
  <2>3. CASE r \in Requests["create"]
    <3>1. PICK n \in Lengths, m \in Lengths : r = <<Nl!CreateVeth(n, m), Nl!VethTree(n, m)>>
      BY <2>1, <2>3
    <3>2. Nl!ReadBack(Nl!CreateVeth(n, m), Nl!VethTree(n, m))
      BY <1>1, VethReadsBack
    <3> QED
      BY <3>1, <3>2
  <2>4. CASE r \in Requests["move"]
    <3>1. PICK n \in Lengths : r = <<Nl!MoveVeth(n), Nl!MoveTree(n)>>
      BY <2>1, <2>4
    <3>2. Nl!ReadBack(Nl!MoveVeth(n), Nl!MoveTree(n))
      BY <1>1, MoveReadsBack
    <3> QED
      BY <3>1, <3>2
  <2>5. CASE r \in Requests["route"]
    BY <2>1, <2>5, GwReadsBack
  <2> QED
    BY <2>2, <2>3, <2>4, <2>5
<1>3. Garbled = {}
  BY <1>2 DEF Garbled
<1>4. RequestsReadBack
  BY <1>3 DEF RequestsReadBack
<1> QED
  BY <1>4, PTL

=============================================================================
