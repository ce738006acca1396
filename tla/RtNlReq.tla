------------------------------- MODULE RtNlReq -------------------------------
(***************************************************************************)
(* The netlink requests of virtual_net.cpp as the bytes they are laid out  *)
(* in: what RtNlReq's calls of Add_rtattr() and Close_rtattr() make of the *)
(* buffer, and the walk over the finished message by which the kernel      *)
(* finds the attributes again.  Offsets and lengths are bytes.             *)
(***************************************************************************)
EXTENDS Integers, Sequences

Header == 16                       (* NLMSG_HDRLEN                           *)
AttrHeader == 4                    (* sizeof(struct rtattr)                  *)
IfInfo == 16                       (* sizeof(struct ifinfomsg)               *)
RtMsg == 12                        (* sizeof(struct rtmsg)                   *)
Capacity == 1024

Align(n) == ((n + 3) \div 4) * 4   (* NLMSG_ALIGN, RTA_ALIGN                 *)

-----------------------------------------------------------------------------
(* A message in the making: nlmsg_len, and the attributes in the buffer in  *)
(* the order in which they were added.                                      *)

Blank(fixed) == [len |-> Header + fixed, attrs |-> <<>>]

Room(msg, size) == Align(msg.len) + Align(AttrHeader + size) <= Capacity

(* A full buffer leaves the message as it is, and nobody looks at the null  *)
(* pointer that tells of it.                                                *)
AddAttr(msg, type, size) ==
    IF ~Room(msg, size) THEN msg
    ELSE [len |-> Align(msg.len) + Align(AttrHeader + size),
          attrs |-> Append(msg.attrs, [type |-> type, at |-> Align(msg.len),
                                       len |-> AttrHeader + size])]

SqueezeIfInfo(msg) == [msg EXCEPT !.len = @ + IfInfo]

WithLength(msg, type, end) ==
    [msg EXCEPT !.attrs = [i \in DOMAIN msg.attrs |->
        LET a == msg.attrs[i] IN IF a.type = type THEN [a EXCEPT !.len = end - a.at] ELSE a]]

(* Fault: the length ends where the last attribute's header begins. *)
CloseEarly(msg, type) == WithLength(msg, type, msg.attrs[Len(msg.attrs)].at)

CloseAttr(msg, type) == WithLength(msg, type, Align(msg.len))

-----------------------------------------------------------------------------
(* The requests, for names of n and m characters.  A pointer that the code  *)
(* keeps to an attribute it closes later is the attribute's type here.      *)

CreateVeth(n, m) ==
    LET ifname == AddAttr(Blank(IfInfo), "IFNAME", n + 1)
        linkinfo == AddAttr(ifname, "LINKINFO", 0)
        kind == AddAttr(linkinfo, "KIND", 5)
        data == AddAttr(kind, "DATA", 0)
        peer == SqueezeIfInfo(AddAttr(data, "PEER", 0))
        peername == AddAttr(peer, "IFNAME", m + 1)
    IN  CloseAttr(CloseAttr(CloseAttr(peername, "PEER"), "DATA"), "LINKINFO")

MoveVeth(n) == AddAttr(AddAttr(Blank(IfInfo), "NET_NS_FD", 4), "IFNAME", n + 1)

SetDefaultGw == AddAttr(Blank(RtMsg), "GATEWAY", 4)

-----------------------------------------------------------------------------
(* What the requests are to hold, as the comment in _create_veth() draws    *)
(* it: the fixed part, the attributes of the top level, and each attribute  *)
(* with the bytes it begins with and the attributes behind them.            *)

Part(type, bytes, holds) == [type |-> type, bytes |-> bytes, holds |-> holds]

VethTree(n, m) ==
    [fixed |-> IfInfo, holds |-> <<1, 2>>,
     parts |-> <<Part("IFNAME", n + 1, <<>>),
                 Part("LINKINFO", 0, <<3, 4>>),
                     Part("KIND", 5, <<>>),
                     Part("DATA", 0, <<5>>),
                         Part("PEER", IfInfo, <<6>>),
                             Part("IFNAME", m + 1, <<>>)>>]

MoveTree(n) ==
    [fixed |-> IfInfo, holds |-> <<1, 2>>,
     parts |-> <<Part("NET_NS_FD", 4, <<>>), Part("IFNAME", n + 1, <<>>)>>]

GwTree == [fixed |-> RtMsg, holds |-> <<1>>, parts |-> <<Part("GATEWAY", 4, <<>>)>>]

(* The kernel's walk over the attributes of msg from one offset to another  *)
(* meets those of held, in order, whole, and ends with the last of them.    *)
Meets(msg, from, to, held) ==
    LET attr(k) == msg.attrs[held[k]]
        next(k) == IF k = 0 THEN from ELSE attr(k).at + Align(attr(k).len)
    IN  /\ \A k \in 1..Len(held) : attr(k).at = next(k - 1) /\ attr(k).at + attr(k).len <= to
        /\ next(Len(held)) = to

(* The reader finds in msg what the tree says: no attribute is lost, cut or *)
(* found on another level; and the message fits its buffer.                 *)
ReadBack(msg, tree) ==
    /\ msg.len <= Capacity
    /\ Len(msg.attrs) = Len(tree.parts)
    /\ Meets(msg, Header + tree.fixed, msg.len, tree.holds)
    /\ \A i \in 1..Len(tree.parts) :
         LET a == msg.attrs[i]
             p == tree.parts[i]
         IN  a.type = p.type /\ Meets(msg, a.at + AttrHeader + p.bytes, a.at + a.len, p.holds)

=============================================================================
