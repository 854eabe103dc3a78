----------------------------- MODULE DhcpServer -----------------------------
(***************************************************************************)
(* The DHCP server, class DHCPServer of dhcp/dhcp_server.py, and the       *)
(* clients that run the Discover-Offer-Request-Acknowledge cycle with it.  *)
(*                                                                         *)
(* The server has one thread and handles a packet at a time.  What a       *)
(* client sends stays in net, what the server broadcasts stays in air: a   *)
(* packet may arrive at any time, again, after later ones, or never.       *)
(*                                                                         *)
(* A reply carries the transaction number of the request and the address,  *)
(* not the hardware address of the client (chaddr stays zero), so a client *)
(* knows its reply by the transaction number alone.  The client of         *)
(* examples/dhcp_dns_client.py sends nothing but a DISCOVER, which has no  *)
(* hardware address and always the same transaction number.                *)
(***************************************************************************)
EXTENDS IpPool

CONSTANTS
  Xid,        \* transaction numbers
  NoXid,      \* the transaction of an idle client, and of a RELEASE
  DemoMac,    \* the hardware address of the example: zeros
  DemoXid,    \* its transaction number: 0x12345678
  MaxLaunch   \* bound: launches of the server process

ASSUME DhcpAssumption ==
  /\ MaxLaunch \in Nat
  /\ DemoMac \in Mac
  /\ NoXid \notin Xid \cup {DemoXid} /\ DemoXid \notin Xid

VARIABLES
  client,    \* the client at each hardware address
  net,       \* packets the clients sent
  air,       \* packets the server broadcast
  launches,  \* launches of the server process so far
  upset      \* history: what the server did to the client since it began its
             \* transaction: a "release" it handled, a "restart"

vars == <<poolVars, client, net, air, launches, upset>>

\* "0.0.0.0", the address of a NAK and of a client that has none
NoIp == 0

\* the numbers of replies
AnyXid == Xid \cup {DemoXid}

ClientPacket == [type: {"DISCOVER", "REQUEST"}, mac: Mac, xid: AnyXid]
                  \cup [type: {"RELEASE"}, mac: Mac, xid: {NoXid}]

ServerPacket == [type: {"OFFER", "ACK", "NAK"}, xid: AnyXid, ip: Ip \cup {NoIp}]

-----------------------------------------------------------------------------
(* The server.                                                             *)

\* _build_response and _send_broadcast
Reply(type, p, ip) == air' = air \cup {[type |-> type, xid |-> p.xid, ip |-> ip]}

\* the address allocate returned, if it returned one
Got(m) == m \in DOMAIN assigned'

HandleDiscover(p) ==
  /\ p.type = "DISCOVER"
  /\ Allocate(p.mac)
  /\ IF Got(p.mac) THEN Reply("OFFER", p, assigned'[p.mac]) ELSE UNCHANGED air
  /\ UNCHANGED upset

\* the address the client asks for is not read
HandleRequest(p) ==
  /\ p.type = "REQUEST"
  /\ Allocate(p.mac)
  /\ IF Got(p.mac) THEN Reply("ACK", p, assigned'[p.mac])
                   ELSE Reply("NAK", p, NoIp)
  /\ UNCHANGED upset

Idle(m) == client[m].pc = "idle"

\* nor is the address it gives back
HandleRelease(p) ==
  /\ p.type = "RELEASE"
  /\ Release(p.mac)
  /\ upset' = IF Idle(p.mac) THEN upset
              ELSE [upset EXCEPT ![p.mac] = @ \cup {"release"}]
  /\ UNCHANGED air

\* _handle_packet
HandlePacket(p) ==
  /\ HandleDiscover(p) \/ HandleRequest(p) \/ HandleRelease(p)
  /\ UNCHANGED <<client, net, launches>>

\* the dashboard kills the process and launches another: a new IPPool
Relaunch ==
  /\ launches < MaxLaunch
  /\ launches' = launches + 1
  /\ available' = FreshList /\ assigned' = EmptyDict
  /\ upset' = [m \in Mac |-> IF Idle(m) THEN {} ELSE upset[m] \cup {"restart"}]
  /\ UNCHANGED <<client, net, air>>

-----------------------------------------------------------------------------
(* The clients.                                                            *)

Send(type, m, x) == net' = net \cup {[type |-> type, mac |-> m, xid |-> x]}

NoTransaction == [pc |-> "idle", xid |-> NoXid, ip |-> NoIp]

\* broadcast a DISCOVER with a transaction number nobody used before
Discover(m, x) ==
  /\ Idle(m)
  /\ \A p \in net : p.xid # x
  /\ client' = [client EXCEPT ![m] = [pc |-> "selecting", xid |-> x, ip |-> NoIp]]
  /\ Send("DISCOVER", m, x)
  /\ UNCHANGED <<poolVars, air, launches, upset>>

\* take the OFFER and request its address
RecvOffer(m, p) ==
  /\ client[m].pc = "selecting"
  /\ p.type = "OFFER" /\ p.xid = client[m].xid
  /\ client' = [client EXCEPT ![m].pc = "requesting", ![m].ip = p.ip]
  /\ Send("REQUEST", m, p.xid)
  /\ UNCHANGED <<poolVars, air, launches, upset>>

\* configure the address of the ACK
RecvAck(m, p) ==
  /\ client[m].pc = "requesting"
  /\ p.type = "ACK" /\ p.xid = client[m].xid
  /\ client' = [client EXCEPT ![m].pc = "bound", ![m].ip = p.ip]
  /\ UNCHANGED <<poolVars, net, air, launches, upset>>

Stop(m) ==
  /\ client' = [client EXCEPT ![m] = NoTransaction]
  /\ upset' = [upset EXCEPT ![m] = {}]
  /\ UNCHANGED <<poolVars, air, launches>>

RecvNak(m, p) ==
  /\ client[m].pc = "requesting"
  /\ p.type = "NAK" /\ p.xid = client[m].xid
  /\ Stop(m)
  /\ UNCHANGED net

\* no reply came in time
GiveUp(m) ==
  /\ client[m].pc \in {"selecting", "requesting"}
  /\ Stop(m)
  /\ UNCHANGED net

\* give the address back; the server does not use the number of a RELEASE
GiveBack(m) ==
  /\ client[m].pc = "bound"
  /\ Stop(m)
  /\ Send("RELEASE", m, NoXid)

\* run_dhcp_discover of the example, as often as it is run; whatever reply it
\* gets, it only logs it
Demo ==
  /\ Send("DISCOVER", DemoMac, DemoXid)
  /\ UNCHANGED <<poolVars, client, air, launches, upset>>

-----------------------------------------------------------------------------

Init ==
  /\ PoolInit
  /\ client = [m \in Mac |-> NoTransaction]
  /\ net = {} /\ air = {}
  /\ launches = 1
  /\ upset = [m \in Mac |-> {}]

ClientStep(m) ==
  \/ \E x \in Xid : Discover(m, x)
  \/ \E p \in air : RecvOffer(m, p) \/ RecvAck(m, p) \/ RecvNak(m, p)
  \/ GiveUp(m) \/ GiveBack(m)

Next ==
  \/ \E p \in net : HandlePacket(p)
  \/ Relaunch
  \/ \E m \in Mac \ {DemoMac} : ClientStep(m)
  \/ Demo

Spec == Init /\ [][Next]_vars

-----------------------------------------------------------------------------
(* Properties.                                                             *)

\* Every variable holds what the code, or a client, can put there.
TypeOK ==
  /\ PoolTypeOK
  /\ client \in [Mac -> [pc: {"idle", "selecting", "requesting", "bound"},
                         xid: Xid \cup {NoXid}, ip: Ip \cup {NoIp}]]
  /\ net \subseteq ClientPacket /\ air \subseteq ServerPacket
  /\ launches \in Nat
  /\ upset \in [Mac -> SUBSET {"release", "restart"}]

\* the server's table says what the client believes
Granted(m) == m \in DOMAIN assigned /\ assigned[m] = client[m].ip

\* The address a client was offered is reserved for it while it requests it,
\* unless the server handled a RELEASE of it, or started again, meanwhile.
OfferHeld ==
  \A m \in Mac : client[m].pc = "requesting" /\ upset[m] = {} => Granted(m)

\* The address a client configured is leased to it, with the same proviso.
LeaseHeld ==
  \A m \in Mac : client[m].pc = "bound" /\ upset[m] = {} => Granted(m)

\* A client is turned away, its DISCOVER dropped or its REQUEST refused, only
\* when every address is leased to another one: no release, retry or restart
\* before makes the server believe the pool empty when it is not.
TurnedAwayOnlyWhenFull ==
  [][\A p \in net : ~Got(p.mac) /\ (HandleDiscover(p) \/ HandleRequest(p)) =>
       \A i \in Ip : \E m \in DOMAIN assigned : m # p.mac /\ assigned[m] = i]_vars

=============================================================================
