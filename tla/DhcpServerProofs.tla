-------------------------- MODULE DhcpServerProofs --------------------------
(***************************************************************************)
(* Theorems about DhcpServer, for any clients, range of addresses and      *)
(* transaction numbers, any number of launches, and a network that loses,  *)
(* delays, repeats and reorders packets as it likes.                       *)
(***************************************************************************)
EXTENDS DhcpServer, IpPoolProofs

-----------------------------------------------------------------------------
(* The inductive invariant.                                                *)

Transaction(m) == ~Idle(m)

\* A client has a number of its own: all that was sent with it, the client sent.
ClientsInv ==
  \A m \in Mac : Transaction(m) =>
    /\ client[m].xid \in Xid
    /\ \E q \in net : q.xid = client[m].xid
    /\ \A q \in net : q.xid = client[m].xid => q.mac = m

\* the server's table gives m the address i
Gives(m, i) == m \in DOMAIN assigned /\ assigned[m] = i

\* A reply in the air answers a packet, and the address it names is leased to
\* the client whose transaction it belongs to, unless the server upset that.
AirInv ==
  \A p \in air :
    /\ \E q \in net : q.xid = p.xid
    /\ \A m \in Mac :
         p.type # "NAK" /\ Transaction(m) /\ client[m].xid = p.xid /\ upset[m] = {}
           => Gives(m, p.ip)

Inv == TypeOK /\ PoolInv /\ ClientsInv /\ AirInv /\ OfferHeld /\ LeaseHeld

ClientRecord == [pc: {"idle", "selecting", "requesting", "bound"},
                 xid: Xid \cup {NoXid}, ip: Ip \cup {NoIp}]

\* What the invariant says of single clients, packets and variables.
LEMMA Fields ==
  ASSUME TypeOK
  PROVE  /\ client \in [Mac -> ClientRecord] /\ upset \in [Mac -> SUBSET {"release", "restart"}]
         /\ \A m \in Mac : client[m] \in ClientRecord
         /\ \A p \in net : /\ p \in ClientPacket /\ p.mac \in Mac
                           /\ p.type \in {"DISCOVER", "REQUEST"} => p.xid \in AnyXid
         /\ \A p \in air : p \in ServerPacket /\ p.xid \in AnyXid /\ p.ip \in Ip \cup {NoIp}
<1>1. client \in [Mac -> ClientRecord] /\ upset \in [Mac -> SUBSET {"release", "restart"}]
  BY DEF TypeOK, ClientRecord
<1>2. \A p \in net : /\ p \in ClientPacket /\ p.mac \in Mac
                     /\ p.type \in {"DISCOVER", "REQUEST"} => p.xid \in AnyXid
  BY DEF TypeOK, ClientPacket
<1>3. \A p \in air : p \in ServerPacket /\ p.xid \in AnyXid /\ p.ip \in Ip \cup {NoIp}
  BY DEF TypeOK, ServerPacket
<1> QED
  BY <1>1, <1>2, <1>3

-----------------------------------------------------------------------------
(* The server's steps.                                                     *)

\* allocate takes nothing from anybody, and release only from its client.
LEMMA AllocateKeeps ==
  ASSUME NEW m \in Mac, Allocate(m), NEW n \in Mac, NEW i, Gives(n, i)
  PROVE  Gives(n, i)'
<1>1. CASE NothingToAllocate(m)
  BY <1>1 DEF Allocate, poolVars, Gives
<1>2. CASE ~NothingToAllocate(m)
  BY <1>2 DEF Allocate, NothingToAllocate, Put, Gives
<1> QED
  BY <1>1, <1>2

LEMMA ReleaseKeeps ==
  ASSUME NEW m \in Mac, Release(m), NEW n \in Mac \ {m}, NEW i, Gives(n, i)
  PROVE  Gives(n, i)'
BY DEF Release, Pop, Gives

LEMMA InitInv == Init => Inv
<1> SUFFICES ASSUME Init PROVE Inv
  OBVIOUS
<1>1. PoolInv /\ PoolTypeOK
  BY PoolInitInv DEF Init, PoolInv
<1>2. \A m \in Mac : client[m] = NoTransaction
  BY DEF Init
<1>3. \A m \in Mac : Idle(m) /\ client[m].pc = "idle"
  BY <1>2 DEF NoTransaction, Idle
<1>4. TypeOK
  BY <1>1 DEF Init, TypeOK, NoTransaction
<1>5. OfferHeld /\ LeaseHeld
  BY <1>3 DEF OfferHeld, LeaseHeld
<1>6. ClientsInv /\ AirInv
  BY <1>3 DEF Init, ClientsInv, AirInv, Transaction
<1> QED
  BY <1>1, <1>4, <1>5, <1>6 DEF Inv

\* What a DISCOVER or a REQUEST does: an address may be lent, and the reply
\* carries the number of the packet and the address its client has.
LEMMA HandleAsk ==
  ASSUME Inv, NEW p \in net, HandleDiscover(p) \/ HandleRequest(p)
  PROVE  /\ Allocate(p.mac) /\ upset' = upset /\ PoolInv'
         /\ air \subseteq air'
         /\ \A r \in air' : r \notin air =>
              /\ r \in ServerPacket /\ r.xid = p.xid
              /\ r.type # "NAK" => Gives(p.mac, r.ip)'
<1>1. p.mac \in Mac /\ p.xid \in AnyXid
  BY Fields DEF Inv, HandleDiscover, HandleRequest
<1>2. Allocate(p.mac) /\ upset' = upset
  BY DEF HandleDiscover, HandleRequest
<1>3. PoolInv'
  BY <1>1, <1>2, AllocateInv DEF Inv
<1>4. Got(p.mac) => /\ assigned'[p.mac] \in Ip
                    /\ \A i : i = assigned'[p.mac] => Gives(p.mac, i)'
  <2>1. DictType(assigned, Mac, Ip)'
    BY <1>3 DEF PoolInv, PoolTypeOK
  <2> QED
    BY <2>1 DEF DictType, Got, Gives
<1>5. \/ air' = air
      \/ /\ Got(p.mac)
         /\ \E t \in {"OFFER", "ACK"} :
              air' = air \cup {[type |-> t, xid |-> p.xid, ip |-> assigned'[p.mac]]}
      \/ air' = air \cup {[type |-> "NAK", xid |-> p.xid, ip |-> NoIp]}
  BY DEF HandleDiscover, HandleRequest, Reply
<1>6. \A r \in air' : r \notin air =>
        /\ r \in ServerPacket /\ r.xid = p.xid
        /\ r.type # "NAK" => Gives(p.mac, r.ip)'
  <2>1. CASE air' = air
    BY <2>1
  <2>2. ASSUME Got(p.mac), NEW t \in {"OFFER", "ACK"},
               air' = air \cup {[type |-> t, xid |-> p.xid, ip |-> assigned'[p.mac]]}
        PROVE  \A r \in air' : r \notin air =>
                 /\ r \in ServerPacket /\ r.xid = p.xid
                 /\ r.type # "NAK" => Gives(p.mac, r.ip)'
    <3>1. \A r \in air' : r \notin air =>
            r = [type |-> t, xid |-> p.xid, ip |-> assigned'[p.mac]]
      BY <2>2
    <3>2. assigned'[p.mac] \in Ip
      BY <1>4, <2>2
    <3>3. [type |-> t, xid |-> p.xid, ip |-> assigned'[p.mac]] \in ServerPacket
      BY <1>1, <3>2 DEF ServerPacket
    <3> QED
      BY <1>4, <2>2, <3>1, <3>3
  <2>3. CASE air' = air \cup {[type |-> "NAK", xid |-> p.xid, ip |-> NoIp]}
    BY <1>1, <2>3 DEF ServerPacket
  <2> QED
    BY <1>5, <2>1, <2>2, <2>3
<1> QED
  BY <1>2, <1>3, <1>5, <1>6

LEMMA HandleInv == ASSUME Inv, NEW p \in net, HandlePacket(p) PROVE Inv'
<1>1. p.mac \in Mac /\ TypeOK /\ PoolInv /\ client' = client /\ net' = net /\ launches' = launches
  BY Fields DEF Inv, HandlePacket
<1>2. CASE HandleDiscover(p) \/ HandleRequest(p)
  <2>1. /\ Allocate(p.mac) /\ upset' = upset /\ PoolInv' /\ PoolTypeOK'
        /\ \A r \in air' : r \notin air =>
             /\ r \in ServerPacket /\ r.xid = p.xid
             /\ r.type # "NAK" => Gives(p.mac, r.ip)'
    BY <1>2, HandleAsk DEF PoolInv
  <2>2. TypeOK'
    BY <1>1, <2>1 DEF TypeOK
  <2>3. ClientsInv'
    BY <1>1 DEF Inv, ClientsInv, Transaction, Idle
  <2>4. \A m \in Mac, i \in Ip \cup {NoIp} : Gives(m, i) => Gives(m, i)'
    BY <1>1, <2>1, AllocateKeeps
  <2>5. ASSUME NEW r \in air'
        PROVE  /\ \E q \in net' : q.xid = r.xid
               /\ \A m \in Mac : /\ r.type # "NAK" /\ Transaction(m)'
                                 /\ client'[m].xid = r.xid /\ upset'[m] = {}
                    => Gives(m, r.ip)'
    <3>1. CASE r \in air
      BY <1>1, <2>1, <2>4, <3>1, Fields DEF Inv, AirInv, Transaction, Idle
    <3>2. CASE r \notin air
      BY <1>1, <2>1, <3>2 DEF Inv, ClientsInv, Transaction, Idle
    <3> QED
      BY <3>1, <3>2
  <2>6. AirInv'
    BY <2>5 DEF AirInv
  <2>7. ASSUME NEW m \in Mac, Granted(m) PROVE Granted(m)'
    <3>1. Gives(m, client[m].ip)
      BY <2>7 DEF Granted, Gives
    <3>2. Gives(m, client[m].ip)'
      BY <1>1, <2>1, <3>1, AllocateKeeps DEF Gives
    <3> QED
      BY <3>2 DEF Granted, Gives
  <2>8. OfferHeld' /\ LeaseHeld'
    BY <1>1, <2>1, <2>7 DEF Inv, OfferHeld, LeaseHeld
  <2> QED
    BY <2>1, <2>2, <2>3, <2>6, <2>8 DEF Inv
<1>3. CASE HandleRelease(p)
  <2>1. Release(p.mac) /\ air' = air
    BY <1>3 DEF HandleRelease
  <2>2. PoolInv' /\ PoolTypeOK'
    BY <1>1, <2>1, ReleaseInv DEF PoolInv
  <2>3. /\ upset' \in [Mac -> SUBSET {"release", "restart"}]
        /\ \A m \in Mac : upset'[m] = {} => upset[m] = {} /\ (m # p.mac \/ Idle(m))
    BY <1>1, <1>3 DEF TypeOK, HandleRelease
  <2>4. TypeOK'
    BY <1>1, <2>1, <2>2, <2>3 DEF TypeOK
  <2>5. ClientsInv'
    BY <1>1 DEF Inv, ClientsInv, Transaction, Idle
  <2>6. \A m \in Mac \ {p.mac}, i \in Ip \cup {NoIp} : Gives(m, i) => Gives(m, i)'
    BY <1>1, <2>1, ReleaseKeeps
  <2>7. AirInv'
    BY <1>1, <2>1, <2>3, <2>6, Fields DEF Inv, AirInv, Transaction, Idle
  <2>8. ASSUME NEW m \in Mac, ~Idle(m), upset'[m] = {}, Granted(m) PROVE Granted(m)'
    <3>1. Gives(m, client[m].ip) /\ client[m].ip \in Ip \cup {NoIp} /\ m # p.mac
      BY <1>1, <2>3, <2>8, Fields DEF Granted, Gives, ClientRecord
    <3> QED
      BY <1>1, <2>6, <3>1 DEF Granted, Gives
  <2>9. OfferHeld' /\ LeaseHeld'
    BY <1>1, <2>3, <2>8 DEF Inv, OfferHeld, LeaseHeld, Idle
  <2> QED
    BY <2>2, <2>4, <2>5, <2>7, <2>9 DEF Inv
<1> QED
  BY <1>2, <1>3 DEF HandlePacket

\* After a restart nothing is leased, and every client that is not idle was upset.
LEMMA RelaunchInv == ASSUME Inv, Relaunch PROVE Inv'
<1>1. PoolInit'
  BY DEF Relaunch, PoolInit
<1>2. PoolInv' /\ PoolTypeOK'
  <2>1. (PoolInit => PoolInv)'
    BY PoolInitInv, PTL
  <2> QED
    BY <1>1, <2>1 DEF PoolInv
<1>3. /\ upset' \in [Mac -> SUBSET {"release", "restart"}]
      /\ \A m \in Mac : upset'[m] = {} => Idle(m)
      /\ client' = client /\ net' = net /\ air' = air /\ launches' \in Nat
  <2>1. /\ upset' = [m \in Mac |-> IF Idle(m) THEN {} ELSE upset[m] \cup {"restart"}]
        /\ client' = client /\ net' = net /\ air' = air /\ launches' \in Nat
        /\ upset \in [Mac -> SUBSET {"release", "restart"}]
    BY DEF Relaunch, Inv, TypeOK
  <2>2. ASSUME NEW m \in Mac
        PROVE  upset'[m] \in SUBSET {"release", "restart"} /\ (upset'[m] = {} => Idle(m))
    <3>1. CASE Idle(m)
      BY <2>1, <3>1
    <3>2. CASE ~Idle(m)
      BY <2>1, <3>2
    <3> QED
      BY <3>1, <3>2
  <2> QED
    BY <2>1, <2>2
<1>4. TypeOK'
  BY <1>2, <1>3 DEF Inv, TypeOK
<1> QED
  BY <1>2, <1>3, <1>4 DEF Inv, ClientsInv, AirInv, Transaction, Idle, OfferHeld, LeaseHeld

-----------------------------------------------------------------------------
(* The clients' steps.                                                     *)

\* A client starts a transaction with a number nothing carries yet.
LEMMA DiscoverInv ==
  ASSUME Inv, NEW m \in Mac, NEW x \in Xid, Discover(m, x)
  PROVE  Inv'
<1> DEFINE q == [type |-> "DISCOVER", mac |-> m, xid |-> x]
<1>1. /\ TypeOK /\ Idle(m) /\ \A p \in net : p.xid # x
      /\ net' = net \cup {q} /\ air' = air /\ launches' = launches /\ upset' = upset
      /\ available' = available /\ assigned' = assigned
      /\ client' = [client EXCEPT ![m] = [pc |-> "selecting", xid |-> x, ip |-> NoIp]]
  BY DEF Inv, Discover, Send, poolVars
<1>2. /\ client'[m] = [pc |-> "selecting", xid |-> x, ip |-> NoIp]
      /\ \A n \in Mac \ {m} : client'[n] = client[n]
      /\ client' \in [Mac -> ClientRecord]
  BY <1>1, Fields DEF ClientRecord
<1>3. PoolInv' /\ PoolTypeOK'
  BY <1>1 DEF Inv, PoolInv, PoolTypeOK, NoSharedLease, PoolConserved, Listed, Leased
<1>4. q \in ClientPacket
  BY DEF ClientPacket, AnyXid
<1>5. TypeOK'
  BY <1>1, <1>2, <1>3, <1>4 DEF TypeOK, ClientRecord
<1>6. ClientsInv'
  <2>1. ASSUME NEW n \in Mac \ {m}, Transaction(n)'
        PROVE  /\ client'[n].xid \in Xid
               /\ \E r \in net' : r.xid = client'[n].xid
               /\ \A r \in net' : r.xid = client'[n].xid => r.mac = n
    <3>1. Transaction(n) /\ client'[n].xid = client[n].xid
      BY <1>2, <2>1 DEF Transaction, Idle
    <3>2. client[n].xid # x
      BY <1>1, <3>1 DEF Inv, ClientsInv
    <3> QED
      BY <1>1, <3>1, <3>2 DEF Inv, ClientsInv
  <2>2. /\ client'[m].xid \in Xid
        /\ \E r \in net' : r.xid = client'[m].xid
        /\ \A r \in net' : r.xid = client'[m].xid => r.mac = m
    <3>1. client'[m].xid = x /\ q.xid = x /\ q.mac = m /\ q \in net'
      BY <1>1, <1>2
    <3>2. \A r \in net' : r.xid = x => r = q
      BY <1>1
    <3> QED
      BY <3>1, <3>2
  <2> QED
    BY <2>1, <2>2 DEF ClientsInv
<1>7. AirInv'
  <2>1. \A r \in air : r.xid # x /\ \E p \in net : p.xid = r.xid
    BY <1>1 DEF Inv, AirInv
  <2>2. \A n \in Mac, r \in air : Transaction(n)' /\ client'[n].xid = r.xid =>
          Transaction(n) /\ client[n].xid = r.xid
    BY <1>2, <2>1 DEF Transaction, Idle
  <2> QED
    BY <1>1, <2>1, <2>2 DEF Inv, AirInv, Gives
<1>8. OfferHeld' /\ LeaseHeld'
  BY <1>1, <1>2 DEF Inv, OfferHeld, LeaseHeld, Granted
<1> QED
  BY <1>3, <1>5, <1>6, <1>7, <1>8 DEF Inv

\* It requests what it was offered: the table gives it that.
LEMMA RecvOfferInv ==
  ASSUME Inv, NEW m \in Mac, NEW p \in air, RecvOffer(m, p)
  PROVE  Inv'
<1> DEFINE q == [type |-> "REQUEST", mac |-> m, xid |-> p.xid]
<1>1. /\ TypeOK /\ client[m].pc = "selecting" /\ p.type = "OFFER" /\ p.xid = client[m].xid
      /\ net' = net \cup {q} /\ air' = air /\ launches' = launches /\ upset' = upset
      /\ available' = available /\ assigned' = assigned
      /\ client' = [client EXCEPT ![m].pc = "requesting", ![m].ip = p.ip]
  BY DEF Inv, RecvOffer, Send, poolVars
<1>2. /\ client'[m].pc = "requesting" /\ client'[m].ip = p.ip /\ client'[m].xid = client[m].xid
      /\ \A n \in Mac \ {m} : client'[n] = client[n]
      /\ client' \in [Mac -> ClientRecord]
      /\ Transaction(m) /\ p.xid \in AnyXid
  BY <1>1, Fields DEF ClientRecord, Transaction, Idle
<1>3. PoolInv' /\ PoolTypeOK'
  BY <1>1 DEF Inv, PoolInv, PoolTypeOK, NoSharedLease, PoolConserved, Listed, Leased
<1>4. q \in ClientPacket
  BY <1>2 DEF ClientPacket
<1>5. TypeOK'
  BY <1>1, <1>2, <1>3, <1>4 DEF TypeOK, ClientRecord
<1>6. \A n \in Mac : client'[n].xid = client[n].xid /\ (Transaction(n)' <=> Transaction(n))
  BY <1>2 DEF Transaction, Idle
<1>7. ClientsInv'
  <2>1. \A n \in Mac : Transaction(n) /\ client[n].xid = p.xid => n = m
    BY <1>1, <1>2 DEF Inv, ClientsInv
  <2> QED
    BY <1>1, <1>2, <1>6, <2>1 DEF Inv, ClientsInv
<1>8. AirInv'
  <2>1. ASSUME NEW r \in air
        PROVE  /\ \E s \in net' : s.xid = r.xid
               /\ \A n \in Mac : /\ r.type # "NAK" /\ Transaction(n)'
                                 /\ client'[n].xid = r.xid /\ upset'[n] = {}
                    => Gives(n, r.ip)'
    <3>1. \A n \in Mac : Gives(n, r.ip)' <=> Gives(n, r.ip)
      BY <1>1 DEF Gives
    <3>2. \E s \in net : s.xid = r.xid
      BY DEF Inv, AirInv
    <3>3. \A n \in Mac : /\ r.type # "NAK" /\ Transaction(n)
                         /\ client[n].xid = r.xid /\ upset[n] = {}
                    => Gives(n, r.ip)
      BY DEF Inv, AirInv
    <3> QED
      BY <1>1, <1>6, <3>1, <3>2, <3>3
  <2> QED
    BY <1>1, <2>1 DEF AirInv
<1>9. upset[m] = {} => Gives(m, p.ip)
  BY <1>1, <1>2 DEF Inv, AirInv
<1>10. OfferHeld' /\ LeaseHeld'
  BY <1>1, <1>2, <1>9 DEF Inv, OfferHeld, LeaseHeld, Granted, Gives
<1> QED
  BY <1>3, <1>5, <1>7, <1>8, <1>10 DEF Inv

\* It configures what the ACK says: the table gives it that.
LEMMA RecvAckInv ==
  ASSUME Inv, NEW m \in Mac, NEW p \in air, RecvAck(m, p)
  PROVE  Inv'
<1>1. /\ TypeOK /\ client[m].pc = "requesting" /\ p.type = "ACK" /\ p.xid = client[m].xid
      /\ net' = net /\ air' = air /\ launches' = launches /\ upset' = upset
      /\ available' = available /\ assigned' = assigned
      /\ client' = [client EXCEPT ![m].pc = "bound", ![m].ip = p.ip]
  BY DEF Inv, RecvAck, poolVars
<1>2. /\ client'[m].pc = "bound" /\ client'[m].ip = p.ip /\ client'[m].xid = client[m].xid
      /\ \A n \in Mac \ {m} : client'[n] = client[n]
      /\ client' \in [Mac -> ClientRecord] /\ Transaction(m)
  BY <1>1, Fields DEF ClientRecord, Transaction, Idle
<1>3. PoolInv' /\ PoolTypeOK'
  BY <1>1 DEF Inv, PoolInv, PoolTypeOK, NoSharedLease, PoolConserved, Listed, Leased
<1>4. TypeOK'
  BY <1>1, <1>2, <1>3 DEF TypeOK, ClientRecord
<1>5. \A n \in Mac : client'[n].xid = client[n].xid /\ (Transaction(n)' <=> Transaction(n))
  BY <1>2 DEF Transaction, Idle
<1>6. ClientsInv' /\ AirInv'
  <2>1. ClientsInv'
    <3>1. ClientsInv /\ net' = net
      BY <1>1 DEF Inv
    <3> QED
      BY <1>5, <3>1 DEF ClientsInv
  <2>2. \A n \in Mac, i \in Ip \cup {NoIp} : Gives(n, i)' <=> Gives(n, i)
    BY <1>1 DEF Gives
  <2>3. \A r \in air : r.ip \in Ip \cup {NoIp}
    BY <1>1, Fields
  <2>4. AirInv
    BY DEF Inv
  <2>5. AirInv'
    BY <1>1, <1>5, <2>2, <2>3, <2>4 DEF AirInv
  <2> QED
    BY <2>1, <2>5
<1>7. upset[m] = {} => Gives(m, p.ip)
  BY <1>1, <1>2 DEF Inv, AirInv
<1>8. OfferHeld' /\ LeaseHeld'
  BY <1>1, <1>2, <1>7 DEF Inv, OfferHeld, LeaseHeld, Granted, Gives
<1> QED
  BY <1>3, <1>4, <1>6, <1>8 DEF Inv

\* The end of a transaction.
LEMMA StopInv ==
  ASSUME Inv, NEW m \in Mac, Stop(m),
         net' \in {net, net \cup {[type |-> "RELEASE", mac |-> m, xid |-> NoXid]}}
  PROVE  Inv'
<1>1. /\ TypeOK /\ air' = air /\ launches' = launches
      /\ available' = available /\ assigned' = assigned
      /\ client' = [client EXCEPT ![m] = NoTransaction]
      /\ upset' = [upset EXCEPT ![m] = {}]
  BY DEF Inv, Stop, poolVars
<1>2. /\ client'[m] = NoTransaction /\ client' \in [Mac -> ClientRecord]
      /\ \A n \in Mac \ {m} : client'[n] = client[n] /\ upset'[n] = upset[n]
      /\ upset' \in [Mac -> SUBSET {"release", "restart"}]
  <2>1. NoTransaction \in ClientRecord
    BY DEF NoTransaction, ClientRecord
  <2> QED
    BY <1>1, <2>1, Fields
<1>3. PoolInv' /\ PoolTypeOK'
  BY <1>1 DEF Inv, PoolInv, PoolTypeOK, NoSharedLease, PoolConserved, Listed, Leased
<1>4. TypeOK'
  <2>1. [type |-> "RELEASE", mac |-> m, xid |-> NoXid] \in ClientPacket
    BY DEF ClientPacket
  <2> QED
    BY <1>1, <1>2, <1>3, <2>1 DEF TypeOK, ClientRecord
<1>5. \A n \in Mac : Transaction(n)' => Transaction(n) /\ n # m
  BY <1>2 DEF Transaction, Idle, NoTransaction
<1>6. ClientsInv'
  <2>1. ASSUME NEW n \in Mac, Transaction(n)' PROVE client[n].xid \in Xid /\ client[n].xid # NoXid
    BY <1>5, <2>1, DhcpAssumption DEF Inv, ClientsInv
  <2> QED
    BY <1>2, <1>5, <2>1 DEF Inv, ClientsInv
<1>7. AirInv'
  BY <1>1, <1>2, <1>5 DEF Inv, AirInv, Gives
<1>8. OfferHeld' /\ LeaseHeld'
  BY <1>1, <1>2 DEF Inv, OfferHeld, LeaseHeld, Granted, NoTransaction
<1> QED
  BY <1>3, <1>4, <1>6, <1>7, <1>8 DEF Inv

\* The example asks with a number that no client draws.
LEMMA DemoInv == ASSUME Inv, Demo PROVE Inv'
<1> DEFINE q == [type |-> "DISCOVER", mac |-> DemoMac, xid |-> DemoXid]
<1>1. /\ TypeOK /\ net' = net \cup {q} /\ air' = air /\ launches' = launches
      /\ upset' = upset /\ client' = client
      /\ available' = available /\ assigned' = assigned
  BY DEF Inv, Demo, Send, poolVars
<1>2. q \in ClientPacket /\ q.xid = DemoXid
  BY DhcpAssumption DEF ClientPacket, AnyXid
<1> HIDE DEF q
<1>3. PoolInv' /\ PoolTypeOK'
  BY <1>1 DEF Inv, PoolInv, PoolTypeOK, NoSharedLease, PoolConserved, Listed, Leased
<1>4. TypeOK'
  BY <1>1, <1>2, <1>3 DEF TypeOK
<1>5. ClientsInv'
  <2>1. \A m \in Mac : Transaction(m) => client[m].xid # q.xid
    BY <1>2, DhcpAssumption DEF Inv, ClientsInv
  <2> QED
    BY <1>1, <2>1 DEF Inv, ClientsInv, Transaction, Idle
<1>6. AirInv'
  BY <1>1 DEF Inv, AirInv, Transaction, Idle, Gives
<1>7. OfferHeld' /\ LeaseHeld'
  BY <1>1 DEF Inv, OfferHeld, LeaseHeld, Granted
<1> QED
  BY <1>3, <1>4, <1>5, <1>6, <1>7 DEF Inv

LEMMA NextInv == Inv /\ [Next]_vars => Inv'
<1> SUFFICES ASSUME Inv, [Next]_vars PROVE Inv'
  OBVIOUS
<1>1. CASE UNCHANGED vars
  <2>1. PoolInv' /\ PoolTypeOK'
    BY <1>1 DEF vars, poolVars, Inv, PoolInv, PoolTypeOK, NoSharedLease, PoolConserved,
       Listed, Leased
  <2>2. TypeOK'
    BY <1>1, <2>1 DEF vars, Inv, TypeOK
  <2> QED
    BY <1>1, <2>1, <2>2 DEF vars, poolVars, Inv, ClientsInv, AirInv, OfferHeld, LeaseHeld,
       Granted, Gives, Transaction, Idle
<1>2. ASSUME NEW m \in Mac, ClientStep(m) PROVE Inv'
  <2>1. ASSUME NEW p \in air, RecvNak(m, p) PROVE Inv'
    BY <2>1, StopInv DEF RecvNak
  <2>2. CASE GiveUp(m)
    BY <2>2, StopInv DEF GiveUp
  <2>3. CASE GiveBack(m)
    BY <2>3, StopInv DEF GiveBack, Send
  <2> QED
    BY <1>2, <2>1, <2>2, <2>3, DiscoverInv, RecvOfferInv, RecvAckInv DEF ClientStep
<1> QED
  BY <1>1, <1>2, HandleInv, RelaunchInv, DemoInv DEF Next

-----------------------------------------------------------------------------
(* The theorems.                                                           *)

\* The inductive invariant of the Discover-Offer-Request-Acknowledge cycle.
THEOREM DhcpInvariance == Spec => []Inv
BY InitInv, NextInv, PTL DEF Spec

\* The pool, the clients and the packets stay in their types.
THEOREM DhcpTypeCorrect == Spec => []TypeOK
<1>1. Inv => TypeOK
  BY DEF Inv
<1> QED
  BY <1>1, DhcpInvariance, PTL

\* An offered address is kept for the client while it requests it.
THEOREM OffersAreHeld == Spec => []OfferHeld
<1>1. Inv => OfferHeld
  BY DEF Inv
<1> QED
  BY <1>1, DhcpInvariance, PTL

\* What a client configured is leased to it.
THEOREM LeasesAreHeld == Spec => []LeaseHeld
<1>1. Inv => LeaseHeld
  BY DEF Inv
<1> QED
  BY <1>1, DhcpInvariance, PTL

\* The server keeps the pool's promises through every launch.
THEOREM ServerKeepsPool == Spec => [](NoSharedLease /\ PoolConserved)
<1>1. Inv => NoSharedLease /\ PoolConserved
  BY DEF Inv, PoolInv
<1> QED
  BY <1>1, DhcpInvariance, PTL

\* A DISCOVER is dropped or a REQUEST refused only when all addresses are
\* leased to others.
THEOREM RefusedOnlyWhenFull == Spec => TurnedAwayOnlyWhenFull
<1>1. ASSUME Inv, NEW p \in net, ~Got(p.mac), HandleDiscover(p) \/ HandleRequest(p),
             NEW i \in Ip
      PROVE  \E m \in DOMAIN assigned : m # p.mac /\ assigned[m] = i
  <2>1. NothingToAllocate(p.mac)
    <3>1. ASSUME ~NothingToAllocate(p.mac) PROVE p.mac \in DOMAIN assigned'
      BY <1>1, <3>1 DEF HandleDiscover, HandleRequest, Allocate, Put
    <3> QED
      BY <1>1, <3>1 DEF Got
  <2>2. p.mac \notin DOMAIN assigned /\ available = <<>>
    BY <1>1, <2>1 DEF HandleDiscover, HandleRequest, Allocate, NothingToAllocate,
       poolVars, Got
  <2>3. ~Listed(i)
    BY <2>2 DEF Listed
  <2>4. Leased(i)
    BY <1>1, <2>3 DEF Inv, PoolInv, PoolConserved
  <2> QED
    BY <2>2, <2>4 DEF Leased
<1>2. Inv /\ [Next]_vars =>
        [\A p \in net : ~Got(p.mac) /\ (HandleDiscover(p) \/ HandleRequest(p)) =>
           \A i \in Ip : \E m \in DOMAIN assigned : m # p.mac /\ assigned[m] = i]_vars
  BY <1>1
<1> QED
  BY <1>2, DhcpInvariance, PTL DEF Spec, TurnedAwayOnlyWhenFull

\* The server, restarts included, implements the lease table.
THEOREM ServerRefinesTable == Spec => ImplementsLeaseTable
<1>1. Init => Table!Init
  BY DEF Init, PoolInit, EmptyDict, Leases, Table!Init
<1>2. Inv /\ [Next]_vars => [Table!Next]_Leases
  <2> SUFFICES ASSUME Inv, [Next]_vars PROVE [Table!Next]_Leases
    OBVIOUS
  <2>1. CASE assigned' = assigned
    BY <2>1 DEF Leases
  <2>2. ASSUME NEW p \in net, HandlePacket(p) PROVE [Table!Next]_Leases
    <3>1. p.mac \in Mac /\ PoolInv
      BY Fields DEF Inv
    <3>2. Allocate(p.mac) \/ Release(p.mac)
      BY <2>2 DEF HandlePacket, HandleDiscover, HandleRequest, HandleRelease
    <3> QED
      BY <3>1, <3>2, AllocateRefines, ReleaseRefines
  <2>3. CASE Relaunch
    BY <2>3 DEF Relaunch, EmptyDict, Leases, Table!Next, Table!Reset
  <2>4. ASSUME NEW m \in Mac, ClientStep(m) PROVE assigned' = assigned
    BY <2>4 DEF ClientStep, Discover, RecvOffer, RecvAck, RecvNak, GiveUp, GiveBack, Stop,
       poolVars
  <2>5. CASE Demo
    BY <2>5 DEF Demo, poolVars, Leases
  <2> QED
    BY <2>1, <2>2, <2>3, <2>4, <2>5 DEF Next, vars, poolVars
<1> QED
  BY <1>1, <1>2, DhcpInvariance, PTL DEF Spec, Table!Spec, ImplementsLeaseTable

=============================================================================
