----------------------------- MODULE RudpProofs -----------------------------
(***************************************************************************)
(* Theorems about Rudp, for every set of addresses, calls and workers,     *)
(* every size of the sequence space and every retry limit.                 *)
(***************************************************************************)
EXTENDS Rudp, TLAPS

Finite == INSTANCE FiniteSetTheorems

USE DEF Seqs

-----------------------------------------------------------------------------
(* Sequence numbers, dictionaries and bags.                                *)

\* (seq + 1) % 256 is a sequence number.
LEMMA SuccType == ASSUME NEW s \in Seqs PROVE Succ(s) \in Seqs
BY RudpAssumption DEF Succ

\* Two sequence numbers with the same successor are equal: a response number
\* tells which request number it belongs to.
LEMMA SuccInjective ==
  ASSUME NEW s \in Seqs, NEW t \in Seqs, Succ(s) = Succ(t)
  PROVE  s = t
<1>1. SeqMod \in Nat /\ SeqMod > 1
  BY RudpAssumption
<1>2. \A u \in Seqs : Succ(u) = IF u = SeqMod - 1 THEN 0 ELSE u + 1
  BY <1>1 DEF Succ
<1> QED
  BY <1>1, <1>2

\* d[k] = v keeps a dictionary's type.
LEMMA PutType ==
  ASSUME NEW K, NEW V, NEW d, DictType(d, K, V), NEW k \in K, NEW v \in V
  PROVE  /\ DictType(Put(d, k, v), K, V)
         /\ DOMAIN Put(d, k, v) = DOMAIN d \cup {k}
         /\ Put(d, k, v)[k] = v
         /\ \A x \in DOMAIN d : x # k => Put(d, k, v)[x] = d[x]
BY DEF DictType, Put

\* So does d.pop(k, None).
LEMMA PopType ==
  ASSUME NEW K, NEW V, NEW d, DictType(d, K, V), NEW k
  PROVE  /\ DictType(Pop(d, k), K, V)
         /\ DOMAIN Pop(d, k) = DOMAIN d \ {k}
         /\ \A x \in DOMAIN d : x # k => Pop(d, k)[x] = d[x]
BY DEF DictType, Pop

\* A bag gains the element that is added, once, and nothing else.
LEMMA BagAddType ==
  ASSUME NEW S, NEW b, BagType(b, S), NEW x \in S
  PROVE  /\ BagType(BagAdd(b, x), S)
         /\ DOMAIN BagAdd(b, x) = DOMAIN b \cup {x}
         /\ \A y \in DOMAIN b : y # x => BagAdd(b, x)[y] = b[y]
         /\ BagAdd(b, x)[x] = IF x \in DOMAIN b THEN b[x] + 1 ELSE 1
BY DEF BagType, DictType, BagAdd

LEMMA BagAddDomain ==
  ASSUME NEW b, NEW x
  PROVE  /\ DOMAIN BagAdd(b, x) = DOMAIN b \cup {x}
         /\ x \in DOMAIN BagAdd(b, x)
         /\ DOMAIN b \subseteq DOMAIN BagAdd(b, x)
BY DEF BagAdd

\* Removing an element leaves a bag of elements that were there.
LEMMA BagRemoveType ==
  ASSUME NEW S, NEW b, BagType(b, S), NEW x
  PROVE  /\ BagType(BagRemove(b, x), S)
         /\ DOMAIN BagRemove(b, x) \subseteq DOMAIN b
BY DEF BagType, DictType, BagRemove

-----------------------------------------------------------------------------
(* Type correctness.                                                       *)

Busy == [pc: WorkerPc \ {"free"}, attempt: 0 .. ServerRetries, addr: Addr,
         seq: Seqs, body: Call]

\* A worker that is not free has the fields of its request.
LEMMA WorkerBusy ==
  ASSUME TypeOK, NEW w \in Worker, ~FreeWorker(w)
  PROVE  worker[w] \in Busy
BY DEF TypeOK, FreeWorker, Ended, Busy

LEMMA WorkerMoves ==
  ASSUME TypeOK, NEW w \in Worker, NEW v \in Busy \cup {Ended}
  PROVE  [worker EXCEPT ![w] = v] \in [Worker -> {Ended} \cup Busy]
BY DEF TypeOK, Busy

\* a packet the server or a client makes
LEMMA MadePackets ==
  ASSUME NEW a \in Addr, NEW s \in Seqs
  PROVE  /\ \A to \in {"server", "client"} : Ack(to, a, s) \in Packet
         /\ \A to \in {"server", "client"}, r \in Call \cup {NoCall} :
              Data(to, a, s, r) \in Packet
BY DEF Packet, Ack, Data

\* The fields of a packet in flight.
LEMMA PacketFields ==
  ASSUME TypeOK, NEW p \in InFlight
  PROVE  /\ p \in Packet /\ p.addr \in Addr /\ p.seq \in Seqs
         /\ BagType(BagRemove(net, p), Packet)
<1>1. BagType(net, Packet) BY DEF TypeOK
<1>2. p \in Packet BY <1>1 DEF BagType, DictType, InFlight
<1>3. BagType(BagRemove(net, p), Packet) BY <1>1, BagRemoveType
<1> QED BY <1>2, <1>3 DEF Packet

LEMMA TypeInit == Init => TypeOK
<1> SUFFICES ASSUME Init PROVE TypeOK
  OBVIOUS
<1>1. 0 \in Seqs
  BY RudpAssumption
<1>2. client \in [Addr -> [pc: ClientPc, seq: Seqs, call: Call \cup {NoCall},
                          attempt: 0 .. ClientRetries, opened: Nat]]
  BY <1>1, RudpAssumption DEF Init, ClientPc
<1>3. worker \in [Worker -> {Ended}]
  BY DEF Init
<1> QED
  BY <1>2, <1>3 DEF Init, TypeOK, DictType, BagType, EmptyDict

USE DEF clientVars, tableVars, countVars, procVars, netVars

ClientRecord == [pc: ClientPc, seq: Seqs, call: Call \cup {NoCall},
                 attempt: 0 .. ClientRetries, opened: Nat]

\* The steps of a client keep the types: they change client, log and net.
LEMMA TypeClient ==
  ASSUME TypeOK, Provenance, NEW a \in Addr,
         \/ NewClient(a) \/ Close(a) \/ ClientStep(a)
         \/ \E r \in Call : SendRequest(a, r)
         \/ \E p \in InFlight : ClientRecv(a, p)
  PROVE  TypeOK'
<1>0. /\ client[a] \in ClientRecord /\ client \in [Addr -> ClientRecord]
      /\ BagType(net, Packet) /\ DictType(log, Call, Entry)
  BY DEF TypeOK, ClientRecord
<1>a. /\ 0 \in Seqs /\ 0 \in 0 .. ClientRetries /\ 1 \in 0 .. ClientRetries
      /\ NoCall \in Call \cup {NoCall}
      /\ \A n \in 0 .. ClientRetries :
           n < ClientRetries => n + 1 \in 0 .. ClientRetries
      /\ \A n \in Nat : n + 1 \in Nat
  BY RudpAssumption
<1>b. {"idle", "sending", "phase1", "phase2", "closed"} \subseteq ClientPc
  BY DEF ClientPc
<1>1. ASSUME client' \in [Addr -> ClientRecord], DictType(log', Call, Entry),
             BagType(net', Packet),
             UNCHANGED <<tableVars, worker, countVars, procVars, dups>>
      PROVE  TypeOK'
  BY <1>1 DEF TypeOK, ClientRecord
<1>2. ASSUME Calling(a), Fail(a)
      PROVE  client' \in [Addr -> ClientRecord] /\ DictType(log', Call, Entry)
  BY <1>0, <1>a, <1>b, <1>2 DEF ClientRecord, Fail, DictType, Entry
<1>3. CASE NewClient(a)
  BY <1>0, <1>a, <1>b, <1>1, <1>3 DEF NewClient, ClientRecord
<1>4. CASE Close(a)
  BY <1>0, <1>b, <1>1, <1>4 DEF Close, ClientRecord
<1>5. CASE Transmit(a)
  BY <1>0, <1>b, <1>1, <1>5, MadePackets, BagAddType DEF Transmit, ClientRecord
<1>6. CASE TransmitRaises(a)
  BY <1>0, <1>1, <1>2, <1>6 DEF TransmitRaises, Calling
<1>7. CASE TimeoutPhase1(a)
  BY <1>0, <1>a, <1>b, <1>1, <1>2, <1>7 DEF TimeoutPhase1, Calling, NextRound, ClientRecord
<1>8. CASE TimeoutPhase2(a)
  BY <1>0, <1>1, <1>2, <1>8 DEF TimeoutPhase2, Calling
<1>9. ASSUME NEW r \in Call, SendRequest(a, r) PROVE TypeOK'
  <2>1. DictType(log', Call, Entry)
    BY <1>0, <1>9, PutType DEF SendRequest, Entry, ClientRecord
  <2> QED
    BY <1>0, <1>a, <1>b, <1>1, <1>9, <2>1 DEF SendRequest, ClientRecord
<1>10. ASSUME NEW p \in InFlight, ClientRecv(a, p) PROVE TypeOK'
  <2>1. BagType(BagRemove(net, p), Packet) /\ p.seq \in Seqs /\ p \in Packet
    BY PacketFields
  <2>2. CASE RecvPhase1(a, p)
    BY <1>0, <1>b, <1>1, <2>1, <2>2 DEF RecvPhase1, ClientRecord
  <2>3. CASE RecvResponse(a, p)
    <3>1. BagType(net', Packet)
      BY <2>1, <2>3, MadePackets, BagAddType DEF RecvResponse
    <3>2. p.body \in Call \cup {NoCall} /\ Succ(p.seq) \in Seqs
      BY <2>1, SuccType DEF Packet
    <3>3. client' \in [Addr -> ClientRecord]
      BY <1>0, <1>a, <1>b, <3>2, <2>3 DEF RecvResponse, ClientRecord
    <3>4. DictType(log', Call, Entry)
      BY <1>0, <3>2, <2>3 DEF RecvResponse, DictType, Entry
    <3> QED
      BY <1>1, <2>3, <3>1, <3>3, <3>4 DEF RecvResponse
  <2>4. CASE RecvResponseAckRaises(a, p)
    BY <1>0, <1>1, <1>2, <2>1, <2>4 DEF RecvResponseAckRaises, Calling
  <2>5. CASE DropPhase2(a, p)
    BY <1>0, <1>b, <1>1, <2>1, <2>5 DEF DropPhase2, ClientRecord
  <2> QED
    BY <1>10, <2>2, <2>3, <2>4, <2>5 DEF ClientRecv
<1> QED
  BY <1>3, <1>4, <1>5, <1>6, <1>7, <1>8, <1>9, <1>10 DEF ClientStep

\* The steps of the worker threads keep the types.
LEMMA TypeWorker ==
  ASSUME TypeOK, Provenance, NEW w \in Worker, WorkerStep(w)
  PROVE  TypeOK'
<1>0. /\ worker \in [Worker -> {Ended} \cup Busy] /\ BagType(net, Packet)
      /\ BagType(accepted, Call) /\ BagType(executed, Call)
      /\ DictType(last_seq, Addr, Seqs)
      /\ DictType(ack_events, Addr \X Seqs, Worker)
      /\ signalled \subseteq Worker
  BY DEF TypeOK, Busy
<1>a. /\ ~FreeWorker(w) /\ worker[w] \in Busy
      /\ worker[w].addr \in Addr /\ worker[w].seq \in Seqs
      /\ Succ(worker[w].seq) \in Seqs /\ worker[w].body \in Call
  <2>1. ~FreeWorker(w)
    BY DEF WorkerStep, FreeWorker, Check, Record, Process, ProcessRaises,
           SendResponse, Register, WaitReturns, Delivered, NotDelivered
  <2> QED
    BY <2>1, WorkerBusy, SuccType DEF Busy
<1>b. /\ 1 \in 0 .. ServerRetries
      /\ \A n \in 0 .. ServerRetries :
           n < ServerRetries => n + 1 \in 0 .. ServerRetries
  BY RudpAssumption
<1>c. {"record", "process", "send", "register", "wait", "popTrue", "popFalse"}
        \subseteq WorkerPc \ {"free"}
  BY DEF WorkerPc
<1>1. ASSUME NEW p \in Packet, SafeSend(p) PROVE BagType(net', Packet)
  BY <1>0, <1>1, BagAddType DEF SafeSend
<1>2. ASSUME worker' \in [Worker -> {Ended} \cup Busy], BagType(net', Packet),
             BagType(accepted', Call), BagType(executed', Call),
             DictType(last_seq', Addr, Seqs),
             DictType(ack_events', Addr \X Seqs, Worker),
             signalled' \subseteq Worker,
             UNCHANGED <<clientVars, procVars, dups>>
      PROVE  TypeOK'
  BY <1>2 DEF TypeOK, Busy
<1>3. ASSUME PopKey(w)
      PROVE  /\ DictType(ack_events', Addr \X Seqs, Worker)
             /\ signalled' \subseteq Worker
  BY <1>0, <1>3, PopType DEF PopKey
<1>4. CASE Check(w)
  <2>1. Ack("client", worker[w].addr, worker[w].seq) \in Packet
    BY <1>a, MadePackets
  <2>2. BagType(net', Packet)
    BY <1>0, <1>1, <1>4, <2>1 DEF Check
  <2>3. worker' \in [Worker -> {Ended} \cup Busy]
    BY <1>0, <1>a, <1>c, <1>4 DEF Check, Busy
  <2> QED
    BY <1>0, <1>2, <1>4, <2>2, <2>3 DEF Check
<1>5. CASE Record(w)
  <2>1. Ack("client", worker[w].addr, worker[w].seq) \in Packet
    BY <1>a, MadePackets
  <2>2. BagType(net', Packet)
    BY <1>1, <1>5, <2>1 DEF Record
  <2>3. worker' \in [Worker -> {Ended} \cup Busy]
    BY <1>0, <1>a, <1>c, <1>5 DEF Record, Busy
  <2>4. DictType(last_seq', Addr, Seqs)
    BY <1>0, <1>a, <1>5, PutType DEF Record
  <2>5. BagType(accepted', Call)
    BY <1>0, <1>a, <1>5, BagAddType DEF Record
  <2> QED
    BY <1>0, <1>2, <1>5, <2>2, <2>3, <2>4, <2>5 DEF Record
<1>6. CASE Process(w)
  <2>1. worker' \in [Worker -> {Ended} \cup Busy]
    BY <1>0, <1>a, <1>b, <1>c, <1>6 DEF Process, Busy
  <2>2. BagType(executed', Call)
    BY <1>0, <1>a, <1>6, BagAddType DEF Process
  <2> QED
    BY <1>0, <1>2, <1>6, <2>1, <2>2 DEF Process
<1>7. CASE ProcessRaises(w)
  BY <1>0, <1>2, <1>7 DEF ProcessRaises
<1>8. CASE SendResponse(w)
  <2>1. Data("client", worker[w].addr, Succ(worker[w].seq), worker[w].body) \in Packet
    BY <1>a, MadePackets
  <2>2. BagType(net', Packet)
    BY <1>1, <1>8, <2>1 DEF SendResponse
  <2>3. worker' \in [Worker -> {Ended} \cup Busy]
    BY <1>0, <1>a, <1>c, <1>8 DEF SendResponse, Busy
  <2> QED
    BY <1>0, <1>2, <1>8, <2>2, <2>3 DEF SendResponse
<1>9. CASE Register(w)
  <2>1. worker' \in [Worker -> {Ended} \cup Busy]
    BY <1>0, <1>a, <1>c, <1>9 DEF Register, Busy
  <2>2. DictType(ack_events', Addr \X Seqs, Worker)
    BY <1>0, <1>a, <1>9, PutType DEF Register, AckKey
  <2> QED
    BY <1>0, <1>2, <1>9, <2>1, <2>2 DEF Register
<1>10. CASE WaitReturns(w)
  <2>1. worker' \in [Worker -> {Ended} \cup Busy]
    BY <1>0, <1>a, <1>c, <1>10 DEF WaitReturns, Busy
  <2> QED
    BY <1>0, <1>2, <1>10, <2>1 DEF WaitReturns
<1>11. CASE Delivered(w)
  BY <1>0, <1>2, <1>3, <1>11 DEF Delivered
<1>12. CASE NotDelivered(w)
  <2>1. NextAttempt(w) \in [Worker -> {Ended} \cup Busy]
        \/ ~(worker[w].attempt < ServerRetries)
    BY <1>0, <1>a, <1>b, <1>c DEF NextAttempt, Busy
  <2>2. worker' \in [Worker -> {Ended} \cup Busy]
    BY <1>0, <1>12, <2>1 DEF NotDelivered
  <2> QED
    BY <1>0, <1>2, <1>3, <1>12, <2>2 DEF NotDelivered
<1> QED
  BY <1>4, <1>5, <1>6, <1>7, <1>8, <1>9, <1>10, <1>11, <1>12 DEF WorkerStep

\* So do the listener, the process and the network.
LEMMA TypeRest ==
  ASSUME TypeOK, Provenance,
         \/ \E p \in InFlight :
              \/ ListenAck(p) \/ Lose(p) \/ Duplicate(p)
              \/ \E w \in Worker : ListenData(p, w)
         \/ ListenerExits \/ Shutdown \/ Relaunch \/ Restart
  PROVE  TypeOK'
<1>1. ASSUME NEW p \in InFlight, ListenAck(p) PROVE TypeOK'
  <2>1. BagType(net', Packet) /\ listening' \in BOOLEAN
    BY <1>1, PacketFields DEF ListenAck, ListenerTakes, TypeOK
  <2>2. signalled' \subseteq Worker
    BY <1>1 DEF ListenAck, EventsOf, TypeOK, DictType
  <2> QED
    BY <1>1, <2>1, <2>2 DEF ListenAck, TypeOK
<1>2. ASSUME NEW p \in InFlight, NEW w \in Worker, ListenData(p, w) PROVE TypeOK'
  <2>1. BagType(net', Packet) /\ listening' \in BOOLEAN
    BY <1>2, PacketFields DEF ListenData, ListenerTakes, TypeOK
  <2>2. p.addr \in Addr /\ p.seq \in Seqs /\ p.body \in Call
    BY <1>2, PacketFields DEF ListenData, ListenerTakes, Provenance, PacketTraces,
       HasSlot, TypeOK, DictType
  <2>3. 0 \in 0 .. ServerRetries /\ "check" \in WorkerPc \ {"free"}
    BY RudpAssumption DEF WorkerPc
  <2>4. worker' \in [Worker -> {Ended} \cup Busy]
    BY <1>2, <2>2, <2>3 DEF ListenData, TypeOK, Busy
  <2> QED
    BY <1>2, <2>1, <2>4 DEF ListenData, TypeOK, Busy
<1>3. ASSUME NEW p \in InFlight, Lose(p) PROVE TypeOK'
  BY <1>3, PacketFields DEF Lose, TypeOK
<1>4. ASSUME NEW p \in InFlight, Duplicate(p) PROVE TypeOK'
  <2>1. BagType(net', Packet)
    BY <1>4, PacketFields, BagAddType DEF Duplicate, TypeOK
  <2> QED
    BY <1>4, <2>1 DEF Duplicate, TypeOK
<1>5. CASE ListenerExits
  BY <1>5 DEF ListenerExits, TypeOK
<1>6. CASE Shutdown
  BY <1>6 DEF Shutdown, TypeOK
<1>7. CASE Restart
  BY <1>7 DEF Restart, TypeOK
<1>8. CASE Relaunch
  <2>1. worker' \in [Worker -> {Ended} \cup Busy]
    BY <1>8 DEF Relaunch
  <2> QED
    BY <1>8, <2>1 DEF Relaunch, TypeOK, Busy, DictType, EmptyDict
<1> QED
  BY <1>1, <1>2, <1>3, <1>4, <1>5, <1>6, <1>7, <1>8

\* Every step keeps the types, given that packets trace to calls.
LEMMA TypeNext == TypeOK /\ Provenance /\ [Next]_vars => TypeOK'
<1> SUFFICES ASSUME TypeOK, Provenance, [Next]_vars PROVE TypeOK'
  OBVIOUS
<1>1. CASE UNCHANGED vars
  BY <1>1 DEF vars, TypeOK
<1>2. CASE Next
  BY <1>2, TypeClient, TypeWorker, TypeRest DEF Next
<1> QED
  BY <1>1, <1>2

-----------------------------------------------------------------------------
(* Provenance.                                                             *)

\* A step forgets no call, no slot of a call, no answer and no acceptance.
Persists ==
  /\ \A r \in DOMAIN log :
       /\ r \in DOMAIN log'
       /\ log'[r].addr = log[r].addr /\ log'[r].seq = log[r].seq
       /\ log[r].outcome \in Received =>
            log'[r].outcome \in Received /\ log'[r].answer = log[r].answer
  /\ DOMAIN accepted \subseteq DOMAIN accepted'
  /\ DOMAIN executed \subseteq DOMAIN executed'

LEMMA SlotsPersist ==
  ASSUME Persists
  PROVE  /\ \A r, a, s : HasSlot(r, a, s) => HasSlot(r, a, s)'
         /\ \A a, s : AcceptedSlot(a, s) => AcceptedSlot(a, s)'
         /\ \A a, s : AnsweredSlot(a, s) => AnsweredSlot(a, s)'
BY DEF Persists, HasSlot, AcceptedSlot, AnsweredSlot

LEMMA PacketsPersist ==
  ASSUME Persists, NEW p \in Packet, PacketTraces(p)
  PROVE  PacketTraces(p)'
BY SlotsPersist DEF Persists, PacketTraces, Packet

\* A step that makes the packet q, or none, keeps the packets' origins.
LEMMA PacketsTraceNext ==
  ASSUME TypeOK, Provenance, Persists, NEW q \in Packet,
         InFlight' \subseteq InFlight \cup {q},
         q \in InFlight' => q \in InFlight \/ PacketTraces(q)'
  PROVE  \A p \in InFlight' : PacketTraces(p)'
BY PacketFields, PacketsPersist DEF Provenance

Inv == TypeOK /\ Provenance /\ NoEventLeak

\* The calls of two clients differ.
LEMMA CallsDiffer ==
  ASSUME Provenance, NEW a \in Addr, NEW b \in Addr, Calling(a), Calling(b),
         client[a].call = client[b].call
  PROVE  a = b
BY DEF Provenance, ClientTraces, HasSlot

\* What a step of client a leaves alone, and what it may do to its call r.
LEMMA ClientFrame ==
  ASSUME Inv, NEW a \in Addr,
         \/ NewClient(a) \/ Close(a) \/ ClientStep(a)
         \/ \E r \in Call : SendRequest(a, r)
         \/ \E p \in InFlight : ClientRecv(a, p)
  PROVE  /\ UNCHANGED <<tableVars, worker, countVars, procVars, dups>>
         /\ \A b \in Addr \ {a} : client'[b] = client[b]
         /\ \A r \in DOMAIN log : r # client[a].call => r \in DOMAIN log' /\ log'[r] = log[r]
         /\ Persists
<1>0. client \in [Addr -> ClientRecord]
  BY DEF Inv, TypeOK, ClientRecord
<1>1. ASSUME UNCHANGED log, UNCHANGED countVars PROVE Persists
  BY <1>1 DEF Persists
<1>2. ASSUME Calling(a), Fail(a), UNCHANGED countVars
      PROVE  /\ \A b \in Addr \ {a} : client'[b] = client[b]
             /\ \A r \in DOMAIN log : r # client[a].call => r \in DOMAIN log' /\ log'[r] = log[r]
             /\ Persists
  <2>1. client[a].call \in DOMAIN log /\ log[client[a].call].outcome = "pending"
        /\ log[client[a].call] \in Entry
    BY <1>2 DEF Inv, Provenance, ClientTraces, HasSlot, TypeOK, DictType
  <2>2. DOMAIN log' = DOMAIN log
        /\ \A r \in DOMAIN log : r # client[a].call => log'[r] = log[r]
    BY <1>2 DEF Fail
  <2>3. log'[client[a].call] = [log[client[a].call] EXCEPT !.outcome = "failed"]
    BY <1>2, <2>1 DEF Fail
  <2>4. log'[client[a].call].addr = log[client[a].call].addr
        /\ log'[client[a].call].seq = log[client[a].call].seq
    BY <2>1, <2>3 DEF Entry
  <2> QED
    BY <1>0, <1>2, <2>1, <2>2, <2>4 DEF Fail, Persists, Received
<1>3. CASE NewClient(a)
  BY <1>0, <1>1, <1>3 DEF NewClient
<1>4. CASE Close(a)
  BY <1>0, <1>1, <1>4 DEF Close
<1>5. CASE Transmit(a)
  BY <1>0, <1>1, <1>5 DEF Transmit
<1>6. CASE TransmitRaises(a)
  BY <1>2, <1>6 DEF TransmitRaises, Calling
<1>7. CASE TimeoutPhase1(a)
  BY <1>0, <1>1, <1>2, <1>7 DEF TimeoutPhase1, Calling, NextRound
<1>8. CASE TimeoutPhase2(a)
  BY <1>2, <1>8 DEF TimeoutPhase2, Calling
<1>9. ASSUME NEW r \in Call, SendRequest(a, r)
      PROVE  /\ UNCHANGED <<tableVars, worker, countVars, procVars, dups>>
             /\ \A b \in Addr \ {a} : client'[b] = client[b]
             /\ \A q \in DOMAIN log : q \in DOMAIN log' /\ log'[q] = log[q]
             /\ Persists
  BY <1>0, <1>9 DEF SendRequest, Put, Persists
<1>10. ASSUME NEW p \in InFlight, ClientRecv(a, p)
       PROVE  /\ UNCHANGED <<tableVars, worker, countVars, procVars, dups>>
              /\ \A b \in Addr \ {a} : client'[b] = client[b]
              /\ \A r \in DOMAIN log : r # client[a].call => r \in DOMAIN log' /\ log'[r] = log[r]
              /\ Persists
  <2>1. CASE RecvPhase1(a, p)
    BY <1>0, <1>1, <2>1 DEF RecvPhase1
  <2>2. CASE RecvResponse(a, p)
    <3>1. client[a].call \in DOMAIN log /\ log[client[a].call].outcome = "pending"
          /\ log[client[a].call] \in Entry
      BY <2>2 DEF RecvResponse, Calling, Inv, Provenance, ClientTraces, HasSlot, TypeOK, DictType
    <3>2. DOMAIN log' = DOMAIN log
          /\ \A r \in DOMAIN log : r # client[a].call => log'[r] = log[r]
      BY <2>2 DEF RecvResponse
    <3>3. log'[client[a].call].addr = log[client[a].call].addr
          /\ log'[client[a].call].seq = log[client[a].call].seq
      BY <2>2, <3>1 DEF RecvResponse, Entry
    <3> QED
      BY <1>0, <2>2, <3>1, <3>2, <3>3 DEF RecvResponse, Persists, Received
  <2>3. CASE RecvResponseAckRaises(a, p)
    BY <1>2, <2>3 DEF RecvResponseAckRaises, Calling
  <2>4. CASE DropPhase2(a, p)
    BY <1>1, <2>4 DEF DropPhase2
  <2> QED
    BY <1>10, <2>1, <2>2, <2>3, <2>4 DEF ClientRecv
<1> QED
  BY <1>3, <1>4, <1>5, <1>6, <1>7, <1>8, <1>9, <1>10 DEF ClientStep

\* Client a's own record still traces to its call, and the packet it sends to
\* the call it is in.
LEMMA ClientOwnTrace ==
  ASSUME Inv, NEW a \in Addr, Persists,
         \/ NewClient(a) \/ Close(a) \/ ClientStep(a)
         \/ \E r \in Call : SendRequest(a, r)
         \/ \E p \in InFlight : ClientRecv(a, p)
  PROVE  /\ ClientTraces(a)'
         /\ \A p \in InFlight' : PacketTraces(p)'
         /\ AnswersTrace'
<1>0. /\ client \in [Addr -> ClientRecord] /\ client[a] \in ClientRecord
      /\ BagType(net, Packet) /\ DictType(log, Call, Entry)
      /\ ClientTraces(a) /\ AnswersTrace
      /\ \A q \in DOMAIN executed : q \in DOMAIN log
  BY DEF Inv, Provenance, TypeOK, ClientRecord, TablesTrace
<1>1. ASSUME DOMAIN net' \subseteq DOMAIN net
      PROVE  \A p \in InFlight' : PacketTraces(p)'
  BY <1>1, PacketFields, PacketsPersist DEF InFlight, Inv, Provenance
<1>2. \A p \in InFlight : DOMAIN BagRemove(net, p) \subseteq DOMAIN net
  BY <1>0, BagRemoveType
<1>3. ASSUME UNCHANGED log, UNCHANGED countVars PROVE AnswersTrace'
  BY <1>0, <1>3 DEF AnswersTrace, SameSlot
<1>4. ASSUME Calling(a), Fail(a), UNCHANGED countVars
      PROVE  ClientTraces(a)' /\ AnswersTrace'
  <2>1. client[a].call \in DOMAIN log /\ log[client[a].call] \in Entry
    BY <1>0, <1>4 DEF ClientTraces, HasSlot, DictType
  <2>2. /\ DOMAIN log' = DOMAIN log
        /\ \A r \in DOMAIN log : r # client[a].call => log'[r] = log[r]
        /\ log'[client[a].call].outcome = "failed"
        /\ \A r \in DOMAIN log : log'[r].addr = log[r].addr /\ log'[r].seq = log[r].seq
    BY <1>4, <2>1, <1>0 DEF Fail, DictType, Entry
  <2>3. AnswersTrace'
    <3> SUFFICES ASSUME NEW u \in DOMAIN log', log'[u].outcome \in Received
                 PROVE  /\ log'[u].answer \in DOMAIN executed'
                        /\ log'[u].addr = log'[log'[u].answer].addr
                        /\ log'[u].seq = log'[log'[u].answer].seq
      BY DEF AnswersTrace, SameSlot
    <3>1. u \in DOMAIN log /\ log'[u] = log[u]
      BY <2>2 DEF Received
    <3> QED
      BY <1>0, <1>4, <2>2, <3>1 DEF AnswersTrace, SameSlot
  <2>4. client'[a].pc = "idle" /\ client'[a].call = NoCall
    BY <1>0, <1>4 DEF Fail, ClientRecord
  <2> QED
    BY <2>3, <2>4 DEF ClientTraces, Calling
<1>5. CASE NewClient(a)
  <2>1. client'[a].pc = "idle" /\ client'[a].call = NoCall
    BY <1>0, <1>5 DEF NewClient, ClientRecord, ClientTraces, Calling
  <2> QED
    BY <1>1, <1>3, <1>5, <2>1 DEF NewClient, ClientTraces, Calling
<1>6. CASE Close(a)
  <2>1. client'[a].pc = "closed" /\ client'[a].call = NoCall
    BY <1>0, <1>6 DEF Close, ClientRecord, ClientTraces, Calling
  <2> QED
    BY <1>1, <1>3, <1>6, <2>1 DEF Close, ClientTraces, Calling
<1>7. CASE Transmit(a)
  <2>0. PICK q : q = Data("server", a, client[a].seq, client[a].call)
    OBVIOUS
  <2>1. HasSlot(client[a].call, a, client[a].seq) /\ q \in Packet
    BY <1>0, <1>7, <2>0, MadePackets DEF Transmit, ClientTraces, Calling, ClientRecord
  <2>2. DOMAIN net' = DOMAIN net \cup {q}
    <3>1. net' = BagAdd(net, q)
      BY <1>7, <2>0 DEF Transmit
    <3> QED
      BY <3>1, BagAddDomain
  <2>3. PacketTraces(q)'
    <3>1. HasSlot(q.body, q.addr, q.seq) /\ q.to = "server" /\ q.flags = "DATA"
      BY <2>0, <2>1 DEF Data
    <3> QED
      BY <3>1, SlotsPersist DEF PacketTraces
  <2>4. \A p \in InFlight' : PacketTraces(p)'
    BY <2>1, <2>2, <2>3, PacketsTraceNext DEF InFlight, Inv
  <2>5. client'[a] = [client[a] EXCEPT !.pc = "phase1"]
    BY <1>0, <1>7 DEF Transmit
  <2>6. ClientTraces(a)'
    BY <1>0, <1>7, <2>5 DEF Transmit, ClientTraces, Calling, ClientRecord, HasSlot
  <2> QED
    BY <1>3, <1>7, <2>4, <2>6 DEF Transmit
<1>8. CASE TransmitRaises(a)
  BY <1>1, <1>4, <1>8 DEF TransmitRaises, Calling
<1>9. CASE TimeoutPhase1(a)
  <2>1. CASE client' = NextRound(a) /\ UNCHANGED log
    <3>1. client'[a] = [client[a] EXCEPT !.pc = "sending", !.attempt = @ + 1]
      BY <1>0, <2>1 DEF NextRound
    <3>2. ClientTraces(a)'
      BY <1>0, <1>9, <2>1, <3>1 DEF TimeoutPhase1, ClientTraces, Calling, ClientRecord, HasSlot
    <3> QED
      BY <1>1, <1>3, <1>9, <2>1, <3>2 DEF TimeoutPhase1
  <2>2. CASE Fail(a)
    BY <1>1, <1>4, <1>9, <2>2 DEF TimeoutPhase1, Calling
  <2> QED
    BY <1>9, <2>1, <2>2 DEF TimeoutPhase1
<1>10. CASE TimeoutPhase2(a)
  BY <1>1, <1>4, <1>10 DEF TimeoutPhase2, Calling
<1>11. ASSUME NEW r \in Call, SendRequest(a, r)
       PROVE  /\ ClientTraces(a)' /\ AnswersTrace'
              /\ \A p \in InFlight' : PacketTraces(p)'
  <2>1. /\ log'[r] = [addr |-> a, seq |-> client[a].seq,
                      outcome |-> "pending", answer |-> NoCall]
        /\ DOMAIN log' = DOMAIN log \cup {r}
        /\ \A q \in DOMAIN log : log'[q] = log[q]
    BY <1>11 DEF SendRequest, Put
  <2>2. /\ client'[a].pc = "sending" /\ client'[a].call = r
        /\ client'[a].seq = client[a].seq
    BY <1>0, <1>11 DEF SendRequest, ClientRecord
  <2>3. ClientTraces(a)'
    BY <2>1, <2>2 DEF ClientTraces, Calling, HasSlot
  <2>4. executed' = executed
    BY <1>11 DEF SendRequest
  <2>5. AnswersTrace'
    <3> SUFFICES ASSUME NEW u \in DOMAIN log', log'[u].outcome \in Received
                 PROVE  /\ log'[u].answer \in DOMAIN executed'
                        /\ log'[u].addr = log'[log'[u].answer].addr
                        /\ log'[u].seq = log'[log'[u].answer].seq
      BY DEF AnswersTrace, SameSlot
    <3>1. u \in DOMAIN log /\ log'[u] = log[u]
      BY <2>1 DEF Received
    <3> QED
      BY <1>0, <2>1, <2>4, <3>1 DEF AnswersTrace, SameSlot
  <2> QED
    BY <1>1, <1>11, <2>3, <2>5 DEF SendRequest
<1>12. ASSUME NEW p \in InFlight, RecvPhase1(a, p)
       PROVE  /\ ClientTraces(a)' /\ AnswersTrace'
              /\ \A q \in InFlight' : PacketTraces(q)'
  <2>1. CASE IsAck(a, p)
    <3>1. AcceptedSlot(a, client[a].seq)
      BY <1>12, <2>1, PacketFields DEF RecvPhase1, IsAck, Inv, Provenance, PacketTraces
    <3>2. client'[a] = [client[a] EXCEPT !.pc = "phase2"]
      BY <1>0, <1>12, <2>1 DEF RecvPhase1
    <3>3. AcceptedSlot(a, client[a].seq)'
      BY <1>12, <3>1 DEF RecvPhase1, AcceptedSlot, HasSlot, IsAck
    <3> QED
      BY <1>0, <1>1, <1>2, <1>3, <1>12, <3>1, <3>2
         DEF RecvPhase1, ClientTraces, Calling, ClientRecord, HasSlot, AcceptedSlot
  <2>2. CASE ~IsAck(a, p)
    BY <1>0, <1>1, <1>2, <1>3, <1>12, <2>2
       DEF RecvPhase1, ClientTraces, Calling, HasSlot, AcceptedSlot
  <2> QED
    BY <2>1, <2>2
<1>13. ASSUME NEW p \in InFlight, RecvResponse(a, p)
       PROVE  /\ ClientTraces(a)' /\ AnswersTrace'
              /\ \A q \in InFlight' : PacketTraces(q)'
  <2> DEFINE c == client[a].call
  <2>0. PICK k : k = Ack("server", a, p.seq)
    OBVIOUS
  <2>1. /\ p \in Packet /\ p.seq \in Seqs /\ BagType(BagRemove(net, p), Packet)
        /\ DOMAIN BagRemove(net, p) \subseteq DOMAIN net /\ k \in Packet
    BY <1>2, <2>0, PacketFields, MadePackets DEF Inv
  <2>2. /\ HasSlot(c, a, client[a].seq) /\ log[c] \in Entry
        /\ client[a].seq \in Seqs
    BY <1>0, <1>13 DEF RecvResponse, ClientTraces, Calling, HasSlot, DictType, ClientRecord
  <2>3. PICK s \in Seqs : /\ p.body \in DOMAIN executed
                          /\ HasSlot(p.body, a, s) /\ p.seq = Succ(s)
    BY <1>13 DEF RecvResponse, IsResponse, Inv, Provenance, PacketTraces
  <2>4. s = client[a].seq
    BY <1>13, <2>2, <2>3, SuccInjective DEF RecvResponse, IsResponse
  <2>5. /\ DOMAIN log' = DOMAIN log
        /\ \A r \in DOMAIN log : r # c => log'[r] = log[r]
        /\ log'[c].outcome \in Received /\ log'[c].answer = p.body
        /\ \A r \in DOMAIN log : log'[r].addr = log[r].addr /\ log'[r].seq = log[r].seq
    <3>1. PICK o \in Received :
            log' = [log EXCEPT ![c].outcome = o, ![c].answer = p.body]
      BY <1>13 DEF RecvResponse
    <3>2. c \in DOMAIN log /\ log[c] \in Entry
      BY <2>2 DEF HasSlot
    <3>3. /\ DOMAIN log' = DOMAIN log
          /\ \A r \in DOMAIN log : r # c => log'[r] = log[r]
      BY <3>1
    <3>4. log'[c] = [log[c] EXCEPT !.outcome = o, !.answer = p.body]
      BY <3>1, <3>2
    <3>5. /\ log'[c].outcome = o /\ log'[c].answer = p.body
          /\ log'[c].addr = log[c].addr /\ log'[c].seq = log[c].seq
      BY <3>2, <3>4 DEF Entry
    <3> QED
      BY <3>3, <3>5
  <2>6. AnswersTrace'
    <3> SUFFICES ASSUME NEW u \in DOMAIN log', log'[u].outcome \in Received
                 PROVE  /\ log'[u].answer \in DOMAIN executed'
                        /\ log'[u].addr = log'[log'[u].answer].addr
                        /\ log'[u].seq = log'[log'[u].answer].seq
      BY DEF AnswersTrace, SameSlot
    <3>1. executed' = executed
      BY <1>13 DEF RecvResponse
    <3>2. CASE u = c
      BY <2>2, <2>3, <2>4, <2>5, <3>1, <3>2 DEF SameSlot, HasSlot
    <3>3. CASE u # c
      BY <1>0, <2>5, <3>1, <3>3 DEF AnswersTrace, SameSlot
    <3> QED
      BY <3>2, <3>3
  <2>7. PacketTraces(k)'
    <3>1. \E r \in DOMAIN log' : /\ r \in DOMAIN log' /\ log'[r].addr = a /\ log'[r].seq = s
                                 /\ log'[r].outcome \in Received
      BY <2>2, <2>4, <2>5 DEF HasSlot
    <3>2. AnsweredSlot(a, s)'
      BY <3>1 DEF AnsweredSlot, HasSlot
    <3>3. k.to = "server" /\ k.flags = "ACK" /\ k.addr = a /\ k.seq = Succ(s)
      BY <2>0, <2>3 DEF Ack
    <3>4. PacketTraces(k)'
      BY <3>2, <3>3 DEF PacketTraces
    <3> QED
      BY <3>4
  <2>8. DOMAIN net' = DOMAIN BagRemove(net, p) \cup {k}
    <3>1. net' = BagAdd(BagRemove(net, p), k)
      BY <1>13, <2>0 DEF RecvResponse
    <3> QED
      BY <3>1, BagAddDomain
  <2>9. \A q \in InFlight' : PacketTraces(q)'
    BY <2>1, <2>7, <2>8, PacketsTraceNext DEF InFlight, Inv
  <2>10. client'[a].pc = "idle" /\ client'[a].call = NoCall
    BY <1>0, <1>13 DEF RecvResponse, ClientRecord
  <2> QED
    BY <2>6, <2>9, <2>10 DEF ClientTraces, Calling
<1>14. ASSUME NEW p \in InFlight, RecvResponseAckRaises(a, p)
       PROVE  /\ ClientTraces(a)' /\ AnswersTrace'
              /\ \A q \in InFlight' : PacketTraces(q)'
  BY <1>1, <1>2, <1>4, <1>14 DEF RecvResponseAckRaises, Calling
<1>15. ASSUME NEW p \in InFlight, DropPhase2(a, p)
       PROVE  /\ ClientTraces(a)' /\ AnswersTrace'
              /\ \A q \in InFlight' : PacketTraces(q)'
  BY <1>0, <1>1, <1>2, <1>3, <1>15
     DEF DropPhase2, ClientTraces, Calling, HasSlot, AcceptedSlot
<1> QED
  BY <1>5, <1>6, <1>7, <1>8, <1>9, <1>10, <1>11, <1>12, <1>13, <1>14, <1>15
     DEF ClientStep, ClientRecv

\* A thread that a step leaves alone still traces to its call.
LEMMA WorkersPersist ==
  ASSUME Persists, NEW w \in Worker, worker'[w] = worker[w], WorkerTraces(w)
  PROVE  WorkerTraces(w)'
<1>1. FreeWorker(w)' <=> FreeWorker(w)
  BY DEF FreeWorker
<1>2. PICK r, a, s, pc : /\ r = worker[w].body /\ a = worker[w].addr
                         /\ s = worker[w].seq /\ pc = worker[w].pc
  OBVIOUS
<1>3. r = worker'[w].body /\ a = worker'[w].addr /\ s = worker'[w].seq /\ pc = worker'[w].pc
  BY <1>2
<1>4. ASSUME ~FreeWorker(w)
      PROVE  /\ HasSlot(r, a, s)'
             /\ pc \notin {"check", "record"} => r \in DOMAIN accepted'
             /\ pc \notin {"check", "record", "process"} => r \in DOMAIN executed'
             /\ pc = "popTrue" => AnsweredSlot(a, s)'
  BY <1>2, <1>4, SlotsPersist DEF WorkerTraces, Persists
<1> QED
  BY <1>1, <1>3, <1>4 DEF WorkerTraces, HasSlot, AnsweredSlot

\* The steps of a client keep the invariant.
LEMMA ClientInv ==
  ASSUME Inv, NEW a \in Addr,
         \/ NewClient(a) \/ Close(a) \/ ClientStep(a)
         \/ \E r \in Call : SendRequest(a, r)
         \/ \E p \in InFlight : ClientRecv(a, p)
  PROVE  Inv'
<1>1. /\ UNCHANGED <<tableVars, worker, countVars, procVars, dups>>
      /\ \A b \in Addr \ {a} : client'[b] = client[b]
      /\ \A r \in DOMAIN log : r # client[a].call => r \in DOMAIN log' /\ log'[r] = log[r]
      /\ Persists
  BY ClientFrame
<1>2. TypeOK'
  BY TypeClient DEF Inv
<1>3. /\ ClientTraces(a)' /\ AnswersTrace'
      /\ \A p \in InFlight' : PacketTraces(p)'
  BY <1>1, ClientOwnTrace
<1>4. ASSUME NEW b \in Addr \ {a} PROVE ClientTraces(b)'
  <2>1. ClientTraces(b)
    BY DEF Inv, Provenance
  <2>2. client'[b] = client[b]
    BY <1>1
  <2>3. ASSUME Calling(b) PROVE client[b].call # client[a].call
    <3>1. CASE Calling(a)
      BY <2>3, <3>1, CallsDiffer DEF Inv
    <3>2. CASE ~Calling(a)
      BY <2>3, <3>2, <2>1, RudpAssumption
         DEF Inv, Provenance, ClientTraces, HasSlot, TypeOK, DictType
    <3> QED
      BY <3>1, <3>2
  <2>4. Calling(b)' <=> Calling(b)
    BY <2>2 DEF Calling
  <2>5. Calling(b) => /\ HasSlot(client[b].call, b, client[b].seq)'
                      /\ log'[client[b].call].outcome = "pending"
    BY <1>1, <2>1, <2>2, <2>3 DEF ClientTraces, HasSlot
  <2>6. client[b].pc = "phase2" =>
          \E r \in DOMAIN accepted' : HasSlot(r, b, client[b].seq)'
    BY <1>1, <2>1, <2>2, SlotsPersist DEF ClientTraces, AcceptedSlot, Persists, HasSlot
  <2> QED
    BY <2>1, <2>2, <2>4, <2>5, <2>6 DEF ClientTraces, HasSlot, AcceptedSlot
<1>5. \A w \in Worker : WorkerTraces(w)'
  BY <1>1, WorkersPersist DEF Inv, Provenance
<1>6. TablesTrace'
  <2>1. TablesTrace
    BY DEF Inv, Provenance
  <2>2. \A w \in signalled' : /\ worker'[w].pc \in {"wait", "popTrue", "popFalse"}
                              /\ AnsweredSlot(worker[w].addr, worker[w].seq)'
    BY <1>1, <2>1 DEF TablesTrace, AnsweredSlot, HasSlot, Persists
  <2>3. \A b \in DOMAIN last_seq' : AcceptedSlot(b, last_seq[b])'
    BY <1>1, <2>1 DEF TablesTrace, AcceptedSlot, HasSlot, Persists
  <2>4. DOMAIN executed' \subseteq DOMAIN accepted'
        /\ DOMAIN accepted' \subseteq DOMAIN log'
    BY <1>1, <2>1 DEF TablesTrace, Persists
  <2> QED
    BY <2>2, <2>3, <2>4 DEF TablesTrace
<1>7. NoEventLeak'
  BY <1>1 DEF Inv, NoEventLeak, AckKey
<1> QED
  BY <1>2, <1>3, <1>4, <1>5, <1>6, <1>7 DEF Inv, Provenance

\* A thread at the program counter pc, with the request it had.
At(w, pc) ==
  /\ worker'[w].pc = pc
  /\ worker'[w].addr = worker[w].addr /\ worker'[w].seq = worker[w].seq
  /\ worker'[w].body = worker[w].body

\* Where each step of a thread leaves it, and what it leaves alone.
LEMMA WorkerFrame ==
  ASSUME Inv, NEW w \in Worker, WorkerStep(w)
  PROVE  /\ UNCHANGED <<clientVars, procVars, dups>>
         /\ \A v \in Worker \ {w} : worker'[v] = worker[v]
         /\ ~FreeWorker(w)
         /\ Check(w) => At(w, "record") \/ worker'[w] = Ended
         /\ Record(w) => At(w, "process")
         /\ Process(w) => At(w, "send")
         /\ ProcessRaises(w) => worker'[w] = Ended
         /\ SendResponse(w) => At(w, "register")
         /\ Register(w) => At(w, "wait")
         /\ WaitReturns(w) => At(w, IF w \in signalled THEN "popTrue" ELSE "popFalse")
         /\ Delivered(w) => worker'[w] = Ended
         /\ NotDelivered(w) => At(w, "send") \/ worker'[w] = Ended
         /\ Persists
<1>0. /\ worker \in [Worker -> {Ended} \cup Busy]
      /\ BagType(accepted, Call) /\ BagType(executed, Call)
  BY DEF Inv, TypeOK, Busy
<1>1. ~FreeWorker(w)
  BY DEF WorkerStep, FreeWorker, Check, Record, Process, ProcessRaises,
         SendResponse, Register, WaitReturns, Delivered, NotDelivered
<1>2. worker[w] \in Busy
  BY <1>1, WorkerBusy DEF Inv
<1>3. UNCHANGED <<clientVars, procVars, dups>>
  BY DEF WorkerStep, Check, Record, Process, ProcessRaises, SafeSend,
         SendResponse, Register, WaitReturns, Delivered, NotDelivered
<1>4. \A v \in Worker \ {w} : worker'[v] = worker[v]
  BY <1>0 DEF WorkerStep, Check, Record, Process, ProcessRaises, SendResponse,
     Register, WaitReturns, Delivered, NotDelivered, NextAttempt
<1>5. Check(w) => At(w, "record") \/ worker'[w] = Ended
  BY <1>0, <1>2 DEF Check, At, Busy
<1>6. Record(w) => At(w, "process")
  BY <1>0, <1>2 DEF Record, At, Busy
<1>7. Process(w) => At(w, "send")
  BY <1>0, <1>2 DEF Process, At, Busy
<1>8. SendResponse(w) => At(w, "register")
  BY <1>0, <1>2 DEF SendResponse, At, Busy
<1>9. Register(w) => At(w, "wait")
  BY <1>0, <1>2 DEF Register, At, Busy
<1>10. WaitReturns(w) => At(w, IF w \in signalled THEN "popTrue" ELSE "popFalse")
  BY <1>0, <1>2 DEF WaitReturns, At, Busy
<1>11. NotDelivered(w) => At(w, "send") \/ worker'[w] = Ended
  BY <1>0, <1>2 DEF NotDelivered, NextAttempt, At, Busy
<1>12. (ProcessRaises(w) => worker'[w] = Ended) /\ (Delivered(w) => worker'[w] = Ended)
  BY <1>0 DEF ProcessRaises, Delivered
<1>13. DOMAIN accepted \subseteq DOMAIN accepted' /\ DOMAIN executed \subseteq DOMAIN executed'
  <2>2. accepted' = accepted \/ accepted' = BagAdd(accepted, worker[w].body)
    BY DEF WorkerStep, Check, Record, Process, ProcessRaises, SendResponse,
       Register, WaitReturns, Delivered, NotDelivered
  <2>3. executed' = executed \/ executed' = BagAdd(executed, worker[w].body)
    BY DEF WorkerStep, Check, Record, Process, ProcessRaises, SendResponse,
       Register, WaitReturns, Delivered, NotDelivered
  <2> QED
    BY ONLY <2>2, <2>3, BagAddDomain
<1> QED
  BY <1>1, <1>3, <1>4, <1>5, <1>6, <1>7, <1>8, <1>9, <1>10, <1>11, <1>12, <1>13
     DEF Persists

\* The thread that steps still traces to its call.
LEMMA WorkerOwnTrace ==
  ASSUME Inv, NEW w \in Worker, WorkerStep(w)
  PROVE  WorkerTraces(w)'
<1>0. /\ worker[w] \in Busy /\ WorkerTraces(w) /\ ~FreeWorker(w)
      /\ BagType(accepted, Call) /\ BagType(executed, Call)
      /\ UNCHANGED clientVars
  BY WorkerFrame, WorkerBusy DEF Inv, Provenance, TypeOK
<1>1. CASE worker'[w] = Ended
  BY <1>1 DEF WorkerTraces, FreeWorker, Ended
<1>2. ASSUME NEW pc, At(w, pc),
             pc \notin {"check", "record"} => worker[w].body \in DOMAIN accepted',
             pc \notin {"check", "record", "process"} => worker[w].body \in DOMAIN executed',
             pc = "popTrue" => AnsweredSlot(worker[w].addr, worker[w].seq)
      PROVE  WorkerTraces(w)'
  BY <1>0, <1>2 DEF WorkerTraces, At, HasSlot, AnsweredSlot
<1>3. Persists
  BY WorkerFrame
<1>4. CASE Check(w)
  BY <1>1, <1>2, <1>4, WorkerFrame
<1>5. CASE Record(w)
  <2>0. accepted' = BagAdd(accepted, worker[w].body)
    BY <1>5 DEF Record
  <2>1. worker[w].body \in DOMAIN accepted'
    BY ONLY <2>0, BagAddDomain
  <2>2. At(w, "process")
    BY <1>5, WorkerFrame
  <2> QED
    BY <1>2, <2>1, <2>2
<1>6. CASE Process(w)
  <2>0. executed' = BagAdd(executed, worker[w].body)
    BY <1>6 DEF Process
  <2>1. worker[w].body \in DOMAIN executed'
    BY ONLY <2>0, BagAddDomain
  <2>2. worker[w].body \in DOMAIN accepted'
    BY <1>0, <1>3, <1>6 DEF Process, WorkerTraces, Persists
  <2>3. At(w, "send")
    BY <1>6, WorkerFrame
  <2> QED
    BY <1>2, <2>1, <2>2, <2>3
<1>7. CASE worker[w].pc \in {"send", "register", "wait", "popTrue", "popFalse"}
  <2>1. worker[w].body \in DOMAIN accepted' /\ worker[w].body \in DOMAIN executed'
    BY <1>0, <1>3, <1>7 DEF WorkerTraces, Persists
  <2>2. SendResponse(w) \/ Register(w) \/ WaitReturns(w) \/ Delivered(w) \/ NotDelivered(w)
    BY <1>7 DEF WorkerStep, Check, Record, Process, ProcessRaises
  <2>3. CASE WaitReturns(w)
    <3>1. w \in signalled => AnsweredSlot(worker[w].addr, worker[w].seq)
      BY DEF Inv, Provenance, TablesTrace
    <3> QED
      BY <1>2, <2>1, <2>3, <3>1, WorkerFrame
  <2> QED
    BY <1>1, <1>2, <2>1, <2>2, <2>3, WorkerFrame
<1>8. CASE ProcessRaises(w)
  BY <1>1, <1>8, WorkerFrame
<1> QED
  BY <1>4, <1>5, <1>6, <1>7, <1>8
     DEF WorkerStep, SendResponse, Register, WaitReturns, Delivered, NotDelivered

\* A worker's step sends a packet that traces to its call, or none.
LEMMA WorkerPackets ==
  ASSUME Inv, NEW w \in Worker, WorkerStep(w)
  PROVE  \A p \in InFlight' : PacketTraces(p)'
<1>0. Persists /\ UNCHANGED clientVars /\ worker[w] \in Busy /\ WorkerTraces(w)
      /\ ~FreeWorker(w)
  BY WorkerFrame, WorkerBusy DEF Inv, Provenance
<1>1. PICK a, s, r : /\ a = worker[w].addr /\ s = worker[w].seq
                     /\ r = worker[w].body
  OBVIOUS
<1>2. a \in Addr /\ s \in Seqs /\ Succ(s) \in Seqs /\ r \in Call
  BY <1>0, <1>1, SuccType DEF Busy
<1>3. ASSUME NEW q \in Packet, SafeSend(q), PacketTraces(q)'
      PROVE  \A p \in InFlight' : PacketTraces(p)'
  <2>1. InFlight' \subseteq InFlight \cup {q}
    BY <1>3, BagAddDomain DEF SafeSend, InFlight
  <2> QED
    BY <1>0, <1>3, <2>1, PacketsTraceNext DEF Inv
<1>4. ASSUME UNCHANGED net PROVE \A p \in InFlight' : PacketTraces(p)'
  BY <1>0, <1>4, PacketFields, PacketsPersist DEF InFlight, Inv, Provenance
<1>5. PICK ack : ack = Ack("client", a, s)
  OBVIOUS
<1>6. ack \in Packet /\ (AcceptedSlot(a, s)' => PacketTraces(ack)')
  BY <1>2, <1>5, MadePackets DEF Ack, PacketTraces
<1>7. CASE Check(w)
  <2>1. CASE IsDuplicate(w)
    <3>1. AcceptedSlot(a, s)
      BY <1>1, <2>1 DEF IsDuplicate, Inv, Provenance, TablesTrace
    <3>2. AcceptedSlot(a, s)'
      BY <1>0, <3>1, SlotsPersist
    <3>3. SafeSend(ack)
      BY <1>1, <1>5, <1>7, <2>1 DEF Check
    <3> QED
      BY <1>3, <1>6, <3>2, <3>3
  <2>2. CASE ~IsDuplicate(w)
    BY <1>4, <1>7, <2>2 DEF Check
  <2> QED
    BY <2>1, <2>2
<1>8. CASE Record(w)
  <2>1. accepted' = BagAdd(accepted, r) /\ SafeSend(ack)
    BY <1>1, <1>5, <1>8 DEF Record
  <2>2. r \in DOMAIN accepted'
    BY ONLY <2>1, BagAddDomain
  <2>3. HasSlot(r, a, s)'
    BY <1>0, <1>1, SlotsPersist DEF WorkerTraces
  <2> QED
    BY <1>3, <1>6, <2>1, <2>2, <2>3 DEF AcceptedSlot
<1>9. CASE SendResponse(w)
  <2>1. PICK q : q = Data("client", a, Succ(s), r)
    OBVIOUS
  <2>2. q \in Packet /\ SafeSend(q)
    BY <1>1, <1>2, <1>9, <2>1, MadePackets DEF SendResponse
  <2>3. HasSlot(r, a, s)' /\ r \in DOMAIN executed'
    BY <1>0, <1>1, <1>9, SlotsPersist DEF WorkerTraces, SendResponse, Persists
  <2>4. q.to = "client" /\ q.flags = "DATA" /\ q.addr = a /\ q.seq = Succ(s) /\ q.body = r
    BY <2>1 DEF Data
  <2>5. PacketTraces(q)'
    BY <1>2, <2>3, <2>4 DEF PacketTraces
  <2> QED
    BY <1>3, <2>2, <2>5
<1>10. CASE Process(w) \/ ProcessRaises(w) \/ Register(w) \/ WaitReturns(w)
            \/ Delivered(w) \/ NotDelivered(w)
  BY <1>4, <1>10 DEF Process, ProcessRaises, Register, WaitReturns, Delivered, NotDelivered
<1> QED
  BY <1>7, <1>8, <1>9, <1>10 DEF WorkerStep

\* It keeps the tables: a set event stands for an answered call, and every
\* registered event for a thread that waits.
LEMMA WorkerTables ==
  ASSUME Inv, NEW w \in Worker, WorkerStep(w)
  PROVE  TablesTrace' /\ NoEventLeak'
<1>0. /\ Persists /\ UNCHANGED clientVars /\ worker[w] \in Busy /\ WorkerTraces(w)
      /\ ~FreeWorker(w)
      /\ \A v \in Worker \ {w} : worker'[v] = worker[v]
      /\ TablesTrace /\ NoEventLeak
      /\ signalled \subseteq Worker
      /\ DictType(ack_events, Addr \X Seqs, Worker)
      /\ DictType(last_seq, Addr, Seqs)
  BY WorkerFrame, WorkerBusy DEF Inv, Provenance, TypeOK
<1>1. /\ \A a \in DOMAIN last_seq' : AcceptedSlot(a, last_seq[a])'
      /\ DOMAIN executed' \subseteq DOMAIN accepted'
      /\ DOMAIN accepted' \subseteq DOMAIN log'
  <2>1. PICK a, s, r : /\ a = worker[w].addr /\ s = worker[w].seq
                       /\ r = worker[w].body
    OBVIOUS
  <2>2. r \in DOMAIN log /\ HasSlot(r, a, s)'
    BY <1>0, <2>1, SlotsPersist DEF WorkerTraces, HasSlot
  <2>3. CASE Record(w)
    <3>1. accepted' = BagAdd(accepted, r) /\ last_seq' = Put(last_seq, a, s)
      BY <2>1, <2>3 DEF Record
    <3>2. DOMAIN accepted' = DOMAIN accepted \cup {r} /\ r \in DOMAIN accepted'
      BY ONLY <3>1, BagAddDomain
    <3>3. AcceptedSlot(a, s)'
      BY <2>2, <3>2 DEF AcceptedSlot
    <3>4. /\ DOMAIN last_seq' = DOMAIN last_seq \cup {a}
          /\ \A b \in DOMAIN last_seq' :
               last_seq'[b] = IF b = a THEN s ELSE last_seq[b]
      BY <3>1 DEF Put
    <3>5. ASSUME NEW b \in DOMAIN last_seq' PROVE AcceptedSlot(b, last_seq[b])'
      <4>1. CASE b = a
        BY <3>3, <3>4, <4>1 DEF AcceptedSlot, HasSlot
      <4>2. CASE b # a
        <5>1. b \in DOMAIN last_seq /\ last_seq'[b] = last_seq[b]
          BY <3>4, <3>5, <4>2
        <5> QED
          BY <1>0, <5>1 DEF TablesTrace, AcceptedSlot, HasSlot, Persists
      <4> QED
        BY <4>1, <4>2
    <3> QED
      BY <1>0, <2>2, <2>3, <3>2, <3>5 DEF Record, TablesTrace
  <2>4. CASE Process(w)
    <3>1. executed' = BagAdd(executed, r) /\ accepted' = accepted /\ last_seq' = last_seq
      BY <2>1, <2>4 DEF Process
    <3>2. DOMAIN executed' = DOMAIN executed \cup {r}
      BY ONLY <3>1, BagAddDomain
    <3>3. r \in DOMAIN accepted
      <4>1. worker'[w].pc = "send" /\ worker'[w].body = r
        BY <2>1, <2>4, WorkerFrame DEF At
      <4> QED
        BY <4>1, <3>1, <1>0, <2>1, <2>4 DEF WorkerTraces, Process
    <3> QED
      BY <1>0, <3>1, <3>2, <3>3 DEF TablesTrace, AcceptedSlot, HasSlot
  <2>5. CASE UNCHANGED <<last_seq, accepted, executed>>
    BY <1>0, <2>5 DEF TablesTrace, AcceptedSlot, HasSlot
  <2> QED
    BY <2>3, <2>4, <2>5
       DEF WorkerStep, Check, ProcessRaises, SendResponse, Register, WaitReturns,
           Delivered, NotDelivered, PopKey
<1>2. ASSUME NEW v \in Worker, v \in signalled, v # w
      PROVE  /\ worker'[v].pc \in {"wait", "popTrue", "popFalse"}
             /\ AnsweredSlot(worker[v].addr, worker[v].seq)'
  BY <1>0, <1>2 DEF TablesTrace, AnsweredSlot, HasSlot
<1>3. ASSUME NEW k \in DOMAIN ack_events, ack_events[k] # w
      PROVE  /\ ack_events[k] \in Worker
             /\ worker'[ack_events[k]] = worker[ack_events[k]]
             /\ worker[ack_events[k]].pc \in {"wait", "popTrue", "popFalse"}
             /\ <<worker[ack_events[k]].addr, Succ(worker[ack_events[k]].seq)>> = k
  BY <1>0, <1>3 DEF DictType, NoEventLeak, AckKey
<1>4. CASE worker[w].pc \in {"check", "record", "process", "send"}
  <2>1. UNCHANGED <<ack_events, signalled>>
    BY <1>4 DEF WorkerStep, Check, Record, Process, ProcessRaises, SendResponse,
       Register, WaitReturns, Delivered, NotDelivered
  <2>2. w \notin signalled
    BY <1>0, <1>4 DEF TablesTrace
  <2>3. \A k \in DOMAIN ack_events : ack_events[k] # w
    BY <1>0, <1>4 DEF NoEventLeak
  <2>4. NoEventLeak'
    BY <1>3, <2>1, <2>3 DEF NoEventLeak, AckKey
  <2> QED
    BY <1>0, <1>1, <1>2, <2>1, <2>2, <2>4 DEF TablesTrace
<1>5. CASE Register(w)
  <2>1. PICK key : key = AckKey(w)
    OBVIOUS
  <2>2. /\ ack_events' = Put(ack_events, key, w) /\ signalled' = signalled \ {w}
        /\ At(w, "wait")
    BY <1>5, <2>1, WorkerFrame DEF Register
  <2>3. \A k \in DOMAIN ack_events : ack_events[k] # w
    BY <1>0, <1>5 DEF NoEventLeak, Register
  <2>4. /\ DOMAIN ack_events' = DOMAIN ack_events \cup {key}
        /\ \A k \in DOMAIN ack_events' : ack_events'[k] = IF k = key THEN w ELSE ack_events[k]
    BY <2>2 DEF Put
  <2>5. key = <<worker'[w].addr, Succ(worker'[w].seq)>>
    BY <2>1, <2>2 DEF At, AckKey
  <2>6. NoEventLeak'
    <3> SUFFICES ASSUME NEW k \in DOMAIN ack_events'
                 PROVE  /\ worker'[ack_events'[k]].pc \in {"wait", "popTrue", "popFalse"}
                        /\ <<worker'[ack_events'[k]].addr,
                             Succ(worker'[ack_events'[k]].seq)>> = k
      BY DEF NoEventLeak, AckKey
    <3>1. CASE k = key
      BY <2>2, <2>4, <2>5, <3>1 DEF At
    <3>2. CASE k # key
      BY <1>3, <2>3, <2>4, <3>2
    <3> QED
      BY <3>1, <3>2
  <2> QED
    BY <1>0, <1>1, <1>2, <2>2, <2>6 DEF TablesTrace
<1>6. CASE WaitReturns(w)
  <2>1. UNCHANGED <<ack_events, signalled>>
    BY <1>6 DEF WaitReturns
  <2>2. At(w, IF w \in signalled THEN "popTrue" ELSE "popFalse")
    BY <1>6, WorkerFrame
  <2>3. /\ worker'[w].pc \in {"wait", "popTrue", "popFalse"}
        /\ worker'[w].addr = worker[w].addr /\ worker'[w].seq = worker[w].seq
    BY <2>2 DEF At
  <2>4. NoEventLeak'
    <3> SUFFICES ASSUME NEW k \in DOMAIN ack_events
                 PROVE  /\ worker'[ack_events[k]].pc \in {"wait", "popTrue", "popFalse"}
                        /\ <<worker'[ack_events[k]].addr,
                             Succ(worker'[ack_events[k]].seq)>> = k
      BY <2>1 DEF NoEventLeak, AckKey
    <3>1. CASE ack_events[k] = w
      BY <1>0, <2>3, <3>1 DEF NoEventLeak, AckKey
    <3>2. CASE ack_events[k] # w
      BY <1>3, <3>2
    <3> QED
      BY <3>1, <3>2
  <2>5. w \in signalled => AnsweredSlot(worker[w].addr, worker[w].seq)'
    BY <1>0, <2>3 DEF TablesTrace, AnsweredSlot, HasSlot
  <2> QED
    BY <1>0, <1>1, <1>2, <2>1, <2>3, <2>4, <2>5 DEF TablesTrace
<1>7. CASE Delivered(w) \/ NotDelivered(w)
  <2>1. PICK key : key = AckKey(w)
    OBVIOUS
  <2>2. ack_events' = Pop(ack_events, key) /\ signalled' = signalled \ {w}
    BY <1>7, <2>1 DEF Delivered, NotDelivered, PopKey
  <2>3. /\ DOMAIN ack_events' = DOMAIN ack_events \ {key}
        /\ \A k \in DOMAIN ack_events' : ack_events'[k] = ack_events[k]
    BY <2>2 DEF Pop
  <2>4. \A k \in DOMAIN ack_events' : ack_events[k] # w
    BY <1>0, <2>1, <2>3 DEF NoEventLeak
  <2>5. NoEventLeak'
    BY <1>3, <2>3, <2>4 DEF NoEventLeak, AckKey
  <2> QED
    BY <1>0, <1>1, <1>2, <2>2, <2>5 DEF TablesTrace
<1> QED
  BY <1>4, <1>5, <1>6, <1>7
     DEF WorkerStep, Check, Record, Process, ProcessRaises, SendResponse

\* The steps of the workers keep the invariant.
LEMMA WorkerInv ==
  ASSUME Inv, NEW w \in Worker, WorkerStep(w)
  PROVE  Inv'
<1>1. /\ UNCHANGED clientVars /\ Persists
      /\ \A v \in Worker \ {w} : worker'[v] = worker[v]
  BY WorkerFrame
<1>2. TypeOK'
  BY TypeWorker DEF Inv
<1>3. \A v \in Worker : WorkerTraces(v)'
  <2>1. \A v \in Worker \ {w} : WorkerTraces(v)'
    BY <1>1, WorkersPersist DEF Inv, Provenance
  <2> QED
    BY <2>1, WorkerOwnTrace
<1>4. \A a \in Addr : ClientTraces(a)'
  BY <1>1 DEF Inv, Provenance, ClientTraces, Calling, HasSlot, AcceptedSlot, Persists
<1>5. AnswersTrace'
  BY <1>1 DEF Inv, Provenance, AnswersTrace, SameSlot, Persists
<1> QED
  BY <1>2, <1>3, <1>4, <1>5, WorkerPackets, WorkerTables DEF Inv, Provenance

\* The steps of the listener, the process and the network keep it.
LEMMA RestInv ==
  ASSUME Inv,
         \/ \E p \in InFlight :
              \/ ListenAck(p) \/ Lose(p) \/ Duplicate(p)
              \/ \E w \in Worker : ListenData(p, w)
         \/ ListenerExits \/ Shutdown \/ Relaunch \/ Restart
  PROVE  Inv'
<1>0. /\ TypeOK' /\ Provenance /\ TablesTrace /\ NoEventLeak
      /\ worker \in [Worker -> {Ended} \cup Busy]
  BY TypeRest DEF Inv, Provenance, TypeOK, Busy
<1>1. UNCHANGED <<clientVars, countVars>>
  BY DEF ListenAck, ListenData, Lose, Duplicate, ListenerExits, Shutdown, Relaunch,
     Restart
<1>2. Persists
  BY <1>1 DEF Persists
<1>3. \A a \in Addr : ClientTraces(a)'
  BY <1>0, <1>1 DEF Provenance, ClientTraces, Calling, HasSlot, AcceptedSlot
<1>4. AnswersTrace'
  BY <1>0, <1>1 DEF Provenance, AnswersTrace, SameSlot
<1>5. \A p \in InFlight' : PacketTraces(p)'
  <2>1. \A b, x : DOMAIN BagRemove(b, x) \subseteq DOMAIN b
    BY DEF BagRemove
  <2>2. ASSUME NEW p \in InFlight, Duplicate(p) PROVE DOMAIN net' \subseteq DOMAIN net
    <3>1. net' = BagAdd(net, p) /\ p \in DOMAIN net
      BY <2>2 DEF Duplicate, InFlight
    <3> QED
      BY ONLY <3>1, BagAddDomain
  <2>3. DOMAIN net' \subseteq DOMAIN net
    BY <2>1, <2>2 DEF ListenAck, ListenData, ListenerTakes, Lose, ListenerExits, Shutdown, Relaunch,
     Restart
  <2> QED
    BY <1>0, <1>2, <2>3, PacketFields, PacketsPersist DEF InFlight, Provenance, Inv
<1>6. ASSUME UNCHANGED worker PROVE \A w \in Worker : WorkerTraces(w)'
  BY <1>0, <1>2, <1>6, WorkersPersist DEF Provenance
<1>7. ASSUME UNCHANGED <<tableVars, worker>> PROVE TablesTrace' /\ NoEventLeak'
  BY <1>0, <1>1, <1>7 DEF TablesTrace, NoEventLeak, AckKey, AcceptedSlot, AnsweredSlot, HasSlot
<1>8. ASSUME NEW p \in InFlight, ListenAck(p) PROVE Inv'
  <2>1. UNCHANGED <<worker, ack_events, last_seq>>
    BY <1>8 DEF ListenAck
  <2>2. PICK s \in Seqs : AnsweredSlot(p.addr, s) /\ p.seq = Succ(s)
    BY <1>0, <1>8 DEF ListenAck, ListenerTakes, Provenance, PacketTraces
  <2>3. ASSUME NEW w \in EventsOf(p)
        PROVE  /\ w \in Worker /\ worker[w].pc \in {"wait", "popTrue", "popFalse"}
               /\ AnsweredSlot(worker[w].addr, worker[w].seq)
    <3>1. PICK k \in DOMAIN ack_events : w = ack_events[k] /\ k = <<p.addr, p.seq>>
      BY <2>3 DEF EventsOf
    <3>2. /\ w \in Worker /\ worker[w].pc \in {"wait", "popTrue", "popFalse"}
          /\ <<worker[w].addr, Succ(worker[w].seq)>> = <<p.addr, p.seq>>
      BY <1>0, <3>1 DEF NoEventLeak, AckKey, Inv, TypeOK, DictType
    <3>3. worker[w].seq \in Seqs
      <4>1. ~FreeWorker(w)
        BY <3>2 DEF FreeWorker
      <4> QED
        BY <3>2, <4>1, WorkerBusy DEF Inv, Busy
    <3>4. worker[w].seq = s /\ worker[w].addr = p.addr
      BY <2>2, <3>2, <3>3, SuccInjective
    <3> QED
      BY <2>2, <3>2, <3>4
  <2>4. \A w \in signalled' : /\ worker[w].pc \in {"wait", "popTrue", "popFalse"}
                              /\ AnsweredSlot(worker[w].addr, worker[w].seq)
    BY <1>0, <1>8, <2>3 DEF ListenAck, TablesTrace
  <2>5. TablesTrace' /\ NoEventLeak'
    BY <1>0, <1>1, <2>1, <2>4
       DEF TablesTrace, NoEventLeak, AckKey, AcceptedSlot, AnsweredSlot, HasSlot
  <2> QED
    BY <1>0, <1>3, <1>4, <1>5, <1>6, <2>1, <2>5 DEF Inv, Provenance
<1>9. ASSUME NEW p \in InFlight, NEW w \in Worker, ListenData(p, w) PROVE Inv'
  <2>1. /\ \A v \in Worker \ {w} : worker'[v] = worker[v]
        /\ worker'[w] = [pc |-> "check", attempt |-> 0, addr |-> p.addr,
                         seq |-> p.seq, body |-> p.body]
        /\ FreeWorker(w) /\ UNCHANGED tableVars
    BY <1>0, <1>9 DEF ListenData
  <2>2. HasSlot(p.body, p.addr, p.seq)
    BY <1>0, <1>9 DEF ListenData, ListenerTakes, Provenance, PacketTraces
  <2>3. WorkerTraces(w)'
    BY <1>1, <2>1, <2>2 DEF WorkerTraces, HasSlot
  <2>4. \A v \in Worker : WorkerTraces(v)'
    BY <1>0, <1>2, <2>1, <2>3, WorkersPersist DEF Provenance
  <2>5. w \notin signalled /\ \A k \in DOMAIN ack_events : ack_events[k] # w
    BY <1>0, <2>1 DEF TablesTrace, NoEventLeak, FreeWorker
  <2>6. signalled \subseteq Worker /\ \A k \in DOMAIN ack_events : ack_events[k] \in Worker
    BY DEF Inv, TypeOK, DictType
  <2>7. TablesTrace'
    BY <1>0, <1>1, <2>1, <2>5, <2>6 DEF TablesTrace, AcceptedSlot, AnsweredSlot, HasSlot
  <2>8. NoEventLeak'
    BY <1>0, <2>1, <2>5, <2>6 DEF NoEventLeak, AckKey
  <2> QED
    BY <1>0, <1>3, <1>4, <1>5, <2>4, <2>7, <2>8 DEF Inv, Provenance
<1>10. CASE Relaunch
  <2>1. \A w \in Worker : WorkerTraces(w)'
    BY <1>10 DEF Relaunch, WorkerTraces, FreeWorker, Ended
  <2>2. TablesTrace' /\ NoEventLeak'
    BY <1>0, <1>1, <1>10 DEF Relaunch, TablesTrace, NoEventLeak, EmptyDict
  <2> QED
    BY <1>0, <1>3, <1>4, <1>5, <2>1, <2>2 DEF Inv, Provenance
<1>11. CASE ListenerExits \/ Shutdown \/ Restart \/ \E p \in InFlight : Lose(p) \/ Duplicate(p)
  <2>1. UNCHANGED <<tableVars, worker>>
    BY <1>11 DEF ListenerExits, Shutdown, Restart, Lose, Duplicate
  <2> QED
    BY <1>0, <1>3, <1>4, <1>5, <1>6, <1>7, <2>1 DEF Inv, Provenance
<1> QED
  BY <1>8, <1>9, <1>10, <1>11

LEMMA InvInit == Init => Inv
<1> SUFFICES ASSUME Init PROVE Inv
  OBVIOUS
<1>1. TypeOK
  BY TypeInit
<1>2. (\A a \in Addr : ClientTraces(a)) /\ (\A w \in Worker : WorkerTraces(w))
  BY DEF Init, ClientTraces, Calling, WorkerTraces, FreeWorker, Ended
<1>3. NoEventLeak /\ TablesTrace /\ AnswersTrace /\ (\A p \in InFlight : PacketTraces(p))
  BY DEF Init, EmptyDict, NoEventLeak, TablesTrace, AnswersTrace, InFlight
<1> QED
  BY <1>1, <1>2, <1>3 DEF Inv, Provenance

LEMMA InvNext == Inv /\ [Next]_vars => Inv'
<1> SUFFICES ASSUME Inv, [Next]_vars PROVE Inv'
  OBVIOUS
<1>1. CASE UNCHANGED vars
  <2>1. TypeOK'
    BY <1>1 DEF Inv, vars, TypeOK
  <2>2. Persists
    BY <1>1 DEF vars, Persists
  <2>3. \A p \in InFlight' : PacketTraces(p)'
    BY <1>1, <2>2, PacketFields, PacketsPersist DEF vars, InFlight, Inv, Provenance
  <2>4. \A w \in Worker : WorkerTraces(w)'
    BY <1>1, <2>2, WorkersPersist DEF vars, Inv, Provenance
  <2>5. (\A a \in Addr : ClientTraces(a)') /\ AnswersTrace'
    BY <1>1 DEF vars, Inv, Provenance, ClientTraces, Calling, HasSlot, AcceptedSlot,
                AnswersTrace, SameSlot
  <2>6. TablesTrace' /\ NoEventLeak'
    BY <1>1 DEF vars, Inv, Provenance, TablesTrace, NoEventLeak, AckKey, AcceptedSlot,
                AnsweredSlot, HasSlot
  <2> QED
    BY <2>1, <2>3, <2>4, <2>5, <2>6 DEF Inv, Provenance
<1>2. CASE Next
  BY <1>2, ClientInv, WorkerInv, RestInv DEF Next
<1> QED
  BY <1>1, <1>2

-----------------------------------------------------------------------------
(* The theorems.                                                           *)

\* The inductive invariant holds in every reachable state.
THEOREM Invariance == Spec => []Inv
BY InvInit, InvNext, PTL DEF Spec

\* Every variable keeps its type.
THEOREM TypeCorrect == Spec => []TypeOK
<1>1. Inv => TypeOK
  BY DEF Inv
<1> QED
  BY <1>1, Invariance, PTL

\* Every packet, thread and table entry stands for a call that got that far.
THEOREM ProvenanceHolds == Spec => []Provenance
<1>1. Inv => Provenance
  BY DEF Inv
<1> QED
  BY <1>1, Invariance, PTL

\* _ack_events leaks no entry, whatever is lost, duplicated or collides.
THEOREM NoLeak == Spec => []NoEventLeak
<1>1. Inv => NoEventLeak
  BY DEF Inv
<1> QED
  BY <1>1, Invariance, PTL

\* send_request returns a payload the server computed, for the very call
\* when no other call used its address and number.
THEOREM AnswersAreOwn == Spec => []AnswersOwn
<1>1. Inv => AnswersOwn
  <2> SUFFICES ASSUME Inv, NEW r \in DOMAIN log, log[r].outcome \in Received
               PROVE  /\ log[r].answer \in DOMAIN executed
                      /\ SameSlot(r, log[r].answer)
                      /\ Sole(r) => log[r].answer = r
    BY DEF AnswersOwn, Received
  <2>1. log[r].answer \in DOMAIN executed /\ SameSlot(r, log[r].answer)
    BY DEF Inv, Provenance, AnswersTrace
  <2>2. log[r].answer \in DOMAIN log
    BY <2>1 DEF Inv, Provenance, TablesTrace
  <2> QED
    BY <2>1, <2>2 DEF Sole
<1> QED
  BY <1>1, Invariance, PTL

\* A request is acknowledged only when it was accepted, when no other call
\* used its address and number.
THEOREM AcksAreOwn == Spec => []AckedMeansAccepted
<1>1. Inv => AckedMeansAccepted
  <2> SUFFICES ASSUME Inv, NEW a \in Addr, client[a].pc = "phase2",
                      Sole(client[a].call)
               PROVE  client[a].call \in DOMAIN accepted
    BY DEF AckedMeansAccepted
  <2>1. PICK r \in DOMAIN accepted : HasSlot(r, a, client[a].seq)
    BY DEF Inv, Provenance, ClientTraces, AcceptedSlot
  <2>2. HasSlot(client[a].call, a, client[a].seq)
    BY DEF Inv, Provenance, ClientTraces, Calling
  <2>3. r = client[a].call
    BY <2>1, <2>2 DEF Sole, SameSlot, HasSlot
  <2> QED
    BY <2>1, <2>3
<1> QED
  BY <1>1, Invariance, PTL

\* A delivery is confirmed only when the client took the response.
THEOREM DeliveryIsConfirmed == Spec => []DeliveryConfirmed
<1>1. Inv => DeliveryConfirmed
  <2> SUFFICES ASSUME Inv, NEW w \in Worker, worker[w].pc = "popTrue",
                      Sole(worker[w].body)
               PROVE  log[worker[w].body].outcome \in Received
    BY DEF DeliveryConfirmed
  <2>1. ~FreeWorker(w)
    BY DEF FreeWorker
  <2>2. PICK r \in DOMAIN log : /\ HasSlot(r, worker[w].addr, worker[w].seq)
                                /\ log[r].outcome \in Received
    BY <2>1 DEF Inv, Provenance, WorkerTraces, AnsweredSlot
  <2>3. HasSlot(worker[w].body, worker[w].addr, worker[w].seq)
    BY <2>1 DEF Inv, Provenance, WorkerTraces
  <2>4. r = worker[w].body
    BY <2>2, <2>3 DEF Sole, SameSlot, HasSlot
  <2> QED
    BY <2>2, <2>4
<1> QED
  BY <1>1, Invariance, PTL

-----------------------------------------------------------------------------
(* How often a request is executed.                                        *)

\* the threads that have recorded r as new and not executed it yet
Pending(r) == {w \in Worker : worker[w].pc = "process" /\ worker[w].body = r}

Times(b, r) == IF r \in DOMAIN b THEN b[r] ELSE 0

\* Every acceptance is that of an execution, or of a thread that has it to do,
\* or of one that died.
CountInv ==
  \A r \in Call :
    /\ Finite!IsFiniteSet(Pending(r))
    /\ Times(executed, r) + Finite!Cardinality(Pending(r)) <= Times(accepted, r)

\* A call that got no response has no answer.
NoAnswerYet ==
  \A r \in DOMAIN log : log[r].outcome \notin Received => log[r].answer = NoCall

\* How often a bag holds an element is a number.
LEMMA TimesType ==
  ASSUME NEW b, BagType(b, Call), NEW r
  PROVE  Times(b, r) \in Nat
BY DEF BagType, DictType, Times

\* Adding an element counts it once more, and no other.
LEMMA TimesAdd ==
  ASSUME NEW b, BagType(b, Call), NEW r
  PROVE  /\ Times(BagAdd(b, r), r) = Times(b, r) + 1
         /\ \A q : q # r => Times(BagAdd(b, r), q) = Times(b, q)
<1>1. CASE r \in DOMAIN b
  BY <1>1 DEF BagType, DictType, BagAdd, Times
<1>2. CASE r \notin DOMAIN b
  BY <1>2 DEF BagAdd, Times
<1> QED
  BY <1>1, <1>2

\* A step that gives no thread a request to execute.
LEMMA CountStays ==
  ASSUME TypeOK, CountInv, accepted' = accepted, executed' = executed,
         \A r \in Call : Pending(r)' \subseteq Pending(r)
  PROVE  CountInv'
<1> SUFFICES ASSUME NEW r \in Call
             PROVE  /\ Finite!IsFiniteSet(Pending(r)')
                    /\ Times(executed, r) + Finite!Cardinality(Pending(r)') <= Times(accepted, r)
  BY DEF CountInv, Times
<1> DEFINE P == Pending(r)
           Q == Pending(r)'
<1>1. /\ Finite!IsFiniteSet(P) /\ Times(executed, r) + Finite!Cardinality(P) <= Times(accepted, r)
      /\ Q \subseteq P
  BY DEF CountInv
<1>2. Times(executed, r) \in Nat /\ Times(accepted, r) \in Nat
  BY TimesType DEF TypeOK
<1> HIDE DEF P, Q
<1>3. Finite!IsFiniteSet(Q) /\ Finite!Cardinality(Q) <= Finite!Cardinality(P)
  BY <1>1, Finite!FS_Subset
<1>4. Finite!Cardinality(P) \in Nat /\ Finite!Cardinality(Q) \in Nat
  BY <1>1, <1>3, Finite!FS_CardinalityType
<1>5. Times(executed, r) + Finite!Cardinality(Q) <= Times(accepted, r)
  BY <1>1, <1>2, <1>3, <1>4
<1> QED
  BY <1>3, <1>5 DEF P, Q

\* A thread elsewhere than at "process" has nothing pending.
LEMMA PendingShrinks ==
  ASSUME NEW w, \A v \in Worker \ {w} : worker'[v] = worker[v], worker'[w].pc # "process"
  PROVE  \A r \in Call : Pending(r)' = Pending(r) \ {w}
BY DEF Pending

\* Recording a request as new accepts it and gives the thread its execution.
LEMMA CountRecord ==
  ASSUME Inv, CountInv, NEW w \in Worker, Record(w)
  PROVE  CountInv'
<1>1. /\ worker[w] \in Busy /\ BagType(accepted, Call) /\ BagType(executed, Call)
      /\ At(w, "process") /\ \A v \in Worker \ {w} : worker'[v] = worker[v]
  <2>1. WorkerStep(w)
    BY DEF WorkerStep
  <2> QED
    BY <2>1, WorkerFrame, WorkerBusy DEF Inv, TypeOK
<1>a. PICK q : q = worker[w].body
  OBVIOUS
<1>2. /\ q \in Call /\ executed' = executed /\ accepted' = BagAdd(accepted, q)
      /\ worker[w].pc = "record"
  BY <1>1, <1>a DEF Record, Busy
<1>3. /\ \A r \in Call : r # q => Pending(r)' = Pending(r)
      /\ Pending(q)' = Pending(q) \cup {w} /\ w \notin Pending(q)
  BY <1>1, <1>2, <1>a DEF Pending, At
<1>4. ASSUME NEW r \in Call
      PROVE  /\ Finite!IsFiniteSet(Pending(r)')
             /\ Times(executed, r) + Finite!Cardinality(Pending(r)') <= Times(BagAdd(accepted, q), r)
  <2> DEFINE P == Pending(r)
             Q == Pending(r)'
  <2>1. Finite!IsFiniteSet(P) /\ Times(executed, r) + Finite!Cardinality(P) <= Times(accepted, r)
    BY DEF CountInv
  <2>2. Times(executed, r) \in Nat /\ Times(accepted, r) \in Nat
    BY <1>1, TimesType
  <2>3. CASE r = q
    <3>1. Q = P \cup {w} /\ w \notin P
      BY <1>3, <2>3
    <3>2. Times(BagAdd(accepted, q), r) = Times(accepted, r) + 1
      BY <1>1, <2>3, TimesAdd
    <3> HIDE DEF P, Q
    <3>3. Finite!IsFiniteSet(Q) /\ Finite!Cardinality(Q) = Finite!Cardinality(P) + 1 /\ Finite!Cardinality(P) \in Nat
      BY <2>1, <3>1, Finite!FS_AddElement, Finite!FS_CardinalityType
    <3>4. Times(executed, r) + Finite!Cardinality(Q) <= Times(BagAdd(accepted, q), r)
      BY <2>1, <2>2, <3>2, <3>3
    <3> QED
      BY <3>3, <3>4 DEF Q
  <2>4. CASE r # q
    <3>1. Q = P /\ Times(BagAdd(accepted, q), r) = Times(accepted, r)
      BY <1>1, <1>3, <2>4, TimesAdd
    <3> QED
      BY <2>1, <3>1
  <2> QED
    BY <2>3, <2>4
<1>5. CountInv' <=> \A r \in Call : /\ Finite!IsFiniteSet(Pending(r)')
                                    /\ Times(executed', r) + Finite!Cardinality(Pending(r)') <= Times(accepted', r)
  BY DEF CountInv, Times
<1> QED
  BY <1>2, <1>4, <1>5

\* Executing it uses up that acceptance, which nothing had used before.
LEMMA CountProcess ==
  ASSUME Inv, CountInv, NEW w \in Worker, Process(w)
  PROVE  /\ CountInv'
         /\ Times(executed, worker[w].body) < Times(accepted, worker[w].body)
<1>1. /\ worker[w] \in Busy /\ BagType(accepted, Call) /\ BagType(executed, Call)
      /\ At(w, "send") /\ \A v \in Worker \ {w} : worker'[v] = worker[v]
  <2>1. WorkerStep(w)
    BY DEF WorkerStep
  <2> QED
    BY <2>1, WorkerFrame, WorkerBusy DEF Inv, TypeOK
<1>a. PICK q : q = worker[w].body
  OBVIOUS
<1>2. /\ q \in Call /\ accepted' = accepted /\ executed' = BagAdd(executed, q)
      /\ worker[w].pc = "process"
  BY <1>1, <1>a DEF Process, Busy
<1>3. /\ \A r \in Call : r # q => Pending(r)' = Pending(r)
      /\ Pending(q)' = Pending(q) \ {w} /\ w \in Pending(q)
  BY <1>1, <1>2, <1>a DEF Pending, At
<1>4. ASSUME NEW r \in Call
      PROVE  /\ Finite!IsFiniteSet(Pending(r)')
             /\ Times(BagAdd(executed, q), r) + Finite!Cardinality(Pending(r)') <= Times(accepted, r)
             /\ r = q => Times(executed, r) < Times(accepted, r)
  <2> DEFINE P == Pending(r)
             Q == Pending(r)'
  <2>1. Finite!IsFiniteSet(P) /\ Times(executed, r) + Finite!Cardinality(P) <= Times(accepted, r)
    BY DEF CountInv
  <2>2. Times(executed, r) \in Nat /\ Times(accepted, r) \in Nat
    BY <1>1, TimesType
  <2>3. CASE r = q
    <3>1. Q = P \ {w} /\ w \in P
      BY <1>3, <2>3
    <3>2. Times(BagAdd(executed, q), r) = Times(executed, r) + 1
      BY <1>1, <2>3, TimesAdd
    <3> HIDE DEF P, Q
    <3>3. Finite!IsFiniteSet(Q) /\ Finite!Cardinality(Q) = Finite!Cardinality(P) - 1
      BY <2>1, <3>1, Finite!FS_RemoveElement
    <3>4. Finite!Cardinality(P) \in Nat /\ Finite!Cardinality(Q) \in Nat
      BY <2>1, <3>3, Finite!FS_CardinalityType
    <3>5. Times(BagAdd(executed, q), r) + Finite!Cardinality(Q) <= Times(accepted, r)
      BY <2>1, <2>2, <3>2, <3>3, <3>4
    <3>6. Times(executed, r) < Times(accepted, r)
      BY <2>1, <2>2, <3>3, <3>4
    <3> QED
      BY <3>3, <3>5, <3>6 DEF Q
  <2>4. CASE r # q
    <3>1. Q = P /\ Times(BagAdd(executed, q), r) = Times(executed, r)
      BY <1>1, <1>3, <2>4, TimesAdd
    <3> QED
      BY <2>1, <2>4, <3>1
  <2> QED
    BY <2>3, <2>4
<1>5. CountInv' <=> \A r \in Call : /\ Finite!IsFiniteSet(Pending(r)')
                                    /\ Times(executed', r) + Finite!Cardinality(Pending(r)') <= Times(accepted', r)
  BY DEF CountInv, Times
<1> QED
  BY <1>2, <1>4, <1>5, <1>a

LEMMA CountNext == Inv /\ CountInv /\ [Next]_vars => CountInv'
<1> SUFFICES ASSUME Inv, CountInv, [Next]_vars PROVE CountInv'
  OBVIOUS
<1>0. TypeOK /\ worker \in [Worker -> {Ended} \cup Busy]
  BY DEF Inv, TypeOK, Busy
<1>1. ASSUME worker' = worker, accepted' = accepted, executed' = executed PROVE CountInv'
  BY <1>0, <1>1, CountStays DEF Pending
<1>2. CASE UNCHANGED vars
  BY <1>1, <1>2 DEF vars
<1>3. ASSUME NEW a \in Addr,
             \/ NewClient(a) \/ Close(a) \/ ClientStep(a)
             \/ \E r \in Call : SendRequest(a, r)
             \/ \E p \in InFlight : ClientRecv(a, p)
      PROVE  CountInv'
  BY <1>1, <1>3, ClientFrame
<1>4. ASSUME NEW w \in Worker, WorkerStep(w), ~Record(w), ~Process(w) PROVE CountInv'
  <2>1. accepted' = accepted /\ executed' = executed
    BY <1>4 DEF WorkerStep, Check, ProcessRaises, SendResponse, Register, WaitReturns,
       Delivered, NotDelivered
  <2>2. /\ \A v \in Worker \ {w} : worker'[v] = worker[v]
        /\ \/ worker'[w] = Ended
           \/ \E pc \in {"record", "register", "wait", "popTrue", "popFalse", "send"} : At(w, pc)
    BY <1>4, WorkerFrame DEF WorkerStep
  <2>3. worker'[w].pc # "process"
    BY <2>2 DEF At, Ended
  <2> QED
    BY <1>0, <2>1, <2>2, <2>3, PendingShrinks, CountStays
<1>5. ASSUME NEW p \in InFlight, NEW w \in Worker, ListenData(p, w) PROVE CountInv'
  <2>1. /\ accepted' = accepted /\ executed' = executed
        /\ \A v \in Worker \ {w} : worker'[v] = worker[v]
        /\ worker'[w].pc # "process"
    BY <1>0, <1>5 DEF ListenData
  <2> QED
    BY <1>0, <2>1, PendingShrinks, CountStays
<1>6. CASE Relaunch
  <2>1. accepted' = accepted /\ executed' = executed /\ \A r \in Call : Pending(r)' = {}
    BY <1>6 DEF Relaunch, Pending, Ended
  <2> QED
    BY <1>0, <2>1, CountStays
<1>7. CASE ListenerExits \/ Shutdown \/ Restart
           \/ \E p \in InFlight : ListenAck(p) \/ Lose(p) \/ Duplicate(p)
  BY <1>1, <1>7 DEF ListenerExits, Shutdown, Restart, ListenAck, Lose, Duplicate
<1> QED
  BY <1>2, <1>3, <1>4, <1>5, <1>6, <1>7, CountRecord, CountProcess DEF Next

LEMMA CountInit == Init => CountInv
<1> SUFFICES ASSUME Init, NEW r \in Call
             PROVE  /\ Finite!IsFiniteSet(Pending(r))
                    /\ Times(executed, r) + Finite!Cardinality(Pending(r)) <= Times(accepted, r)
  BY DEF CountInv
<1>1. Pending(r) = {} /\ Times(executed, r) = 0 /\ Times(accepted, r) = 0
  BY DEF Init, Pending, Ended, Times, EmptyDict
<1> QED
  BY <1>1, Finite!FS_EmptySet

\* Executions of a request, and threads about to execute it, never outnumber the
\* times _is_new_packet accepted it.
THEOREM Counted == Spec => []CountInv
BY CountInit, CountNext, Invariance, PTL DEF Spec

\* handle_rudp_request runs at most once for every time _is_new_packet said that
\* the request was new, whatever was lost, duplicated, reordered or restarted.
THEOREM ExecutedOnce == Spec => []ExecutedOncePerAcceptance
<1>1. Inv /\ CountInv => ExecutedOncePerAcceptance
  <2> SUFFICES ASSUME Inv, CountInv, NEW r \in DOMAIN executed
               PROVE  r \in DOMAIN accepted /\ executed[r] <= accepted[r]
    BY DEF ExecutedOncePerAcceptance
  <2>1. /\ r \in DOMAIN accepted /\ r \in Call
        /\ BagType(accepted, Call) /\ BagType(executed, Call)
    BY DEF Inv, Provenance, TablesTrace, TypeOK, BagType, DictType
  <2>2. executed[r] + Finite!Cardinality(Pending(r)) <= accepted[r] /\ Finite!IsFiniteSet(Pending(r))
    BY <2>1 DEF CountInv, Times
  <2>3. Finite!Cardinality(Pending(r)) \in Nat
    BY <2>2, Finite!FS_CardinalityType
  <2>4. executed[r] \in Nat /\ accepted[r] \in Nat
    BY <2>1 DEF BagType, DictType
  <2> QED
    BY <2>1, <2>2, <2>3, <2>4
<1> QED
  BY <1>1, Invariance, Counted, PTL

-----------------------------------------------------------------------------
(* The refinement of the service.                                          *)

\* The four ways in which a step can change the history of the calls.
Begins(r, a, s) ==
  /\ r \notin DOMAIN log
  /\ log' = Put(log, r, [addr |-> a, seq |-> s, outcome |-> "pending", answer |-> NoCall])

Fails(r) ==
  /\ r \in DOMAIN log /\ log[r].outcome = "pending"
  /\ log' = [log EXCEPT ![r].outcome = "failed"]

Receives(r, q, o) ==
  /\ r \in DOMAIN log /\ log[r].outcome = "pending"
  /\ q \in DOMAIN executed /\ SameSlot(r, q)
  /\ log' = [log EXCEPT ![r].outcome = o, ![r].answer = q]

LogStep ==
  \/ UNCHANGED log
  \/ \E r \in Call, a \in Addr, s \in Seqs : Begins(r, a, s)
  \/ \E r \in Call : Fails(r)
  \/ \E r, q \in Call, o \in Received : Receives(r, q, o)

\* What a client does to it: it gets a response that was computed for its slot.
LEMMA ClientLogs ==
  ASSUME Inv, NEW a \in Addr,
         \/ NewClient(a) \/ Close(a) \/ ClientStep(a)
         \/ \E r \in Call : SendRequest(a, r)
         \/ \E p \in InFlight : ClientRecv(a, p)
  PROVE  LogStep
<1>0. TypeOK /\ Provenance /\ client[a] \in ClientRecord /\ DictType(log, Call, Entry)
  BY DEF Inv, TypeOK, ClientRecord
<1>1. ASSUME Calling(a)
      PROVE  /\ client[a].call \in DOMAIN log /\ client[a].call \in Call
             /\ log[client[a].call].outcome = "pending"
             /\ HasSlot(client[a].call, a, client[a].seq)
  BY <1>0, <1>1 DEF Provenance, ClientTraces, HasSlot, DictType
<1>2. ASSUME Calling(a), Fail(a) PROVE LogStep
  BY <1>1, <1>2 DEF Fail, Fails, LogStep
<1>3. CASE NewClient(a) \/ Close(a) \/ Transmit(a)
  BY <1>3 DEF NewClient, Close, Transmit, LogStep
<1>4. CASE TransmitRaises(a) \/ TimeoutPhase1(a) \/ TimeoutPhase2(a)
  BY <1>2, <1>4 DEF TransmitRaises, TimeoutPhase1, TimeoutPhase2, Calling, LogStep
<1>5. ASSUME NEW r \in Call, SendRequest(a, r) PROVE LogStep
  <2>1. Begins(r, a, client[a].seq) /\ client[a].seq \in Seqs
    BY <1>0, <1>5 DEF SendRequest, Begins, ClientRecord
  <2> QED
    BY <2>1 DEF LogStep
<1>6. ASSUME NEW p \in InFlight, RecvResponse(a, p) PROVE LogStep
  <2>1. /\ client[a].pc = "phase2" /\ p.to = "client" /\ p.addr = a /\ p.flags = "DATA"
        /\ p.seq = Succ(client[a].seq) /\ client[a].seq \in Seqs
    BY <1>0, <1>6 DEF RecvResponse, IsResponse, ClientRecord
  <2>2. PICK s \in Seqs : HasSlot(p.body, a, s) /\ p.seq = Succ(s)
    BY <1>0, <2>1 DEF Provenance, PacketTraces
  <2>3. s = client[a].seq
    BY <2>1, <2>2, SuccInjective
  <2>4. p.body \in DOMAIN executed /\ p.body \in Call
    BY <1>0, <2>1 DEF Provenance, PacketTraces, TypeOK, BagType, DictType
  <2>5. SameSlot(client[a].call, p.body)
    BY <1>1, <2>1, <2>2, <2>3 DEF Calling, HasSlot, SameSlot
  <2>6. PICK o \in Received :
          log' = [log EXCEPT ![client[a].call].outcome = o, ![client[a].call].answer = p.body]
    BY <1>6 DEF RecvResponse
  <2>7. Receives(client[a].call, p.body, o)
    BY <1>1, <2>1, <2>4, <2>5, <2>6 DEF Receives, Calling
  <2> QED
    BY <1>1, <2>1, <2>4, <2>7 DEF LogStep, Calling
<1>7. ASSUME NEW p \in InFlight, RecvPhase1(a, p) \/ DropPhase2(a, p) PROVE LogStep
  BY <1>7 DEF RecvPhase1, DropPhase2, LogStep
<1>8. ASSUME NEW p \in InFlight, RecvResponseAckRaises(a, p) PROVE LogStep
  BY <1>2, <1>8 DEF RecvResponseAckRaises, Calling
<1> QED
  BY <1>3, <1>4, <1>5, <1>6, <1>7, <1>8 DEF ClientStep, ClientRecv

\* Every step is one of these with nothing executed, or leaves the calls alone.
LEMMA NextLogs ==
  ASSUME Inv, CountInv, [Next]_vars
  PROVE  \/ LogStep /\ UNCHANGED <<accepted, executed>>
         \/ /\ UNCHANGED log
            /\ \E w \in Worker : Record(w) \/ Process(w)
<1>1. CASE UNCHANGED vars
  BY <1>1 DEF vars, LogStep
<1>2. ASSUME NEW a \in Addr,
             \/ NewClient(a) \/ Close(a) \/ ClientStep(a)
             \/ \E r \in Call : SendRequest(a, r)
             \/ \E p \in InFlight : ClientRecv(a, p)
      PROVE  LogStep /\ UNCHANGED <<accepted, executed>>
  BY <1>2, ClientLogs, ClientFrame
<1>3. ASSUME NEW w \in Worker, WorkerStep(w)
      PROVE  UNCHANGED log /\ (UNCHANGED <<accepted, executed>> \/ Record(w) \/ Process(w))
  BY <1>3 DEF WorkerStep, Check, Record, Process, ProcessRaises, SendResponse, Register,
     WaitReturns, Delivered, NotDelivered
<1>4. ASSUME \/ \E p \in InFlight :
                  \/ ListenAck(p) \/ Lose(p) \/ Duplicate(p)
                  \/ \E w \in Worker : ListenData(p, w)
             \/ ListenerExits \/ Shutdown \/ Relaunch \/ Restart
      PROVE  UNCHANGED <<log, accepted, executed>>
  BY <1>4 DEF ListenAck, Lose, Duplicate, ListenData, ListenerExits, Shutdown, Relaunch,
     Restart
<1> QED
  BY <1>1, <1>2, <1>3, <1>4 DEF Next, LogStep

\* Only a response gives a call an answer.
LEMMA NoAnswerNext == Inv /\ CountInv /\ NoAnswerYet /\ [Next]_vars => NoAnswerYet'
<1> SUFFICES ASSUME Inv, CountInv, NoAnswerYet, [Next]_vars PROVE NoAnswerYet'
  OBVIOUS
<1>0. DictType(log, Call, Entry)
  BY DEF Inv, TypeOK
<1>1. CASE UNCHANGED log
  BY <1>1 DEF NoAnswerYet
<1>2. ASSUME NEW r \in Call, NEW a \in Addr, NEW s \in Seqs, Begins(r, a, s) PROVE NoAnswerYet'
  BY <1>2 DEF Begins, Put, NoAnswerYet
<1>3. ASSUME NEW r \in Call, Fails(r) PROVE NoAnswerYet'
  <2>1. log'[r] = [log[r] EXCEPT !.outcome = "failed"] /\ DOMAIN log' = DOMAIN log
    BY <1>3 DEF Fails
  <2>2. log'[r].answer = NoCall
    BY <1>0, <1>3, <2>1 DEF Fails, NoAnswerYet, Received, DictType, Entry
  <2> QED
    BY <1>3, <2>1, <2>2 DEF Fails, NoAnswerYet
<1>4. ASSUME NEW r \in Call, NEW q \in Call, NEW o \in Received, Receives(r, q, o)
      PROVE  NoAnswerYet'
  <2>1. /\ DOMAIN log' = DOMAIN log /\ log'[r].outcome = o
        /\ \A t \in DOMAIN log : t # r => log'[t] = log[t]
    BY <1>0, <1>4 DEF Receives, DictType, Entry
  <2> QED
    BY <2>1 DEF NoAnswerYet
<1> QED
  BY <1>1, <1>2, <1>3, <1>4, NextLogs DEF LogStep

\* What the service is told of the calls, and of their ends.
Asked == [r \in DOMAIN log |-> <<log[r].addr, log[r].seq>>]
Over == {r \in DOMAIN log : log[r].outcome # "pending"}
Ends == [r \in Over |-> log[r].answer]

\* A call that begins is one the service is asked.
LEMMA BeginRefines ==
  ASSUME Inv, NEW r \in Call, NEW a \in Addr, NEW s \in Seqs, Begins(r, a, s),
         UNCHANGED <<accepted, executed>>
  PROVE  Service!Next
<1>1. /\ DOMAIN log' = DOMAIN log \cup {r} /\ r \notin DOMAIN log
      /\ log'[r] = [addr |-> a, seq |-> s, outcome |-> "pending", answer |-> NoCall]
      /\ \A t \in DOMAIN log : log'[t] = log[t]
  BY DEF Begins, Put
<1>2. Asked' = Put(Asked, r, <<a, s>>)
  BY <1>1 DEF Asked, Put
<1>3. Over' = Over
  BY <1>1 DEF Over
<1>4. Ends' = Ends
  <2>1. \A t \in Over : log'[t].answer = log[t].answer
    BY <1>1 DEF Over
  <2> QED
    BY <1>3, <2>1 DEF Ends
<1>5. r \notin DOMAIN Asked
  BY <1>1 DEF Asked
<1>6. Service!Ask(r, <<a, s>>)
  BY <1>2, <1>4, <1>5 DEF Service!Ask, Service!Put, Put, Asked, Ends, Over
<1> QED
  BY <1>6 DEF Service!Next

\* A call whose history entry alone changes, which ends it with answer q.
LEMMA EndRefines ==
  ASSUME Inv, NEW r \in DOMAIN log, log[r].outcome = "pending", NEW q,
         DOMAIN log' = DOMAIN log, \A t \in DOMAIN log : t # r => log'[t] = log[t],
         log'[r].addr = log[r].addr, log'[r].seq = log[r].seq,
         log'[r].outcome # "pending", log'[r].answer = q,
         UNCHANGED <<accepted, executed>>
  PROVE  Service!End(r, q)
<1>1. Asked' = Asked
  BY DEF Asked
<1>2. Over' = Over \cup {r} /\ r \notin Over
  BY DEF Over
<1>3. Ends' = Put(Ends, r, q)
  <2>1. /\ DOMAIN Ends = Over /\ \A t \in Over : Ends[t] = log[t].answer
        /\ Ends' = [t \in Over \cup {r} |-> log'[t].answer]
    BY <1>2 DEF Ends
  <2>2. \A t \in Over \cup {r} : log'[t].answer = IF t = r THEN q ELSE Ends[t]
    BY <1>2, <2>1 DEF Over
  <2> QED
    BY <2>1, <2>2 DEF Put
<1>4. r \in DOMAIN Asked \ DOMAIN Ends
  BY <1>2 DEF Asked, Ends
<1> QED
  BY <1>1, <1>3, <1>4 DEF Service!End, Service!Put, Put, Asked, Ends, Over

\* A call that the client gives up ends with no answer.
LEMMA FailRefines ==
  ASSUME Inv, NoAnswerYet, NEW r \in Call, Fails(r), UNCHANGED <<accepted, executed>>
  PROVE  Service!Next
<1>2. /\ r \in DOMAIN log /\ log[r].outcome = "pending" /\ DOMAIN log' = DOMAIN log
      /\ log'[r] = [log[r] EXCEPT !.outcome = "failed"]
      /\ \A t \in DOMAIN log : t # r => log'[t] = log[t]
  BY DEF Fails
<1>3. log[r] \in Entry
  BY <1>2 DEF Inv, TypeOK, DictType
<1>4. /\ log'[r].addr = log[r].addr /\ log'[r].seq = log[r].seq
      /\ log'[r].outcome # "pending" /\ log'[r].answer = NoCall
  BY <1>2, <1>3 DEF Entry, NoAnswerYet, Received
<1>5. Service!End(r, NoCall)
  BY <1>2, <1>4, EndRefines
<1> QED
  BY <1>5 DEF Service!Next, Service!Fail

\* A response ends a call with what was executed for the same slot.
LEMMA AnswerRefines ==
  ASSUME Inv, NEW r \in Call, NEW q \in Call, NEW o \in Received, Receives(r, q, o),
         UNCHANGED <<accepted, executed>>
  PROVE  Service!Next
<1>1. /\ r \in DOMAIN log /\ log[r].outcome = "pending" /\ DOMAIN log' = DOMAIN log
      /\ log'[r] = [log[r] EXCEPT !.outcome = o, !.answer = q]
      /\ \A t \in DOMAIN log : t # r => log'[t] = log[t]
      /\ q \in DOMAIN executed /\ SameSlot(r, q)
  BY DEF Receives
<1>2. log[r] \in Entry
  BY <1>1 DEF Inv, TypeOK, DictType
<1>3. /\ log'[r].addr = log[r].addr /\ log'[r].seq = log[r].seq
      /\ log'[r].outcome # "pending" /\ log'[r].answer = q
  BY <1>1, <1>2 DEF Entry, Received
<1>4. Service!End(r, q)
  BY <1>1, <1>3, EndRefines
<1>5. q \in DOMAIN log
  BY <1>1 DEF Inv, Provenance, TablesTrace
<1>6. Asked[q] = Asked[r]
  BY <1>1, <1>5 DEF Asked, SameSlot
<1> QED
  BY <1>1, <1>4, <1>6 DEF Service!Next, Service!Answer, Asked

\* Recording a request as new is the acceptance of one that was asked.
LEMMA RecordRefines ==
  ASSUME Inv, NEW w \in Worker, Record(w), UNCHANGED log
  PROVE  Service!Next
<1>1. PICK r : r = worker[w].body
  OBVIOUS
<1>2. ~FreeWorker(w) /\ accepted' = BagAdd(accepted, r) /\ executed' = executed
  BY <1>1 DEF Record, FreeWorker
<1>3. r \in DOMAIN log /\ r \in Call
  BY <1>1, <1>2 DEF Inv, Provenance, WorkerTraces, HasSlot, TypeOK, DictType
<1>4. Service!Accept(r)
  BY <1>2, <1>3 DEF Service!Accept, Service!BagAdd, BagAdd
<1> QED
  BY <1>3, <1>4 DEF Service!Next

\* Executing it is an execution that an acceptance allows.
LEMMA ProcessRefines ==
  ASSUME Inv, CountInv, NEW w \in Worker, Process(w), UNCHANGED log
  PROVE  Service!Next
<1>1. PICK r : r = worker[w].body
  OBVIOUS
<1>2. ~FreeWorker(w) /\ executed' = BagAdd(executed, r) /\ accepted' = accepted
      /\ worker[w].pc = "process"
  BY <1>1 DEF Process, FreeWorker
<1>3. r \in DOMAIN log /\ r \in Call /\ r \in DOMAIN accepted
  BY <1>1, <1>2 DEF Inv, Provenance, WorkerTraces, HasSlot, TypeOK, DictType
<1>4. r \in DOMAIN executed => executed[r] < accepted[r]
  BY <1>1, <1>3, CountProcess DEF Times
<1>5. Service!Execute(r)
  BY <1>2, <1>3, <1>4 DEF Service!Execute, Service!BagAdd, BagAdd
<1> QED
  BY <1>3, <1>5 DEF Service!Next

\* The client, the server and the network between them implement FileService: a
\* request is executed only when it was asked and as often as it was accepted, and
\* a call that ends with an answer ends with one that was executed for its slot.
THEOREM RefinesService == Spec => ImplementsService
<1>1. Init => Service!Init /\ NoAnswerYet
  <2> SUFFICES ASSUME Init PROVE Service!Init /\ NoAnswerYet
    OBVIOUS
  <2>1. Asked = EmptyDict /\ Ends = EmptyDict
    BY DEF Init, EmptyDict, Asked, Ends, Over
  <2> QED
    BY <2>1 DEF Init, Service!Init, Service!EmptyDict, EmptyDict, Asked, Ends, Over, NoAnswerYet
<1>2. Inv /\ CountInv /\ NoAnswerYet /\ [Next]_vars => [Service!Next]_(Service!vars)
  <2> SUFFICES ASSUME Inv, CountInv, NoAnswerYet, [Next]_vars
               PROVE  Service!Next \/ UNCHANGED Service!vars
    OBVIOUS
  <2>1. CASE UNCHANGED <<log, accepted, executed>>
    BY <2>1 DEF Service!vars
  <2>2. CASE LogStep /\ UNCHANGED <<accepted, executed>>
    BY <2>1, <2>2, BeginRefines, FailRefines, AnswerRefines DEF LogStep
  <2> QED
    BY <2>2, NextLogs, RecordRefines, ProcessRefines
<1>3. Spec => []NoAnswerYet
  BY <1>1, NoAnswerNext, Invariance, Counted, PTL DEF Spec
<1> QED
  BY <1>1, <1>2, <1>3, Invariance, Counted, PTL DEF Spec, Service!Spec, ImplementsService

=============================================================================
