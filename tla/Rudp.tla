-------------------------------- MODULE Rudp --------------------------------
(***************************************************************************)
(* The reliable-UDP file-transfer protocol: rudp/rudp_client.py and        *)
(* rudp/rudp_server.py, talking over a datagram network that may lose,     *)
(* reorder and (up to MaxDup times) duplicate packets.                     *)
(*                                                                         *)
(* A client is one RUDPClient object bound to a UDP address; it runs one   *)
(* send_request at a time.  The server is one process: a listener thread   *)
(* and one worker thread for every DATA packet the listener receives.      *)
(* Threads interleave between any two accesses to the dictionaries         *)
(* _last_seq and _ack_events and between any two sends.                    *)
(*                                                                         *)
(* Every invocation of send_request is a distinct element of Call; the     *)
(* body of a DATA packet is the call whose request (or whose response) it  *)
(* carries.  The wire never shows a call, only its sequence number.        *)
(***************************************************************************)
EXTENDS Integers, BagsExt, PyDict

CONSTANTS
  Addr,           \* client socket addresses (host, port)
  Call,           \* invocations of send_request
  Worker,         \* bound: worker threads alive at the same time
  SeqMod,         \* size of the sequence space (256)
  ClientRetries,  \* max_retries of the clients (MAX_RETRIES = 5)
  ServerRetries,  \* max_retries of the server (MAX_RETRIES = 5)
  MaxClients,     \* bound: client objects that get the same address, in turn
  MaxDup,         \* bound: packets duplicated by the network
  MaxLaunch,      \* bound: launches of the server process, and restarts in it
  NoCall          \* the body of an ACK; no call

ASSUME RudpAssumption ==
  /\ SeqMod \in Nat /\ SeqMod > 1
  /\ ClientRetries \in Nat \ {0}
  /\ ServerRetries \in Nat \ {0}
  /\ MaxClients \in Nat /\ MaxDup \in Nat /\ MaxLaunch \in Nat
  /\ NoCall \notin Call

VARIABLES
  client,      \* the client object at each address
  log,         \* history: the calls made so far and their outcomes
  is_running,  \* BaseServer._running
  listening,   \* the listener is blocked in recvfrom
  last_seq,    \* _last_seq: dictionary address -> sequence number
  ack_events,  \* _ack_events: dictionary <<address, seq>> -> waiting worker
  signalled,   \* workers whose current Event is set
  worker,      \* the worker threads
  accepted,    \* history: bag of the calls recorded as new packets
  executed,    \* history: bag of the calls whose response was computed
  net,         \* bag of the packets in flight
  dups,        \* packets duplicated so far
  launches     \* launches and restarts so far

clientVars == <<client, log>>
tableVars  == <<last_seq, ack_events, signalled>>
countVars  == <<accepted, executed>>
procVars   == <<is_running, listening, launches>>
netVars    == <<net, dups>>
vars == <<client, log, is_running, listening, last_seq, ack_events, signalled,
          worker, accepted, executed, net, dups, launches>>

-----------------------------------------------------------------------------
(* Packets and the bag of packets in flight.                               *)

Seqs == 0 .. SeqMod - 1

\* (mutant: the byte does not wrap)
SuccUnwrapped(s) == s + 1

\* (seq + 1) % 256
Succ(s) == (s + 1) % SeqMod

Packet == [to: {"server", "client"}, addr: Addr, flags: {"DATA", "ACK"},
           seq: Seqs, body: Call \cup {NoCall}]

Data(to, a, s, r) ==
  [to |-> to, addr |-> a, flags |-> "DATA", seq |-> s, body |-> r]

Ack(to, a, s) ==
  [to |-> to, addr |-> a, flags |-> "ACK", seq |-> s, body |-> NoCall]

InFlight == DOMAIN net

-----------------------------------------------------------------------------
(* The client, rudp_client.py.                                             *)

\* the outcomes of a call whose response arrived: its text was returned, or
\* could not be decoded and an error was
Received == {"answered", "garbled"}

\* what a call of send_request leaves in the history
Entry == [addr: Addr, seq: Seqs, outcome: {"pending", "failed"} \cup Received,
          answer: Call \cup {NoCall}]

ClientPc == {"closed", "idle", "sending", "phase1", "phase2"}

\* RUDPClient(): a new socket, sequence number 0
NewClient(a) ==
  /\ client[a].pc = "closed"
  /\ client[a].opened < MaxClients
  /\ client' = [client EXCEPT ![a].pc = "idle", ![a].seq = 0,
                              ![a].opened = @ + 1]
  /\ UNCHANGED <<log, tableVars, worker, countVars, procVars, netVars>>

\* send_request up to the first attempt of _reliable_send
SendRequest(a, r) ==
  /\ client[a].pc = "idle"
  /\ r \notin DOMAIN log
  /\ client' = [client EXCEPT ![a].pc = "sending", ![a].call = r,
                              ![a].attempt = 1]
  /\ log' = Put(log, r, [addr |-> a, seq |-> client[a].seq,
                         outcome |-> "pending", answer |-> NoCall])
  /\ UNCHANGED <<tableVars, worker, countVars, procVars, netVars>>

\* send_request ends in an error (or an exception); _seq keeps its value
Fail(a) ==
  /\ client' = [client EXCEPT ![a].pc = "idle", ![a].call = NoCall,
                              ![a].attempt = 0]
  /\ log' = [log EXCEPT ![client[a].call].outcome = "failed"]

\* one sendto of _reliable_send
Transmit(a) ==
  /\ client[a].pc = "sending"
  /\ net' = BagAdd(net, Data("server", a, client[a].seq, client[a].call))
  /\ client' = [client EXCEPT ![a].pc = "phase1"]
  /\ UNCHANGED <<log, tableVars, worker, countVars, procVars, dups>>

\* that sendto, or a recvfrom of the attempt, raises OSError: nothing catches
\* it, the call is over
TransmitRaises(a) ==
  /\ client[a].pc \in {"sending", "phase1"}
  /\ Fail(a)
  /\ UNCHANGED <<tableVars, worker, countVars, procVars, netVars>>

\* phase 1 accepts p as the ACK of the request (mutant: any ACK)
AnyAck(a, p) == p.flags = "ACK"
IsAck(a, p) == p.flags = "ACK" /\ p.seq = client[a].seq

\* the receive loop of _reliable_send: the ACK with our number ends phase 1,
\* every other packet, a response included, is read and dropped
RecvPhase1(a, p) ==
  /\ client[a].pc = "phase1"
  /\ p.to = "client" /\ p.addr = a
  /\ net' = BagRemove(net, p)
  /\ client' = IF IsAck(a, p)
               THEN [client EXCEPT ![a].pc = "phase2"]
               ELSE client
  /\ UNCHANGED <<log, tableVars, worker, countVars, procVars, dups>>

\* the next round of the for loop (mutant: the rounds are not counted)
SameRound(a) == [client EXCEPT ![a].pc = "sending"]
NextRound(a) == [client EXCEPT ![a].pc = "sending", ![a].attempt = @ + 1]

\* the deadline of an attempt passes: next attempt, or give up
TimeoutPhase1(a) ==
  /\ client[a].pc = "phase1"
  /\ \/ /\ client[a].attempt < ClientRetries
        /\ client' = NextRound(a)
        /\ UNCHANGED log
     \/ /\ client[a].attempt = ClientRetries
        /\ Fail(a)
  /\ UNCHANGED <<tableVars, worker, countVars, procVars, netVars>>

\* phase 2 accepts p as the response (mutant: any DATA)
AnyData(a, p) == p.flags = "DATA"
IsResponse(a, p) == p.flags = "DATA" /\ p.seq = Succ(client[a].seq)

\* the response arrives: ACK it, advance _seq, decode and return its payload
RecvResponse(a, p) ==
  /\ client[a].pc = "phase2"
  /\ p.to = "client" /\ p.addr = a
  /\ IsResponse(a, p)
  /\ net' = BagAdd(BagRemove(net, p), Ack("server", a, p.seq))
  /\ client' = [client EXCEPT ![a].pc = "idle", ![a].call = NoCall,
                              ![a].attempt = 0, ![a].seq = Succ(p.seq)]
  /\ \E o \in Received :
       log' = [log EXCEPT ![client[a].call].outcome = o,
                          ![client[a].call].answer = p.body]
  /\ UNCHANGED <<tableVars, worker, countVars, procVars, dups>>

\* the sendto of that ACK raises: the call returns an error and _seq stays
RecvResponseAckRaises(a, p) ==
  /\ client[a].pc = "phase2"
  /\ p.to = "client" /\ p.addr = a
  /\ IsResponse(a, p)
  /\ net' = BagRemove(net, p)
  /\ Fail(a)
  /\ UNCHANGED <<tableVars, worker, countVars, procVars, dups>>

\* any other packet in phase 2 is read and dropped
DropPhase2(a, p) ==
  /\ client[a].pc = "phase2"
  /\ p.to = "client" /\ p.addr = a
  /\ ~IsResponse(a, p)
  /\ net' = BagRemove(net, p)
  /\ UNCHANGED <<clientVars, tableVars, worker, countVars, procVars, dups>>

\* RESPONSE_TIMEOUT passes
TimeoutPhase2(a) ==
  /\ client[a].pc = "phase2"
  /\ Fail(a)
  /\ UNCHANGED <<tableVars, worker, countVars, procVars, netVars>>

\* close(): the socket goes, the address is free for another client
Close(a) ==
  /\ client[a].pc = "idle"
  /\ client' = [client EXCEPT ![a].pc = "closed"]
  /\ UNCHANGED <<log, tableVars, worker, countVars, procVars, netVars>>

-----------------------------------------------------------------------------
(* The server, rudp_server.py.                                             *)

WorkerPc == {"free", "check", "record", "process", "send", "register",
             "wait", "popTrue", "popFalse"}

FreeWorker(w) == worker[w].pc = "free"

\* thread w is over; its slot can be used for another one
Ended == [pc |-> "free", attempt |-> 0]

\* the key under which worker w waits for the ACK of its response
AckKey(w) == <<worker[w].addr, Succ(worker[w].seq)>>

\* _safe_send: nothing leaves once the server is shut down
SafeSend(p) == net' = IF is_running THEN BagAdd(net, p) ELSE net

\* the listener takes p from recvfrom, handles it and tests is_running again:
\* a listener that was blocked in recvfrom at the shutdown handles one more
ListenerTakes(p) ==
  /\ listening
  /\ p.to = "server"
  /\ net' = BagRemove(net, p)
  /\ listening' = is_running

\* the events an ACK sets: the one under its key (mutant: all of its client)
EventsOfAddr(p) == {ack_events[k] : k \in {k \in DOMAIN ack_events : k[1] = p.addr}}
EventsOf(p) ==
  {ack_events[k] : k \in {k \in DOMAIN ack_events : k = <<p.addr, p.seq>>}}

\* an ACK: set the event registered under its key
ListenAck(p) ==
  /\ ListenerTakes(p)
  /\ p.flags = "ACK"
  /\ signalled' = signalled \cup EventsOf(p)
  /\ UNCHANGED <<clientVars, last_seq, ack_events, worker, countVars,
                 is_running, launches, dups>>

\* a DATA packet: spawn a thread for _handle_request
ListenData(p, w) ==
  /\ ListenerTakes(p)
  /\ p.flags = "DATA"
  /\ FreeWorker(w)
  /\ worker' = [worker EXCEPT ![w] = [pc |-> "check", attempt |-> 0,
                    addr |-> p.addr, seq |-> p.seq, body |-> p.body]]
  /\ UNCHANGED <<clientVars, tableVars, countVars, is_running, launches, dups>>

\* recvfrom times out, or raises because shutdown closed the socket
ListenerExits ==
  /\ listening /\ ~is_running
  /\ listening' = FALSE
  /\ UNCHANGED <<clientVars, tableVars, worker, countVars, netVars,
                 is_running, launches>>

IsDuplicate(w) ==
  worker[w].addr \in DOMAIN last_seq /\ last_seq[worker[w].addr] = worker[w].seq

\* the duplicate test, without a lock: re-ACK and skip, or go on.  An ACK
\* that leaves after the test is one that stays longer in the network
Check(w) ==
  /\ worker[w].pc = "check"
  /\ \/ /\ IsDuplicate(w)
        /\ SafeSend(Ack("client", worker[w].addr, worker[w].seq))
        /\ worker' = [worker EXCEPT ![w] = Ended]
     \/ /\ ~IsDuplicate(w)
        /\ worker' = [worker EXCEPT ![w].pc = "record"]
        /\ UNCHANGED net
  /\ UNCHANGED <<clientVars, tableVars, countVars, procVars, dups>>

\* remember the number and ACK the packet
Record(w) ==
  /\ worker[w].pc = "record"
  /\ last_seq' = Put(last_seq, worker[w].addr, worker[w].seq)
  /\ SafeSend(Ack("client", worker[w].addr, worker[w].seq))
  /\ accepted' = BagAdd(accepted, worker[w].body)
  /\ worker' = [worker EXCEPT ![w].pc = "process"]
  /\ UNCHANGED <<clientVars, ack_events, signalled, executed, procVars, dups>>

\* download_file, or the format error: either way there is a response
Process(w) ==
  /\ worker[w].pc = "process"
  /\ executed' = BagAdd(executed, worker[w].body)
  /\ worker' = [worker EXCEPT ![w].pc = "send", ![w].attempt = 1]
  /\ UNCHANGED <<clientVars, tableVars, accepted, procVars, netVars>>

\* urlparse raises ValueError outside the try of download_file: the thread
\* dies, after the ACK and with no response
ProcessRaises(w) ==
  /\ worker[w].pc = "process"
  /\ worker' = [worker EXCEPT ![w] = Ended]
  /\ UNCHANGED <<clientVars, tableVars, countVars, procVars, netVars>>

\* _reliable_send: the response leaves before the event is registered
SendResponse(w) ==
  /\ worker[w].pc = "send"
  /\ SafeSend(Data("client", worker[w].addr, Succ(worker[w].seq),
                   worker[w].body))
  /\ worker' = [worker EXCEPT ![w].pc = "register"]
  /\ UNCHANGED <<clientVars, tableVars, countVars, procVars, dups>>

\* a new Event under the key, whoever was there before
Register(w) ==
  /\ worker[w].pc = "register"
  /\ ack_events' = Put(ack_events, AckKey(w), w)
  /\ signalled' = signalled \ {w}
  /\ worker' = [worker EXCEPT ![w].pc = "wait"]
  /\ UNCHANGED <<clientVars, last_seq, countVars, procVars, netVars>>

\* event.wait returns: True when the event is set, False at the timeout
WaitReturns(w) ==
  /\ worker[w].pc = "wait"
  /\ worker' = [worker EXCEPT ![w].pc =
                  IF w \in signalled THEN "popTrue" ELSE "popFalse"]
  /\ UNCHANGED <<clientVars, tableVars, countVars, procVars, netVars>>

\* the finally clause removes the key, even another worker's event under it
\* (mutant: there is no finally clause)
KeepKey(w) == UNCHANGED <<ack_events, signalled>>
PopKey(w) ==
  /\ ack_events' = Pop(ack_events, AckKey(w))
  /\ signalled' = signalled \ {w}

\* return True
Delivered(w) ==
  /\ worker[w].pc = "popTrue"
  /\ PopKey(w)
  /\ worker' = [worker EXCEPT ![w] = Ended]
  /\ UNCHANGED <<clientVars, last_seq, countVars, procVars, netVars>>

\* the next round of the for loop (mutants: the whole request is retried; the
\* rounds are not counted)
Redo(w) == [worker EXCEPT ![w].pc = "process"]
SameAttempt(w) == [worker EXCEPT ![w].pc = "send"]
NextAttempt(w) == [worker EXCEPT ![w].pc = "send", ![w].attempt = @ + 1]

\* next attempt, or return False: no attempt is left or the server stopped
NotDelivered(w) ==
  /\ worker[w].pc = "popFalse"
  /\ PopKey(w)
  /\ worker' = IF is_running /\ worker[w].attempt < ServerRetries
               THEN NextAttempt(w)
               ELSE [worker EXCEPT ![w] = Ended]
  /\ UNCHANGED <<clientVars, last_seq, countVars, procVars, netVars>>

-----------------------------------------------------------------------------
(* The server process: BaseServer.shutdown and start, and the dashboard    *)
(* that kills the process and launches another, with empty dictionaries.   *)

\* shutdown; or the listener's loop breaks, and the finally clause of
\* _run_wrapper clears _running
Shutdown ==
  /\ is_running
  /\ is_running' = FALSE
  /\ UNCHANGED <<clientVars, tableVars, worker, countVars, netVars, listening,
                 launches>>

Relaunch ==
  /\ launches < MaxLaunch
  /\ launches' = launches + 1
  /\ is_running' = TRUE
  /\ listening' = TRUE
  /\ last_seq' = EmptyDict
  /\ ack_events' = EmptyDict
  /\ signalled' = {}
  /\ worker' = [w \in Worker |-> Ended]
  /\ UNCHANGED <<clientVars, countVars, netVars>>

\* start() on the object that was shut down: it keeps its dictionaries, and
\* threads of before still run
Restart ==
  /\ ~is_running
  /\ launches < MaxLaunch
  /\ launches' = launches + 1
  /\ is_running' = TRUE
  /\ listening' = TRUE
  /\ UNCHANGED <<clientVars, tableVars, worker, countVars, netVars>>

-----------------------------------------------------------------------------
(* The network.                                                            *)

Lose(p) ==
  /\ net' = BagRemove(net, p)
  /\ UNCHANGED <<clientVars, tableVars, worker, countVars, procVars, dups>>

Duplicate(p) ==
  /\ dups < MaxDup
  /\ dups' = dups + 1
  /\ net' = BagAdd(net, p)
  /\ UNCHANGED <<clientVars, tableVars, worker, countVars, procVars>>

-----------------------------------------------------------------------------

Init ==
  /\ client = [a \in Addr |-> [pc |-> "closed", seq |-> 0, call |-> NoCall,
                               attempt |-> 0, opened |-> 0]]
  /\ log = EmptyDict
  /\ is_running = TRUE
  /\ listening = TRUE
  /\ last_seq = EmptyDict
  /\ ack_events = EmptyDict
  /\ signalled = {}
  /\ worker = [w \in Worker |-> Ended]
  /\ accepted = EmptyDict
  /\ executed = EmptyDict
  /\ net = EmptyDict
  /\ dups = 0
  /\ launches = 1

\* the steps of a client that do not wait for a packet
ClientStep(a) ==
  \/ Transmit(a) \/ TransmitRaises(a)
  \/ TimeoutPhase1(a) \/ TimeoutPhase2(a)

ClientRecv(a, p) ==
  \/ RecvPhase1(a, p) \/ RecvResponse(a, p)
  \/ RecvResponseAckRaises(a, p) \/ DropPhase2(a, p)

WorkerStep(w) ==
  \/ Check(w) \/ Record(w) \/ Process(w) \/ ProcessRaises(w)
  \/ SendResponse(w) \/ Register(w) \/ WaitReturns(w)
  \/ Delivered(w) \/ NotDelivered(w)

Next ==
  \/ \E a \in Addr :
       \/ NewClient(a) \/ Close(a) \/ ClientStep(a)
       \/ \E r \in Call : SendRequest(a, r)
       \/ \E p \in InFlight : ClientRecv(a, p)
  \/ \E p \in InFlight :
       \/ ListenAck(p) \/ Lose(p) \/ Duplicate(p)
       \/ \E w \in Worker : ListenData(p, w)
  \/ \E w \in Worker : WorkerStep(w)
  \/ ListenerExits \/ Shutdown \/ Relaunch \/ Restart

Spec == Init /\ [][Next]_vars

\* Deadlines expire and threads are scheduled.  Nothing is assumed of the
\* network, of the listener, or of a download: its timeout is one for each read.
Fairness ==
  /\ \A a \in Addr : WF_vars(ClientStep(a))
  /\ \A w \in Worker : WF_vars(WorkerStep(w) /\ worker[w].pc # "process")

FairSpec == Spec /\ Fairness

-----------------------------------------------------------------------------
(* Properties.                                                             *)

BagType(b, S) == DictType(b, S, Nat \ {0})

\* Every variable holds what the code can put there, and a client or a worker
\* that is busy has the fields of its call.
TypeOK ==
  /\ client \in [Addr -> [pc: ClientPc, seq: Seqs, call: Call \cup {NoCall},
                          attempt: 0 .. ClientRetries, opened: Nat]]
  /\ DictType(log, Call, Entry)
  /\ is_running \in BOOLEAN /\ listening \in BOOLEAN
  /\ DictType(last_seq, Addr, Seqs)
  /\ DictType(ack_events, Addr \X Seqs, Worker)
  /\ signalled \subseteq Worker
  /\ worker \in [Worker -> {Ended} \cup
                   [pc: WorkerPc \ {"free"}, attempt: 0 .. ServerRetries,
                    addr: Addr, seq: Seqs, body: Call]]
  /\ BagType(accepted, Call) /\ BagType(executed, Call)
  /\ BagType(net, Packet)
  /\ dups \in Nat /\ launches \in Nat

\* two calls were made from one address with one sequence number
SameSlot(r, q) == log[r].addr = log[q].addr /\ log[r].seq = log[q].seq

\* no other call was
Sole(r) == \A q \in DOMAIN log : SameSlot(r, q) => q = r

\* The payload send_request returns is one the server really computed, for
\* a request made from the same address under the same number; when no other
\* call used that number, it is the answer to this very call.
AnswersOwn ==
  \A r \in DOMAIN log : log[r].outcome = "answered" =>
    LET q == log[r].answer IN
      /\ q \in DOMAIN executed
      /\ SameSlot(r, q)
      /\ Sole(r) => q = r

\* "Server acknowledged": a client waits for a response only when the server
\* took its request as a new packet, unless an earlier call used the number.
AckedMeansAccepted ==
  \A a \in Addr :
    client[a].pc = "phase2" /\ Sole(client[a].call) =>
      client[a].call \in DOMAIN accepted

\* _reliable_send returns True to a worker only when the client took the
\* response out of its socket, unless another call used the number.
DeliveryConfirmed ==
  \A w \in Worker :
    worker[w].pc = "popTrue" /\ Sole(worker[w].body) =>
      log[worker[w].body].outcome \in Received

\* _ack_events never keeps an entry that no thread will remove: each belongs
\* to a worker that waits for that ACK, or is about to remove it.
NoEventLeak ==
  \A k \in DOMAIN ack_events :
    LET w == ack_events[k] IN
      worker[w].pc \in {"wait", "popTrue", "popFalse"} /\ AckKey(w) = k

\* What the protocol promises, with every retransmission, table and thread
\* left out: the calls of one slot share an address and a sequence number.
Service == INSTANCE FileService WITH
  Slot <- Addr \X Seqs,
  asked <- [r \in DOMAIN log |-> <<log[r].addr, log[r].seq>>],
  ended <- [r \in {q \in DOMAIN log : log[q].outcome # "pending"} |-> log[r].answer]

\* Every step of the protocol is one of the service, or none.
ImplementsService == Service!Spec

\* A request is executed at most once for each packet that passed the
\* duplicate test, however many times its response is sent.
ExecutedOncePerAcceptance ==
  \A r \in DOMAIN executed :
    r \in DOMAIN accepted /\ executed[r] <= accepted[r]

\* No call of send_request stays for ever in a retry loop or a wait.
EveryCallReturns ==
  \A a \in Addr : client[a].pc \in {"sending", "phase1", "phase2"}
                    ~> client[a].pc = "idle"

\* Every worker thread gets to its download or to its end: a client that went
\* away cannot pin it.
EveryWorkerEnds ==
  \A w \in Worker :
    worker[w].pc \notin {"free", "process"} ~> worker[w].pc \in {"free", "process"}

-----------------------------------------------------------------------------
(* The inductive invariant: whatever is in flight, in a thread or in a     *)
(* table was put there on behalf of a call that reached that stage.        *)

\* r was made from address a with sequence number s
HasSlot(r, a, s) == r \in DOMAIN log /\ log[r].addr = a /\ log[r].seq = s

AcceptedSlot(a, s) == \E r \in DOMAIN accepted : HasSlot(r, a, s)

\* the client took the response numbered Succ(s)
AnsweredSlot(a, s) ==
  \E r \in DOMAIN log : HasSlot(r, a, s) /\ log[r].outcome \in Received

PacketTraces(p) ==
  CASE p.to = "server" /\ p.flags = "DATA" -> HasSlot(p.body, p.addr, p.seq)
    [] p.to = "client" /\ p.flags = "DATA" ->
         /\ p.body \in DOMAIN executed
         /\ \E s \in Seqs : HasSlot(p.body, p.addr, s) /\ p.seq = Succ(s)
    [] p.to = "client" /\ p.flags = "ACK" -> AcceptedSlot(p.addr, p.seq)
    [] p.to = "server" /\ p.flags = "ACK" ->
         \E s \in Seqs : AnsweredSlot(p.addr, s) /\ p.seq = Succ(s)

Calling(a) == client[a].pc \in {"sending", "phase1", "phase2"}

ClientTraces(a) ==
  /\ Calling(a) => /\ HasSlot(client[a].call, a, client[a].seq)
                   /\ log[client[a].call].outcome = "pending"
  /\ ~Calling(a) => client[a].call = NoCall
  /\ client[a].pc = "phase2" => AcceptedSlot(a, client[a].seq)

WorkerTraces(w) ==
  ~FreeWorker(w) =>
    /\ HasSlot(worker[w].body, worker[w].addr, worker[w].seq)
    /\ worker[w].pc \notin {"check", "record"} =>
         worker[w].body \in DOMAIN accepted
    /\ worker[w].pc \notin {"check", "record", "process"} =>
         worker[w].body \in DOMAIN executed
    /\ worker[w].pc = "popTrue" => AnsweredSlot(worker[w].addr, worker[w].seq)

TablesTrace ==
  /\ \A w \in signalled : /\ worker[w].pc \in {"wait", "popTrue", "popFalse"}
                          /\ AnsweredSlot(worker[w].addr, worker[w].seq)
  /\ \A a \in DOMAIN last_seq : AcceptedSlot(a, last_seq[a])
  /\ DOMAIN executed \subseteq DOMAIN accepted
  /\ DOMAIN accepted \subseteq DOMAIN log

AnswersTrace ==
  \A r \in DOMAIN log : log[r].outcome \in Received =>
    log[r].answer \in DOMAIN executed /\ SameSlot(r, log[r].answer)

\* Every packet in flight, client, thread and table entry stands for a call
\* that got as far as the entry says, whatever the network did: no ACK for a
\* request nobody accepted, no event set for a response nobody took.
Provenance ==
  /\ \A p \in InFlight : PacketTraces(p)
  /\ \A a \in Addr : ClientTraces(a)
  /\ \A w \in Worker : WorkerTraces(w)
  /\ TablesTrace
  /\ AnswersTrace

-----------------------------------------------------------------------------
(* What the documents say and the code does not keep.                      *)

\* "Duplicate packet detection": a request is executed at most once.
AtMostOnce == \A r \in DOMAIN executed : executed[r] = 1

\* "100% data integrity": an answer is the answer to the call it ends.
AnswersMatch ==
  \A r \in DOMAIN log : log[r].outcome = "answered" => log[r].answer = r

=============================================================================
