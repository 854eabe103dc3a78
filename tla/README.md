# Network Protocol Simulator in TLA+

Models of the servers and clients of the Network Protocol Simulator, checked
with TLC and proved with TLAPS. Paths are relative to the repository.

## The system

| Part | Code | State | Operations |
|---|---|---|---|
| RUDP client | `rudp/rudp_client.py` | `_seq`, a UDP socket | `send_request` (send until the ACK, then wait for the response and ACK it), `close` |
| RUDP server | `rudp/rudp_server.py` | `_last_seq` (address → last number), `_ack_events` (address, number → Event), a lock around the events only | listener loop; a thread per DATA packet: duplicate test, ACK, download, `_reliable_send` of the response |
| Network | UDP; `core/network_conditions.py` simulates one | packets in flight | loss, duplication, delay |
| Server lifecycle | `core/base_server.py` | `_running`, `_thread`, the subclass's socket | `start`, `_run_wrapper`, `shutdown` |
| DHCP server | `dhcp/dhcp_server.py` | `IPPool`: `_available`, `_assigned` | DISCOVER, REQUEST, RELEASE |
| DNS server | `dns_srv/dns_server.py` | `DNSCache._records` | query listener (cache, then upstream resolver), update listener |
| TCP server | `http_srv/tcp_server.py` | `_active_threads`, a socket per connection | accept loop; a thread per connection: request, download, answer; joins at shutdown |
| Downloads | `download_file` of the TCP and the RUDP server | the files, in one directory | stream a URL into a file |
| Client window | `http_srv/client.py` | the enabled button | one request at a time over TCP or RUDP |
| Dashboard | `network_simulator.py` | child processes | launch a server, terminate all |
| Others | `core/socket_manager.py`, `core/logging_config.py`, `examples/`, `tests/` | | |

The four servers inherit the lifecycle and are otherwise independent processes.
Clients reach them by datagrams (a TCP stream for the TCP server); inside a
server, threads share dictionaries and a socket. The dashboard kills and
launches processes, and nothing is stored on disk except downloaded files.

What is hard, and what makes each part correct:

- **RUDP**: a stop-and-wait protocol in both directions with one-byte numbers,
  where the server handles each packet in a thread of its own, tests for
  duplicates without a lock and registers the Event of an ACK after it sent the
  packet; numbers are reused after a failure, by the next client on the port and
  after 128 calls. Correct: an answer was computed for the call it ends, an ACK
  means the request was taken, a confirmed delivery happened, the event table
  does not leak, calls and threads end.
- **Lifecycle**: the caller's `shutdown` runs beside a thread that creates,
  binds and publishes its socket, and starting the thread may fail. Correct: no
  thread that ran leaves `is_running` set, there is one thread at a time, sockets
  do not stay behind, threads end.
- **DHCP**: packets are delayed, repeated and reordered, and two clients compete
  for the last address. Correct: an address has one holder, none is lost, what
  was offered and leased stays reserved, nobody is turned away while an address is
  free.
- **DHCP options**: a packet is cut or malformed anywhere, and an exception ends
  the only thread. Correct: the loop ends, no read goes beyond the packet, and the
  loop finds the message type the options have.
- **TCP server and client window**: a thread is started before it is listed, a
  shutdown goes over the list while it grows, a download may last for ever, and
  either side of a connection may go at any time. Correct: a waiting client is
  accepted, threads that are not downloading end, a shutdown returns and leaves
  at most one handler that it did not wait for, an empty response means that
  nothing was written, the window's button comes back.
- **Downloads**: threads of two processes write to one file, and a stream may be
  cut. Correct: what the report of the download that opened a file last says is in
  the file.
- **DNS**: updates arrive between the steps of a query. Correct: an accepted
  answer is a text the cache held within the query, or what the resolver said when
  it held none; both listeners end.

`PROJECT.json` lists every hazard at its line, with the properties about it.

## Modules

| Module | What it is |
|---|---|
| `PyDict` | Python dictionaries as functions: `Put`, `Pop`, their type |
| `Rudp` | RUDP clients, server (listener and workers) and network, composed |
| `MCRudp` | its TLC instance: symmetry of workers and calls |
| `RudpProofs` | its inductive invariant and theorems |
| `FileService` | what a call of the RUDP service promises: an abstract specification that `Rudp` implements |
| `LeaseTable` | what an address pool promises: an abstract specification |
| `IpPool` | class `IPPool`, and that it implements `LeaseTable` |
| `IpPoolProofs` | its theorems, the refinement included |
| `DhcpServer` | extends `IpPool` with the packet handlers, the broadcasts and the clients |
| `MCDhcpServer` | its TLC instance |
| `DhcpServerProofs` | its inductive invariant and theorems, on top of those about the pool |
| `DhcpOptions`, `MCDhcpOptions` | the receive loop and `_extract_message_type`, and their TLC instance |
| `DhcpOptionsProofs` | its inductive invariant and theorems |
| `TcpServer`, `MCTcpServer` | the TCP server from its accept loop on, composed with client windows and other clients, and their TLC instance |
| `TcpServerProofs` | its inductive invariant and theorems |
| `Downloads`, `MCDownloads` | `download_file` in the threads of both servers, and its TLC instance |
| `DownloadsProofs` | its inductive invariant and theorems |
| `ServerLifecycle` | `BaseServer` with the socket handling of the four servers |
| `MCServerLifecycle` | its TLC instance |
| `ServerLifecycleProofs` | its inductive invariant and theorems |
| `DnsServer` | query listener, update listener, cache, resolver outcomes, clients |
| `MCDnsServer` | its TLC instance |
| `DnsServerProofs` | its inductive invariant and theorems |

### Rudp

`client[a]` is the `RUDPClient` on address `a` (`pc` is the place in
`send_request`, `seq` is `_seq`, `attempt` the round of `_reliable_send`);
`worker[w]` is a thread in `_handle_request`, `last_seq` and `ack_events` are
the dictionaries. `signalled` holds the workers whose current Event is set: an
Event belongs to one wait of one worker. Every access to a shared dictionary
and every `sendto` is a step of its own, with two exceptions: the duplicate test
and its ACK (`Check`), and recording the number and its ACK (`Record`). An ACK
that leaves later is indistinguishable from one the network delays, and
`Check` writes nothing that another thread reads.

`Call` identifies invocations of `send_request`; it stands for the payload of
a request and of its response, and is not visible to the protocol. `log`,
`accepted` and `executed` are history: no guard reads `accepted` or `executed`,
and `log` only keeps invocations distinct. Deadlines may pass at any moment, so
the durations and their doubling are left out. The code treats FIN as DATA
and sends none; a packet too short for a header changes nothing. `garbled` is
a response the client received, acknowledged and counted but could not decode
(it reads 2048 bytes, and a character may be cut). A step that raises
`OSError` has its own action. A `RuntimeError` of a thread that cannot be
started, and an `OSError` of the listener's socket, end the listener and clear
`_running`: `Shutdown` and `ListenerExits` stand for these too. After a shutdown
comes `Restart`, `start` of the same object, which keeps the dictionaries and the
workers, or `Relaunch`, a new process, which has neither. `MaxLaunch` bounds the two
together. A listener that outlived its `join` and runs beside the new one handles
packets as that one does, and the two count as one.

`FileService` keeps the calls with their slots (address and number), the two
bags, and how each call ended; `Service` in `Rudp` maps `log` to the first and
the last of these and drops clients, threads, tables, packets and the network.
A step of the protocol asks, accepts, executes, ends a call, or is invisible.

### DhcpServer and IpPool

Each method of `IPPool` holds one lock throughout, so it is one step. The
server has one thread and handles a packet at a time. `net` and `air` keep
every packet ever sent: a packet may be taken any number of times, in any order,
or never. Replies carry the transaction number but no hardware address; clients take
a reply by its number. The repository has one client, the example
(`examples/dhcp_dns_client.py`), and it only sends a DISCOVER, with the number
0x12345678 and a hardware address of zeros each time, and keeps nothing of the reply:
that is `Demo`, and `DemoMac` and `DemoXid` are what it sends. Clients that go on
to REQUEST and RELEASE, as `docs/protocols.md` describes and the handlers expect,
are external, and draw numbers nobody used. The requested address is not read by
the server, although `docs/protocols.md:32` says "Client requests the specific
offered IP". `upset` is history: whether a RELEASE of the client was handled,
or the server restarted, since it began its transaction.

### DhcpOptions

`data` is a packet: its length, whether it has the cookie, and the bytes from
offset 244 on. Every `struct.unpack_from` from the arrival of a packet to its
message type (lines 160, 161, 266, 272, 280 and 282 of `dhcp/dhcp_server.py`; the
first two are one step) is a step of its own, `Unpack`, which does not look at the
tests made before it: it compares where the read ends with the length of the packet
and ends the thread (`"dead"`) where `struct.error` would. The tests are other steps
(`Handle`, `Extract`, `Round`, `Option`, `Value`). So `NeverCrashes` says that the
test of `_serve_forever` is enough for `_handle_packet`, and those of the loop for
the reads that follow them after the offset has moved. `TypeFound` compares the
result with a definition of the options field that has no loop: the offsets at which
options begin are the least set that holds the first and, with an option, the next.
In `DhcpServer` a packet has a type from the start.

### TcpServer

`pc`, `taken` and `active` are the server's thread, its current `client_sock` and
`t`, and `_active_threads`; `handler[c]` is the thread in `_handle_client` for
connection `c`; `caller` is the thread in `shutdown`, `next` the position of its
loop over `_active_threads`. `conn[c]` holds both ends of a connection: `sent`,
`touched` and `answered` say how far its request got, and are forgotten when both
ends are closed. Starting a thread and appending it are two steps, and so are
any two rounds of the loop of `_cleanup`. Connections wait in the backlog until
they are accepted, and are reset when the listening socket is closed.

A window chooses TCP (`Connect` and what follows) or RUDP (`RudpReturns`: the call is
that of module `Rudp`). Strangers connect, send, send nothing and hang up as they like.
`ClickRaises` is the click whose `Thread.start` raises: the button was disabled before
(`http_srv/client.py:140-147`) and stays so. `recv(2048)` is taken to return the request
whole; a part of one would be answered like another request. The actions of one part
share one UNCHANGED, in `ServeStep`, `HandlerStep`, `Download`, `CallerStep` and
`WindowStep`.

### Downloads

A job is a thread in `download_file`; a file is the sequence of its chunks, and a
chunk its URL and its place there. Neither `download_file` compares what arrived with
a length: the loop ends when `iter_content` stops, which it does without an error when
a stream is cut and has no declared length, or with an old urllib3 (`requirements.txt`
does not pin it). So `Complete` may come after any number of chunks, and `told` keeps
the number it reports; `ReportIsTrue` promises the whole file only where the number is
that of all chunks. Every thread writes at its own offset: a chunk
beyond the end of a file that was truncated meanwhile leaves a hole. `latest` and
`told` are history: who opened a file last, whether another URL was being
written to it then, and what "Download complete" said to whom. Two different URLs in
one file spoil it; that the model shows this is the reason for `mixed`. `Kill` is
the dashboard terminating a server.

### ServerLifecycle

`kind` distinguishes the two ways in which the servers hold their socket: DHCP
in a local variable, published when bound; the others in the attribute that
`_cleanup` reads, which they read again in every round. `Start` is `start` up to the
new thread object, with `_running` set; then `Thread.start` succeeds (`ThreadStarts`)
or raises (`StartRaises`), and nothing takes the flag back. A thread's socket has
the thread's name. `Referenced` is CPython's reference counting: a socket is
closed when its last reference goes. `Errors` allows `OSError` from open sockets.
The second thread of the DNS server is modelled in `DnsServer` instead.

### DnsServer

The text of an update is an address, junk that `rrset.from_text` refuses, or empty,
which counts as a miss. `known` is history: what the cache held for a client's domain
since the client asked. `Upstream` is what the resolver can answer, which is no text of
the cache: `AnswersCurrent` admits that only when the cache held none for the domain at
some time within the query, and a text only when the cache held it then. Clients are
those of `examples/dhcp_dns_client.py`, which call `dns.query.udp`: it compares id and
question. Packets that dnspython cannot parse, and updates without exactly one comma,
change nothing.

## Runs

All bounds are constants. Passing runs explore their state space
completely; that of `dhcp_dora` is cut by the constraint `FewPackets`, named below.

| Run | Shows | Bounds |
|---|---|---|
| `rudp_port_reuse` | answers, ACKs and deliveries belong to the right call when two client objects share a port in turn; the protocol implements `FileService` | 1 address, 2 calls, 2 workers, 2 clients, 1 duplicate; numbers modulo 4 |
| `rudp_restart` | types, event table, executions, refinement, and that calls return and workers end, with retries on both sides, shutdown, and a restart of the object or a second launch | 1 call, 2 rounds on each side, 2 workers, 2 launches; numbers modulo 2, so they wrap at once |
| `rudp_at_most_once` | violation: a request is executed twice | 1 call, 2 rounds of the client |
| `rudp_answers_match` | violation: an answer to another call | 2 calls of one client |
| `dhcp_dora` | pool, offers, leases, clients turned away, refinement | 3 clients and the example, 2 addresses, 3 transaction numbers, 2 launches, 12 different packets |
| `dhcp_options` | the options loop ends and finds the type, no read goes beyond the packet | options of up to 5 bytes out of 0, 1, 2, 53 and 255; every shorter packet |
| `tcp` | waiting clients, handlers, shutdown, window, stragglers | 2 connections, 1 window |
| `downloads` | what is in a file whose download was reported complete, cut streams included | 3 downloads, 2 servers, 2 files, URLs of 2 chunks and 1 |
| `lifecycle` | one live thread, no socket left behind, threads end | 3 starts |
| `lifecycle_port` | violation: a port stays bound after `shutdown` | 1 start, no other errors |
| `dns` | accepted answers are current; listeners end | 1 client, 1 domain, 2 addresses, 2 ids |
| `dns_ids` | violation: a resolved answer has a foreign id | 1 client, 2 domains |

Why these are enough: every hazard of RUDP needs at most two calls that share a number,
two workers that share a key, one packet too many or one round too many, and each is
within a bound. Two workers at a time are a limit on threads, not on packets: a packet
waits in the network until a slot is free. Two addresses for three clients make the pool
run out and refill; three starts let a thread of the first outlive the second. Five
option bytes hold a pad, a skipped option and a cut message type together. Two
connections give a shutdown one thread to join and one that is appended meanwhile, and
let one download block, or not block, the other client. Twelve different packets are
three exchanges of DISCOVER, OFFER, REQUEST and ACK, or two with their RELEASEs beside
an exchange with the example: an address is leased, released and leased to another while
old packets, which may be taken again at any time, are about; and both addresses are
taken when the third client asks. Two downloads share a file while a third spoils or
repeats it. Lowering the retries from 5 to 1 or 2 keeps both outcomes of the loop's
condition. With fewer than 256 numbers a number comes round sooner, which adds
behaviours. The theorems below hold for every value.

`CHECK_DEADLOCK FALSE` everywhere but in `dhcp_options`, whose thread always has a
step: the other systems may come to rest (all calls made, server shut down).

### Fairness

- `Rudp`: weak fairness of each client's steps that need no packet (sending,
  deadlines) and of each worker outside its download. `settimeout` and
  `Event.wait` have timeouts and threads are scheduled. Nothing is assumed of the
  network, the listener, the server process, or a download: the timeout of
  `requests.get` is one for each read, so a download may never end.
- `TcpServer`: weak fairness of the server's thread, of each handler outside its
  download, of the thread in `shutdown`, and of each window that was clicked.
  `accept` has a timeout of 1 s, `recv` and `send` of 30 s, `join` of 2 and 5 s.
- `DhcpOptions`: weak fairness of the thread once it has a packet.
- `ServerLifecycle`: weak fairness of each thread: `recvfrom` and `accept` time
  out after one second. The caller owes nothing.
- `DnsServer`: weak fairness of the two listeners; the resolver has a lifetime.

## Proofs

Every safety property a passing run checks, invariant, action property or
refinement, is also a theorem, about every value of the constants that satisfies
the named assumptions (`RudpAssumption`, `PoolAssumption`, `DhcpAssumption`,
`OptionsAssumption`, `LifecycleAssumption`, `TcpAssumption`, `DownloadsAssumption`,
`DnsAssumption`: the ranges of numbers, and that a "none" is no value). The
theorems assume nothing of fairness. The argument is the same each time: an
invariant `Inv` holds at first, every step keeps it (a lemma for each action or
group of actions), and it implies the property or carries the step that the
property is about. TLC checked each `Inv` on the instances of the runs first.

**RudpProofs.** `Inv` is `TypeOK /\ Provenance /\ NoEventLeak`. That an answer
belongs to its call is not inductive: it follows from what the response packet
carries, which follows from what the worker holds, which follows from the packet
the listener took. `Provenance` states this chain for packets, clients, workers
and tables at once; it needs that `Succ` is injective on the numbers (a client
matches `seq + 1` and concludes `seq`) and that a step forgets no call,
acceptance or execution (`Persists`). `NoEventLeak` is needed for the ACK path:
an Event that an ACK sets must be that of a worker waiting for this number.
`AnswersAreOwn`, `AcksAreOwn` and `DeliveryIsConfirmed` follow; they are
conditional on no other call having used the number, which the code does not
ensure (see the findings).

`ExecutedOnce` needs a count: the executions of a request and the threads that
have recorded it as new and not executed it yet are together no more than its
acceptances (`CountInv`). Acceptance adds one to both sides, execution turns a
thread into an execution, and a thread that fails or dies with the process leaves
only the left side. `RefinesService` takes a step apart by what it does to
the history of the calls (`LogStep`: a call begins, fails or gets a response) or to
the two bags; the count is what allows `Execute`, and `Provenance` what allows
`Answer`. The code's flaws are inside what `FileService` permits: it does not say
that a request is accepted once, nor that slots are not used again.

**IpPoolProofs.** `PoolTypeOK /\ NoSharedLease /\ PoolConserved` is inductive:
that `allocate` lends an address nobody has needs that listed addresses are not
leased, and that the list has no repetition. `PoolRefinesTable` is the
refinement, initial state and steps.

**DhcpServerProofs.** That an offer is still held when the client requests it is
not inductive, because the offer may have been sent long ago: `AirInv` says of
every reply ever sent that the address in it is leased to the client whose
transaction it belongs to, unless that client is `upset`. It needs that a
transaction number belongs to one client (`ClientsInv`), and that no step of the
pool takes an address from anybody but by its own RELEASE or a restart
(`AllocateKeeps`, `ReleaseKeeps`); the example's number belongs to no client
(`DemoInv`). `OffersAreHeld` and `LeasesAreHeld` are then
what a client reads from a reply. `RefusedOnlyWhenFull` is about the two steps that
turn a client away, the DISCOVER that gets no answer and the REQUEST that gets a NAK:
the client had no lease and the list was empty, which means, by `PoolConserved`, that
everything is leased. The
pool's theorems are proved again for the whole server (`ServerKeepsPool`,
`ServerRefinesTable`), where a restart empties the table.

**DhcpOptionsProofs.** The invariant says that the loop stands where an option
begins and has passed over all before it: no option that begins before the offset
is a message type, and none of them leads beyond the offset. Then no option begins
between the offset and the next one (`NothingBetween`): the offsets at which
options begin are the least closed set, and without those in between it would
still be closed. It also says, for each place before a read, what the tests passed so
far have established of the length (that there is an option, its length byte, a byte
of its value): `NoPacketCrashes` is that each read ends within it.

**ServerLifecycleProofs.** The invariant says which thread may still be alive
while the caller is outside, in `start`, in `_cleanup` or in `join`, and which
sockets may be open at each place of a thread; `timedOut` is the one way to break it.
A start that raised leaves a thread that never runs, and a flag that only `shutdown`
clears: `RunningHasThread` says that this is the only way for `is_running` to stay
set without a thread.

**TcpServerProofs.** `OneStraggler` needs two facts about a list that grows while a
shutdown goes over it. Every live handler is in the list or about to be appended
(`LoopInv`), and every thread before the caller's position is dead (`CallerInv`).
Nothing is accepted once the socket is closed, so after the caller left the list
at most one thread is appended: that is the one that may be alive. `EmptyIsUntouched`
follows from `ConnInv`, which relates a handler's place to its connection.

**DownloadsProofs.** The invariant speaks of files that are not mixed. Whoever writes to
one has the URL of its latest download, so whatever is in place stays what it is when
several threads write it; and the chunks the latest download has passed are there, holes
notwithstanding; when it is reported, their number goes into `told`. A thread that lags
behind can only fill holes or write what is there. `ThreadsInv` says that a thread that
was reported is over and that nothing is written beyond the end of a URL: with all
chunks reported, the file is the one at the URL.

**DnsServerProofs.** `AnswersAreCurrent` is about a step; the invariant carries what a
query found through the listener and the network: while the client still waits with the
same id and domain, the text in the listener's hands (`ListenerInv`) was in the cache
since it asked, and every reply (`RepliesInv`) carries such a text, or what the resolver
can say when the cache held none since it asked (`Rightly`). A reply with an id of the
client answers a query of that client: an id is not used twice, and the resolver's own
ids are not those of clients (both are what the model assumes of 16 random bits).

Only model-checked: the liveness properties (`EveryCallReturns`,
`EveryWorkerEnds`, `ParseEnds`, `SlowDownloadsBlockNobody`, `HandlersEnd`,
`ShutdownEnds`, `EveryWindowRecovers`, `StopsAtLast`, `ListenersEnd`), because
fairness and `ENABLED` are beyond the prover. For the loop over the options
`RoundsAdvance` proves the measure behind `ParseEnds`. The counterexamples of the four
runs that expect a violation are TLC's. No proof is by induction over data: the
recursion of a loop is in the steps of a module, never in a recursive operator.

## What the documents say and the code does not keep

Four runs end in a counterexample on purpose; `PROJECT.json` quotes the lines.

1. Duplicate detection is not atomic: two copies of a request can both run.
2. After a call that failed, the next one can return the first one's answer.
3. A `shutdown` soon after `start` leaves the port bound.
4. A forwarded answer carries the resolver's message id.

Seen while modelling, and visible in the models without a run of their own: what
the upstream resolver finds is not cached (`ResolverFinds` leaves `records` alone,
`dns_srv/dns_server.py:15` says "Cache results for subsequent queries"); leases do
not survive the process (`Relaunch` of `DhcpServer`, `README.md:58`); `_cleanup`,
which says it will "wait for active threads" (`http_srv/tcp_server.py:171`), can
miss the thread of a connection accepted just before (`AtMostOneStraggler` allows
for that one). A start whose `Thread.start` raises leaves `is_running` set, so the next
`start` is refused until somebody calls `shutdown` (`core/base_server.py:48-53`,
`StartRaises`); in the window it leaves the button disabled
(`http_srv/client.py:140-147`, `ClickRaises`). A download cut without an error is
reported as "Download complete", with the bytes it had (`http_srv/tcp_server.py:77-85`,
`Complete` before the last chunk).

## Not modelled

- `ManagedSocket` (used by no server) and the set-up of logging: no protocol state.
- The widgets of the windows, and the dashboard beyond launching and terminating
  servers. Two live processes on one port: the UDP servers set `SO_REUSEADDR`, so
  on some systems a second launch binds the port too, and which of them gets a
  packet is the kernel's choice.
- The simulator's latency and bandwidth arithmetic. Its `reorder_rate` is read by
  `should_reorder` only, which `maybe_send` never calls; the models let the network
  reorder anyway.
- Packet layouts, the expiry of leases (the code has none), clients of DHCP that
  draw the same transaction number, a request cut in two by TCP.
- The exit of a process in the middle of an answer, which closes its connections.

## Plan

Done, in order of importance: `Rudp`, `FileService` and the proofs about `Rudp`;
`IpPool`, `LeaseTable`, `DhcpServer`; `ServerLifecycle`; `DnsServer`; `TcpServer`;
`Downloads`; `DhcpOptions`.

Proved, in this order: the protocol's provenance, the pool and its refinement, the
options, the lifecycle; then the downloads, the DHCP server, the DNS server, the TCP
server, and last the count of executions and the refinement of `FileService`.

To come: measures like `RoundsAdvance` behind the other liveness properties (a call of
`Rudp` passes its places in order and its attempts are bounded; the position of a
shutdown in its list only grows), as action properties that the prover can reach.
