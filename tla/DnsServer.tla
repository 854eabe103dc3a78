------------------------------ MODULE DnsServer ------------------------------
(***************************************************************************)
(* The DNS server, dns_srv/dns_server.py: a thread that answers queries    *)
(* from the cache or from an upstream resolver, and a thread that puts     *)
(* "domain,ip" updates into the cache; with the clients that query it.     *)
(*                                                                         *)
(* Packets that were sent stay in queries and replies: they may arrive at  *)
(* any time, again, in another order, or never.  An update may arrive at   *)
(* any time.                                                               *)
(***************************************************************************)
EXTENDS Naturals, PyDict

CONSTANTS
  Client,        \* addresses of clients
  Domain,        \* domain names
  Ip,            \* texts that are addresses
  Junk,          \* a text that is none: dnspython refuses it
  Id,            \* message ids of the clients' queries
  ResolverId,    \* a message id of the upstream resolver's own queries
  DefaultCache   \* DEFAULT_CACHE

\* "" in an update; the answer that the domain does not exist; the address
\* that the upstream resolver finds
Empty == "empty"
NxDomain == "NXDOMAIN"
Resolved == "resolved"

Text == Ip \cup {Junk, Empty}

ASSUME DnsAssumption ==
  /\ DictType(DefaultCache, Domain, Ip)
  /\ Junk \notin Ip /\ {Empty, NxDomain, Resolved} \cap (Ip \cup {Junk}) = {}
  /\ ResolverId \notin Id

VARIABLES
  is_running,  \* BaseServer._running
  records,     \* DNSCache._records: dictionary domain -> text
  listener,    \* the query listener: what it does, for which query
  updater,     \* the update listener: whether it still reads
  client,      \* the clients: what each waits for, if it does
  queries,     \* the packets sent to the query port
  replies,     \* the packets the server sent to clients
  known        \* history: the texts the cache had for a client's domain since
               \* the client asked

clientVars == <<client, queries>>
vars == <<is_running, records, listener, updater, client, queries, replies,
          known>>

Query == [client: Client, id: Id, domain: Domain]

Update == [domain: Domain, text: Text]

Reply == [client: Client, id: Id \cup {ResolverId}, domain: Domain,
          answer: Ip \cup {NxDomain, Resolved}]

Done == [pc |-> "recv"]
Gone == [pc |-> "gone"]

\* DNSCache.lookup, with "" for None: both are false
Lookup(d) == IF d \in DOMAIN records THEN records[d] ELSE Empty

-----------------------------------------------------------------------------
(* The query listener: _listen_queries and _handle_query.                  *)

\* recvfrom; once the server is shut down this can still happen, until the
\* socket is closed
RecvQuery(q) ==
  /\ listener.pc = "recv"
  /\ listener' = [pc |-> "lookup", query |-> q]
  /\ UNCHANGED <<is_running, records, updater, clientVars, replies, known>>

\* recvfrom raises on the closed socket, or times out
QueryListenerEnds ==
  /\ listener.pc = "recv" /\ ~is_running
  /\ listener' = Gone
  /\ UNCHANGED <<is_running, records, updater, clientVars, replies, known>>

\* recvfrom raises another OSError: the loop breaks, and the finally clause of
\* _run_wrapper clears _running
QueryListenerBreaks ==
  /\ listener.pc = "recv" /\ is_running
  /\ listener' = Gone /\ is_running' = FALSE
  /\ UNCHANGED <<records, updater, clientVars, replies, known>>

\* if cached_ip (mutants: the cache is not consulted; nothing is a miss)
NeverHit(t) == FALSE
AlwaysHit(t) == TRUE
IsHit(t) == t # Empty

CacheLookup ==
  /\ listener.pc = "lookup"
  /\ LET t == Lookup(listener.query.domain) IN
       listener' = IF IsHit(t)
                   THEN [pc |-> "hit", query |-> listener.query, text |-> t]
                   ELSE [pc |-> "resolve", query |-> listener.query]
  /\ UNCHANGED <<is_running, records, updater, clientVars, replies, known>>

\* back to the loop's condition (mutant: while True)
Loop == listener' = Done
Again == listener' = IF is_running THEN Done ELSE Gone

\* an answer to the query being handled, under message id i
Answer(i, a) ==
  replies' = replies \cup
    {[client |-> listener.query.client, id |-> i,
      domain |-> listener.query.domain, answer |-> a]}

\* make_response copies the id of the query; rrset.from_text refuses a text
\* that is no address, and the query is dropped
SendHit ==
  /\ listener.pc = "hit"
  /\ IF listener.text \in Ip THEN Answer(listener.query.id, listener.text)
                             ELSE UNCHANGED replies
  /\ Again
  /\ UNCHANGED <<is_running, records, updater, clientVars, known>>

\* the resolver's response is forwarded as it is, its id included
ResolverFinds ==
  /\ listener.pc = "resolve"
  /\ Answer(ResolverId, Resolved)
  /\ Again
  /\ UNCHANGED <<is_running, records, updater, clientVars, known>>

\* NXDOMAIN or NoAnswer
ResolverFindsNothing ==
  /\ listener.pc = "resolve"
  /\ Answer(listener.query.id, NxDomain)
  /\ Again
  /\ UNCHANGED <<is_running, records, updater, clientVars, known>>

\* a timeout, or any other exception: no reply
ResolverFails ==
  /\ listener.pc = "resolve"
  /\ Again
  /\ UNCHANGED <<is_running, records, updater, clientVars, replies, known>>

-----------------------------------------------------------------------------
(* The update listener: _listen_updates and DNSCache.update.               *)

Waiting(c) == client[c].pc = "waiting"

RecvUpdate(u) ==
  /\ updater = "recv"
  /\ records' = Put(records, u.domain, u.text)
  /\ updater' = IF is_running THEN "recv" ELSE "gone"
  /\ known' = [c \in Client |->
                 IF Waiting(c) /\ client[c].query.domain = u.domain
                 THEN known[c] \cup {u.text} ELSE known[c]]
  /\ UNCHANGED <<is_running, listener, clientVars, replies>>

UpdateListenerEnds ==
  /\ updater = "recv" /\ ~is_running
  /\ updater' = "gone"
  /\ UNCHANGED <<is_running, records, listener, clientVars, replies, known>>

\* its recvfrom raises OSError while the server runs: the loop breaks, and
\* nobody notices
UpdateListenerBreaks ==
  /\ updater = "recv" /\ is_running
  /\ updater' = "gone"
  /\ UNCHANGED <<is_running, records, listener, clientVars, replies, known>>

Shutdown ==
  /\ is_running
  /\ is_running' = FALSE
  /\ UNCHANGED <<records, listener, updater, clientVars, replies, known>>

-----------------------------------------------------------------------------
(* The clients, dns.query.udp: an answer must have the id and the question *)
(* of the query.  An id is random: a client does not use one twice here.   *)

Ask(q) ==
  /\ ~Waiting(q.client)
  /\ \A p \in queries : p.client = q.client => p.id # q.id
  /\ queries' = queries \cup {q}
  /\ client' = [client EXCEPT ![q.client] = [pc |-> "waiting", query |-> q]]
  /\ known' = [known EXCEPT ![q.client] = {Lookup(q.domain)}]
  /\ UNCHANGED <<is_running, records, listener, updater, replies>>

Idle(c) ==
  /\ client' = [client EXCEPT ![c] = [pc |-> "idle"]]
  /\ known' = [known EXCEPT ![c] = {}]
  /\ UNCHANGED <<is_running, records, listener, updater, queries, replies>>

\* the answer is returned to the application
Accept(p) ==
  /\ Waiting(p.client)
  /\ p.id = client[p.client].query.id
  /\ p.domain = client[p.client].query.domain
  /\ Idle(p.client)

\* the client's timeout
GiveUp(c) == Waiting(c) /\ Idle(c)

-----------------------------------------------------------------------------

Init ==
  /\ is_running = TRUE
  /\ records = DefaultCache
  /\ listener = Done
  /\ updater = "recv"
  /\ client = [c \in Client |-> [pc |-> "idle"]]
  /\ queries = {} /\ replies = {}
  /\ known = [c \in Client |-> {}]

ListenerStep ==
  \/ CacheLookup \/ SendHit
  \/ ResolverFinds \/ ResolverFindsNothing \/ ResolverFails
  \/ QueryListenerEnds

ClientStep ==
  \/ \E q \in Query : Ask(q)
  \/ \E p \in replies : Accept(p)
  \/ \E c \in Client : GiveUp(c)

Next ==
  \/ ListenerStep \/ UpdateListenerEnds
  \/ QueryListenerBreaks \/ UpdateListenerBreaks \/ Shutdown
  \/ \E q \in queries : RecvQuery(q)
  \/ \E u \in Update : RecvUpdate(u)
  \/ ClientStep

Spec == Init /\ [][Next]_vars

\* The two threads are scheduled: recvfrom has a timeout of one second, and
\* the resolver gives up after its lifetime.
FairSpec ==
  /\ Spec
  /\ WF_vars(ListenerStep)
  /\ WF_vars(UpdateListenerEnds)

-----------------------------------------------------------------------------
(* Properties.                                                             *)

\* Every variable holds what the code, or a client, can put there.
TypeOK ==
  /\ is_running \in BOOLEAN
  /\ DictType(records, Domain, Text)
  /\ listener \in {Done, Gone} \cup [pc: {"lookup", "resolve"}, query: Query]
                    \cup [pc: {"hit"}, query: Query, text: Text \ {Empty}]
  /\ updater \in {"recv", "gone"}
  /\ client \in [Client -> {[pc |-> "idle"]} \cup [pc: {"waiting"}, query: Query]]
  /\ queries \subseteq Query /\ replies \subseteq Reply
  /\ known \in [Client -> SUBSET Text]

\* the answers that come from the upstream resolver, not from a record
Upstream == {NxDomain, Resolved}

\* A client accepts an address from the cache only if the cache had it for the
\* domain between its query and the answer, and an answer of the resolver only
\* if the cache had no text for the domain at some time between the two.
\* Neither a record that was replaced before the query nor an answer to an
\* earlier query shows through, however late it arrives.
AnswersCurrent ==
  [][\A p \in replies : Accept(p) =>
       \/ p.answer \in known[p.client]
       \/ p.answer \in Upstream /\ Empty \in known[p.client]]_vars

\* After a shutdown both threads end, whatever they were doing.
ListenersEnd == ~is_running ~> listener = Gone /\ updater = "gone"

\* "resolves DNS A queries": a reply answers a query, so it has the query's id.
RepliesAnswerQueries ==
  \A p \in replies :
    [client |-> p.client, id |-> p.id, domain |-> p.domain] \in queries

=============================================================================
