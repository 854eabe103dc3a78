--------------------------- MODULE DnsServerProofs ---------------------------
(***************************************************************************)
(* Theorems about DnsServer, for any clients, domains, addresses, message  *)
(* ids and initial records, with updates at any time and a network that    *)
(* loses, delays, repeats and reorders packets as it likes.                *)
(***************************************************************************)
EXTENDS DnsServer, TLAPS

-----------------------------------------------------------------------------
(* The inductive invariant.                                                *)

\* client c waits for the answer to its query with id i, about domain d
Awaits(c, i, d) ==
  Waiting(c) /\ client[c].query.id = i /\ client[c].query.domain = d

\* What a client waits for it asked itself, and it knows the text the cache
\* has now.
ClientsInv ==
  \A c \in Client : Waiting(c) =>
    /\ client[c].query \in queries /\ client[c].query.client = c
    /\ Lookup(client[c].query.domain) \in known[c]

\* the text t was in the cache since the client of q asked, if it still waits
Timely(q, t) == Awaits(q.client, q.id, q.domain) => t \in known[q.client]

\* The listener handles a query that was asked, and what it looked up for it
\* was true since.
ListenerInv ==
  /\ listener.pc \in {"lookup", "hit", "resolve"} => listener.query \in queries
  /\ listener.pc = "hit" => Timely(listener.query, listener.text)
  /\ listener.pc = "resolve" => Timely(listener.query, Empty)

\* the answer a is one the cache had, or the resolver's while the cache had
\* none, since the client of q asked
Rightly(q, a) == Timely(q, a) \/ (a \in Upstream /\ Timely(q, Empty))

\* A reply with a client's id answers a query of that client, rightly.
RepliesInv ==
  \A p \in replies :
    /\ p.id # ResolverId =>
         \E q \in queries : q.client = p.client /\ q.id = p.id
    /\ Rightly(p, p.answer)

Inv == TypeOK /\ ClientsInv /\ ListenerInv /\ RepliesInv

-----------------------------------------------------------------------------
(* Frames and types.                                                       *)

\* What the listener's record holds at each of its steps.
LEMMA ListenerFields ==
  ASSUME TypeOK
  PROVE  /\ listener.pc \in {"lookup", "resolve"} => listener.query \in Query
         /\ listener.pc = "hit" => listener.query \in Query /\ listener.text \in Text
BY DEF TypeOK, Done, Gone

\* What is known only grows while the clients do nothing, so what was timely
\* stays so.
LEMMA TimelyStays ==
  ASSUME client' = client, \A c \in Client : known[c] \subseteq known'[c],
         NEW q, NEW t, q.client \in Client, Timely(q, t)
  PROVE  Timely(q, t)'
BY DEF Timely, Awaits, Waiting

\* A step that touches neither the clients nor the cache.
LEMMA ClientsStay ==
  ASSUME ClientsInv, client' = client, known' = known, queries' = queries, records' = records
  PROVE  ClientsInv'
BY DEF ClientsInv, Waiting, Lookup

\* Nor does it make anything timely that was not, or the reverse.
LEMMA TimelySame ==
  ASSUME client' = client, known' = known, NEW q, NEW t
  PROVE  Timely(q, t)' <=> Timely(q, t)
BY DEF Timely, Awaits, Waiting

LEMMA RightlySame ==
  ASSUME client' = client, known' = known, NEW q, NEW a, Rightly(q, a)
  PROVE  Rightly(q, a)'
BY TimelySame DEF Rightly

\* A lookup tells the client of the query the truth.
LEMMA LookupTimely ==
  ASSUME ClientsInv, NEW q \in Query
  PROVE  Timely(q, Lookup(q.domain))
BY DEF ClientsInv, Timely, Awaits, Query

LEMMA LookupIsText == ASSUME TypeOK, NEW d \in Domain PROVE Lookup(d) \in Text
BY DEF TypeOK, DictType, Lookup, Text

LEMMA InitInv == Init => Inv
<1> SUFFICES ASSUME Init PROVE Inv
  OBVIOUS
<1>1. TypeOK
  <2>1. DictType(records, Domain, Text)
    BY DnsAssumption DEF Init, DictType, Text
  <2> QED
    BY <2>1 DEF Init, TypeOK
<1>2. \A c \in Client : ~Waiting(c)
  BY DEF Init, Waiting
<1>3. ClientsInv /\ ListenerInv /\ RepliesInv
  BY <1>2 DEF Init, Done, ClientsInv, ListenerInv, RepliesInv
<1> QED
  BY <1>1, <1>3 DEF Inv

-----------------------------------------------------------------------------
(* The query listener.                                                     *)

\* Steps after which the listener holds no query, and nothing but is_running,
\* updater and the listener may have changed.
LEMMA ListenerRests ==
  ASSUME Inv, listener' \in {Done, Gone}, is_running' \in BOOLEAN, updater' \in {"recv", "gone"},
         UNCHANGED <<records, clientVars, replies, known>>
  PROVE  Inv'
<1>1. /\ records' = records /\ client' = client /\ queries' = queries
      /\ replies' = replies /\ known' = known
  BY DEF clientVars
<1>2. TypeOK'
  BY <1>1 DEF Inv, TypeOK
<1>3. ClientsInv'
  BY <1>1, ClientsStay DEF Inv
<1>4. ListenerInv'
  BY DEF ListenerInv, Done, Gone
<1>5. RepliesInv'
  BY <1>1, RightlySame DEF Inv, RepliesInv
<1> QED
  BY <1>2, <1>3, <1>4, <1>5 DEF Inv

\* The same with one more reply, which answers the listener's query.
LEMMA AnswerInv ==
  ASSUME Inv, listener.query \in queries, listener.query \in Query,
         NEW i \in {listener.query.id, ResolverId}, NEW a \in Ip \cup {NxDomain, Resolved},
         i = ResolverId \/ Rightly(listener.query, a),
         Answer(i, a), Again,
         UNCHANGED <<is_running, records, updater, clientVars, known>>
  PROVE  Inv'
<1> DEFINE r == [client |-> listener.query.client, id |-> i,
                 domain |-> listener.query.domain, answer |-> a]
<1>1. /\ records' = records /\ client' = client /\ queries' = queries
      /\ replies' = replies \cup {r} /\ known' = known
      /\ is_running' = is_running /\ updater' = updater
  BY DEF clientVars, Answer
<1>2. listener' \in {Done, Gone}
  BY DEF Again
<1>3. r \in Reply
  BY DEF Query, Reply
<1>4. TypeOK'
  BY <1>1, <1>2, <1>3 DEF Inv, TypeOK
<1>5. ClientsInv'
  BY <1>1, ClientsStay DEF Inv
<1>6. ListenerInv'
  BY <1>2 DEF ListenerInv, Done, Gone
<1>7. ASSUME NEW p \in replies'
      PROVE  /\ p.id # ResolverId => \E q \in queries' : q.client = p.client /\ q.id = p.id
             /\ Rightly(p, p.answer)'
  <2>1. CASE p \in replies
    BY <1>1, <2>1, RightlySame DEF Inv, RepliesInv
  <2>2. CASE p = r
    <3>1. p.id # ResolverId => \E q \in queries' : q.client = p.client /\ q.id = p.id
      BY <1>1, <2>2
    <3>2. CASE i = ResolverId
      <4>1. ~Awaits(p.client, p.id, p.domain)
        <5>1. p.client \in Client /\ p.id \notin Id
          BY <2>2, <3>2, DnsAssumption DEF Query
        <5>2. Waiting(p.client) => client[p.client].query.id \in Id
          BY <5>1 DEF Inv, TypeOK, Waiting, Query
        <5> QED
          BY <5>1, <5>2 DEF Awaits
      <4>2. Rightly(p, p.answer)
        BY <4>1 DEF Rightly, Timely
      <4> QED
        BY <1>1, <3>1, <4>2, RightlySame
    <3>3. CASE i # ResolverId
      <4>1. /\ p.client = listener.query.client /\ p.id = listener.query.id
            /\ p.domain = listener.query.domain /\ p.answer = a
        BY <2>2, <3>3
      <4>2. Rightly(p, p.answer)
        BY <3>3, <4>1 DEF Rightly, Timely
      <4> QED
        BY <1>1, <3>1, <4>2, RightlySame
    <3> QED
      BY <3>2, <3>3
  <2> QED
    BY <1>1, <2>1, <2>2
<1>8. RepliesInv'
  BY <1>7 DEF RepliesInv
<1> QED
  BY <1>4, <1>5, <1>6, <1>8 DEF Inv

\* The listener takes up a query: what it has looked up is true.
LEMMA HoldsInv ==
  ASSUME Inv, NEW q \in queries, Timely(q, Lookup(q.domain)),
         \/ listener' = [pc |-> "lookup", query |-> q]
         \/ listener' = [pc |-> "hit", query |-> q, text |-> Lookup(q.domain)]
              /\ Lookup(q.domain) # Empty
         \/ listener' = [pc |-> "resolve", query |-> q] /\ Lookup(q.domain) = Empty,
         UNCHANGED <<is_running, records, updater, clientVars, replies, known>>
  PROVE  Inv'
<1>1. /\ records' = records /\ client' = client /\ queries' = queries
      /\ replies' = replies /\ known' = known
      /\ is_running' = is_running /\ updater' = updater
  BY DEF clientVars
<1>2. TypeOK /\ q \in Query /\ Lookup(q.domain) \in Text
  BY LookupIsText DEF Inv, TypeOK, Query
<1>3. TypeOK'
  <2>1. listener' \in [pc: {"lookup", "resolve"}, query: Query]
                        \cup [pc: {"hit"}, query: Query, text: Text \ {Empty}]
    BY <1>2
  <2> QED
    BY <1>1, <1>2, <2>1 DEF TypeOK
<1>4. ClientsInv'
  BY <1>1, ClientsStay DEF Inv
<1>5. ListenerInv'
  <2>1. /\ listener'.query = q
        /\ listener'.pc = "hit" => listener'.text = Lookup(q.domain)
        /\ listener'.pc = "resolve" => Lookup(q.domain) = Empty
    OBVIOUS
  <2> QED
    BY <1>1, <2>1 DEF ListenerInv, Timely, Awaits, Waiting
<1>6. RepliesInv'
  BY <1>1, RightlySame DEF Inv, RepliesInv
<1> QED
  BY <1>3, <1>4, <1>5, <1>6 DEF Inv

LEMMA ListenerStepInv == ASSUME Inv, ListenerStep PROVE Inv'
<1>1. TypeOK /\ ClientsInv /\ ListenerInv /\ is_running \in BOOLEAN /\ updater \in {"recv", "gone"}
  BY DEF Inv, TypeOK
<1>2. Again => listener' \in {Done, Gone}
  BY DEF Again
<1>3. CASE CacheLookup
  <2>1. listener.query \in Query /\ listener.query \in queries
    BY <1>1, <1>3, ListenerFields DEF CacheLookup, ListenerInv
  <2> DEFINE q == listener.query
  <2>2. Timely(q, Lookup(q.domain))
    BY <1>1, <2>1, LookupTimely
  <2>3. /\ \/ listener' = [pc |-> "hit", query |-> q, text |-> Lookup(q.domain)]
                /\ Lookup(q.domain) # Empty
           \/ listener' = [pc |-> "resolve", query |-> q] /\ Lookup(q.domain) = Empty
        /\ UNCHANGED <<is_running, records, updater, clientVars, replies, known>>
    BY <1>3 DEF CacheLookup, IsHit
  <2> HIDE DEF q
  <2> QED
    BY <2>1, <2>2, <2>3, HoldsInv DEF q
<1>4. CASE SendHit
  <2>1. /\ listener.query \in Query /\ listener.query \in queries
        /\ Timely(listener.query, listener.text)
    BY <1>1, <1>4, ListenerFields DEF SendHit, ListenerInv
  <2>2. CASE listener.text \in Ip
    <3>1. /\ Answer(listener.query.id, listener.text) /\ Again
          /\ UNCHANGED <<is_running, records, updater, clientVars, known>>
      BY <1>4, <2>2 DEF SendHit
    <3> QED
      BY <2>1, <2>2, <3>1, AnswerInv DEF Rightly
  <2>3. CASE listener.text \notin Ip
    BY <1>1, <1>2, <1>4, <2>3, ListenerRests DEF SendHit
  <2> QED
    BY <2>2, <2>3
<1>5. CASE ResolverFinds \/ ResolverFindsNothing
  <2>1. /\ listener.query \in Query /\ listener.query \in queries
        /\ Timely(listener.query, Empty)
    BY <1>1, <1>5, ListenerFields DEF ResolverFinds, ResolverFindsNothing, ListenerInv
  <2>2. /\ Again /\ UNCHANGED <<is_running, records, updater, clientVars, known>>
        /\ Answer(ResolverId, Resolved) \/ Answer(listener.query.id, NxDomain)
    BY <1>5 DEF ResolverFinds, ResolverFindsNothing
  <2>3. Rightly(listener.query, NxDomain)
    BY <2>1 DEF Rightly, Upstream
  <2> QED
    BY <2>1, <2>2, <2>3, AnswerInv
<1>6. CASE ResolverFails
  BY <1>1, <1>2, <1>6, ListenerRests DEF ResolverFails
<1>7. CASE QueryListenerEnds
  BY <1>1, <1>7, ListenerRests DEF QueryListenerEnds
<1> QED
  BY <1>3, <1>4, <1>5, <1>6, <1>7 DEF ListenerStep

-----------------------------------------------------------------------------
(* The other threads, and the clients.                                     *)

LEMMA RecvQueryInv == ASSUME Inv, NEW q \in queries, RecvQuery(q) PROVE Inv'
<1>1. q \in Query /\ Timely(q, Lookup(q.domain))
  BY LookupTimely DEF Inv, TypeOK
<1> QED
  BY <1>1, HoldsInv DEF RecvQuery

\* A step of the server that leaves the listener alone, and with it all that
\* the clients know.
LEMMA ControlInv ==
  ASSUME Inv, is_running' \in BOOLEAN, updater' \in {"recv", "gone"},
         UNCHANGED <<records, listener, clientVars, replies, known>>
  PROVE  Inv'
<1>1. /\ records' = records /\ client' = client /\ queries' = queries
      /\ replies' = replies /\ known' = known /\ listener' = listener
  BY DEF clientVars
<1>2. TypeOK'
  BY <1>1 DEF Inv, TypeOK
<1>3. ClientsInv'
  BY <1>1, ClientsStay DEF Inv
<1>4. ListenerInv'
  BY <1>1 DEF Inv, ListenerInv, Timely, Awaits, Waiting
<1>5. RepliesInv'
  BY <1>1, RightlySame DEF Inv, RepliesInv
<1> QED
  BY <1>2, <1>3, <1>4, <1>5 DEF Inv

\* An update adds its text to what the clients of its domain know.
LEMMA RecvUpdateInv == ASSUME Inv, NEW u \in Update, RecvUpdate(u) PROVE Inv'
<1>1. /\ records' = Put(records, u.domain, u.text)
      /\ known' = [c \in Client |->
                     IF Waiting(c) /\ client[c].query.domain = u.domain
                     THEN known[c] \cup {u.text} ELSE known[c]]
      /\ updater' \in {"recv", "gone"} /\ is_running' = is_running /\ listener' = listener
      /\ client' = client /\ queries' = queries /\ replies' = replies
      /\ TypeOK /\ u.domain \in Domain /\ u.text \in Text
  BY DEF RecvUpdate, clientVars, Update, Inv
<1>2. /\ \A c \in Client : known[c] \subseteq known'[c]
      /\ \A c \in Client : Waiting(c) /\ client[c].query.domain = u.domain => u.text \in known'[c]
  BY <1>1
<1>3. TypeOK'
  <2>1. DictType(records, Domain, Text)'
    BY <1>1 DEF TypeOK, DictType, Put
  <2>2. known' \in [Client -> SUBSET Text]
    BY <1>1 DEF TypeOK
  <2> QED
    BY <1>1, <2>1, <2>2 DEF TypeOK
<1>4. ASSUME NEW c \in Client, Waiting(c)'
      PROVE  /\ client'[c].query \in queries' /\ client'[c].query.client = c
             /\ Lookup(client[c].query.domain)' \in known'[c]
  <2>1. /\ Waiting(c) /\ client[c].query \in queries /\ client[c].query.client = c
        /\ Lookup(client[c].query.domain) \in known[c]
    BY <1>1, <1>4 DEF Inv, ClientsInv, Waiting
  <2>2. ASSUME NEW d, d = client[c].query.domain PROVE Lookup(d)' \in known'[c]
    <3>1. CASE d = u.domain
      BY <1>1, <1>2, <2>1, <2>2, <3>1 DEF Lookup, Put
    <3>2. CASE d # u.domain
      <4>1. Lookup(d)' = Lookup(d)
        BY <1>1, <3>2 DEF Lookup, Put
      <4> QED
        BY <1>2, <2>1, <2>2, <4>1
    <3> QED
      BY <3>1, <3>2
  <2> QED
    BY <1>1, <2>1, <2>2
<1>5. ClientsInv'
  BY <1>1, <1>4 DEF ClientsInv
<1>6. ListenerInv'
  <2>1. listener.pc \in {"lookup", "hit", "resolve"} => listener.query.client \in Client
    BY <1>1, ListenerFields DEF Query
  <2>2. listener.pc = "hit" => Timely(listener.query, listener.text)'
    BY <1>1, <1>2, <2>1 DEF Inv, ListenerInv, Timely, Awaits, Waiting
  <2>3. listener.pc = "resolve" => Timely(listener.query, Empty)'
    BY <1>1, <1>2, <2>1 DEF Inv, ListenerInv, Timely, Awaits, Waiting
  <2> QED
    BY <1>1, <2>2, <2>3 DEF Inv, ListenerInv
<1>7. RepliesInv'
  <2>1. \A p \in replies : p.client \in Client
    BY <1>1 DEF TypeOK, Reply
  <2> QED
    BY <1>1, <1>2, <2>1, TimelyStays DEF Inv, RepliesInv, Rightly
<1> QED
  BY <1>3, <1>5, <1>6, <1>7 DEF Inv

\* A client that stops waiting makes every promise to it void.
LEMMA IdleInv == ASSUME Inv, NEW c \in Client, Idle(c) PROVE Inv'
<1>1. /\ client' = [client EXCEPT ![c] = [pc |-> "idle"]]
      /\ known' = [known EXCEPT ![c] = {}]
      /\ is_running' = is_running /\ records' = records /\ listener' = listener
      /\ updater' = updater /\ queries' = queries /\ replies' = replies /\ TypeOK
  BY DEF Idle, Inv
<1>2. TypeOK'
  BY <1>1 DEF TypeOK
<1>3. \A n \in Client : Waiting(n)' =>
        n # c /\ Waiting(n) /\ client'[n] = client[n] /\ known'[n] = known[n]
  BY <1>1 DEF TypeOK, Waiting
<1>4. ClientsInv'
  BY <1>1, <1>3 DEF Inv, ClientsInv, Lookup
<1>5. ASSUME NEW q, NEW t, q.client \in Client, Timely(q, t) PROVE Timely(q, t)'
  BY <1>3, <1>5 DEF Timely, Awaits
<1>6. ListenerInv'
  <2>1. listener.pc \in {"lookup", "hit", "resolve"} => listener.query.client \in Client
    BY <1>1, ListenerFields DEF Query
  <2>2. listener.pc = "hit" => Timely(listener.query, listener.text)'
    BY <1>1, <1>3, <2>1 DEF Inv, ListenerInv, Timely, Awaits
  <2>3. listener.pc = "resolve" => Timely(listener.query, Empty)'
    BY <1>1, <1>3, <2>1 DEF Inv, ListenerInv, Timely, Awaits
  <2> QED
    BY <1>1, <2>2, <2>3 DEF Inv, ListenerInv
<1>7. RepliesInv'
  <2>1. \A p \in replies : p.client \in Client
    BY <1>1 DEF TypeOK, Reply
  <2> QED
    BY <1>1, <1>5, <2>1 DEF Inv, RepliesInv, Rightly
<1> QED
  BY <1>2, <1>4, <1>6, <1>7 DEF Inv

\* Nothing under way has the id of a new query.
LEMMA AskInv == ASSUME Inv, NEW q \in Query, Ask(q) PROVE Inv'
<1> DEFINE c == q.client
<1>1. /\ client' = [client EXCEPT ![c] = [pc |-> "waiting", query |-> q]]
      /\ known' = [known EXCEPT ![c] = {Lookup(q.domain)}]
      /\ queries' = queries \cup {q}
      /\ is_running' = is_running /\ records' = records /\ listener' = listener
      /\ updater' = updater /\ replies' = replies /\ TypeOK
      /\ c \in Client /\ q.domain \in Domain /\ q.id \in Id
      /\ \A p \in queries : p.client = c => p.id # q.id
  BY DEF Ask, Inv, Query
<1>2. TypeOK'
  <2>1. Lookup(q.domain) \in Text
    BY <1>1, LookupIsText
  <2> QED
    BY <1>1, <2>1 DEF TypeOK
<1>3. /\ client'[c] = [pc |-> "waiting", query |-> q] /\ known'[c] = {Lookup(q.domain)}
      /\ \A n \in Client \ {c} : client'[n] = client[n] /\ known'[n] = known[n]
  BY <1>1 DEF TypeOK
<1>4. \A d : Lookup(d)' = Lookup(d)
  BY <1>1 DEF Lookup
<1>5. ClientsInv'
  <2>1. ASSUME NEW n \in Client \ {c}, Waiting(n)'
        PROVE  /\ client'[n].query \in queries' /\ client'[n].query.client = n
               /\ Lookup(client[n].query.domain)' \in known'[n]
    <3>1. /\ client[n].query \in queries /\ client[n].query.client = n
          /\ Lookup(client[n].query.domain) \in known[n]
      BY <1>3, <2>1 DEF Inv, ClientsInv, Waiting
    <3> QED
      BY <1>1, <1>3, <3>1 DEF Lookup
  <2> QED
    BY <1>1, <1>3, <2>1 DEF ClientsInv, Lookup
<1> HIDE DEF c
<1>6. ASSUME NEW p, NEW t, p.client \in Client, Timely(p, t), p.client # c \/ p.id # q.id
      PROVE  Timely(p, t)'
  BY <1>3, <1>6 DEF Timely, Awaits, Waiting
<1>7. ListenerInv'
  <2>1. listener.pc \in {"lookup", "hit", "resolve"} =>
          /\ listener.query \in queries /\ listener.query.client \in Client
          /\ listener.query.client # c \/ listener.query.id # q.id
    BY <1>1, ListenerFields DEF Inv, ListenerInv, Query
  <2>2. listener.pc = "hit" => Timely(listener.query, listener.text)'
    BY <1>1, <1>3, <2>1 DEF Inv, ListenerInv, Timely, Awaits, Waiting
  <2>3. listener.pc = "resolve" => Timely(listener.query, Empty)'
    BY <1>1, <1>3, <2>1 DEF Inv, ListenerInv, Timely, Awaits, Waiting
  <2> QED
    BY <1>1, <2>1, <2>2, <2>3 DEF ListenerInv
<1>8. RepliesInv'
  <2>1. ASSUME NEW p \in replies
        PROVE  /\ p.client \in Client
               /\ p.client # c \/ p.id # q.id
               /\ p.id # ResolverId => \E r \in queries : r.client = p.client /\ r.id = p.id
               /\ Rightly(p, p.answer)
    <3>1. /\ p.id # ResolverId => \E r \in queries : r.client = p.client /\ r.id = p.id
          /\ Rightly(p, p.answer)
      BY DEF Inv, RepliesInv
    <3>2. p.client \in Client /\ q.id # ResolverId
      BY <1>1, DnsAssumption DEF TypeOK, Reply
    <3> QED
      BY <1>1, <3>1, <3>2
  <2>2. ASSUME NEW p \in replies PROVE Rightly(p, p.answer)'
    <3>1. CASE Timely(p, p.answer)
      BY <1>6, <2>1, <3>1 DEF Rightly
    <3>2. CASE p.answer \in Upstream /\ Timely(p, Empty)
      BY <1>6, <2>1, <3>2 DEF Rightly
    <3> QED
      BY <2>1, <3>1, <3>2 DEF Rightly
  <2> QED
    BY <1>1, <2>1, <2>2 DEF RepliesInv
<1> QED
  BY <1>2, <1>5, <1>7, <1>8 DEF Inv

LEMMA NextInv == Inv /\ [Next]_vars => Inv'
<1> SUFFICES ASSUME Inv, [Next]_vars PROVE Inv'
  OBVIOUS
<1>1. is_running \in BOOLEAN /\ updater \in {"recv", "gone"} /\ replies \subseteq Reply
  BY DEF Inv, TypeOK
<1>2. CASE UNCHANGED vars
  <2>1. /\ is_running' = is_running /\ updater' = updater
        /\ UNCHANGED <<records, listener, clientVars, replies, known>>
    BY <1>2 DEF vars, clientVars
  <2> QED
    BY <1>1, <2>1, ControlInv
<1>3. CASE UpdateListenerEnds \/ UpdateListenerBreaks \/ Shutdown
  BY <1>1, <1>3, ControlInv DEF UpdateListenerEnds, UpdateListenerBreaks, Shutdown
<1>4. CASE QueryListenerBreaks
  BY <1>1, <1>4, ListenerRests DEF QueryListenerBreaks
<1>5. CASE ClientStep
  <2>1. ASSUME NEW p \in replies, Accept(p) PROVE Inv'
    BY <1>1, <2>1, IdleInv DEF Accept, Reply
  <2> QED
    BY <1>5, <2>1, AskInv, IdleInv DEF ClientStep, GiveUp
<1> QED
  BY <1>2, <1>3, <1>4, <1>5, ListenerStepInv, RecvQueryInv, RecvUpdateInv DEF Next

-----------------------------------------------------------------------------
(* The theorems.                                                           *)

\* The inductive invariant of the DNS server and its clients.
THEOREM DnsInvariance == Spec => []Inv
BY InitInv, NextInv, PTL DEF Spec

\* The cache, the threads, the clients and the packets stay in their types.
THEOREM DnsTypeCorrect == Spec => []TypeOK
<1>1. Inv => TypeOK
  BY DEF Inv
<1> QED
  BY <1>1, DnsInvariance, PTL

\* A client accepts an address from the cache only if the cache had it while
\* the client waited, and an answer of the resolver only if the cache had no
\* text for the domain at some time of its waiting.
THEOREM AnswersAreCurrent == Spec => AnswersCurrent
<1>1. ASSUME Inv, NEW p \in replies, Accept(p)
      PROVE  \/ p.answer \in known[p.client]
             \/ p.answer \in Upstream /\ Empty \in known[p.client]
  <2>1. Awaits(p.client, p.id, p.domain)
    BY <1>1 DEF Accept, Awaits
  <2> QED
    BY <1>1, <2>1 DEF Inv, RepliesInv, Rightly, Timely
<1>2. Inv /\ [Next]_vars =>
        [\A p \in replies : Accept(p) =>
           \/ p.answer \in known[p.client]
           \/ p.answer \in Upstream /\ Empty \in known[p.client]]_vars
  BY <1>1
<1> QED
  BY <1>2, DnsInvariance, PTL DEF Spec, AnswersCurrent

=============================================================================
