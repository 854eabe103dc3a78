--------------------------- MODULE TcpServerProofs ---------------------------
(***************************************************************************)
(* Theorems about TcpServer, for any number of connections, any windows    *)
(* and other clients, with handlers that fail, stall and time out, and a   *)
(* shutdown at any time.                                                   *)
(***************************************************************************)
EXTENDS TcpServer, FiniteSetTheorems, TLAPS

-----------------------------------------------------------------------------
(* The inductive invariant.                                                *)

\* A handler's place in its request, and what became of its connection: it has
\* touched a file only once it got to the download, and it goes to its end past
\* an answer, unless the client left.
ConnInv ==
  \A c \in Conn :
    /\ conn[c].client = "none" => conn[c].server = "none"
    /\ conn[c].server \in {"none", "backlog"} => handler[c] = "none"
    /\ Alive(c) => conn[c].server = "open"
    /\ handler[c] \in {"none", "recv", "fetch"} => ~conn[c].touched
    /\ handler[c] \in {"close", "dead"} /\ conn[c].touched /\ conn[c].client = "open"
         => conn[c].answered

\* The threads of the list and the thread about to be appended were started,
\* and no other thread runs.
LoopInv ==
  /\ pc = "start" => taken \in Conn /\ handler[taken] = "none" /\ conn[taken].server = "open"
  /\ pc = "append" => taken \in Conn /\ handler[taken] # "none"
  /\ \A k \in 1 .. Len(active) : handler[active[k]] # "none"
  /\ \A c \in Conn : Alive(c) =>
       \/ \E k \in 1 .. Len(active) : active[k] = c
       \/ pc = "append" /\ taken = c

\* A shutdown has joined the threads before its place in the list.  Nothing is
\* accepted once it closed the socket, so the list grows by one at the most
\* after it left the list.
CallerInv ==
  /\ caller.pc \in {"join", "joinServer", "done"} => ~open
  /\ caller.pc \in {"join", "joinServer", "done"} /\ ~timedOut =>
       \A k \in 1 .. Len(active) : k < caller.next => handler[active[k]] = "dead"
  /\ caller.pc \in {"joinServer", "done"} =>
       /\ Len(active) <= caller.next
       /\ pc \in {"start", "append"} => Len(active) < caller.next

\* A window that talks has a connection.
WindowInv == \A w \in Window : window[w].pc \in {"send", "recv"} => window[w].conn \in Conn

Inv == TypeOK /\ ConnInv /\ LoopInv /\ CallerInv /\ WindowInv

ConnRecord == [client: {"none", "open", "closed"},
               server: {"none", "backlog", "open", "closed", "reset"},
               sent: BOOLEAN, touched: BOOLEAN, answered: BOOLEAN]

\* What ConnInv says of a connection e whose handler is at h.
Sound(e, h) ==
  /\ e.client = "none" => e.server = "none"
  /\ e.server \in {"none", "backlog"} => h = "none"
  /\ h \notin {"none", "dead"} => e.server = "open"
  /\ h \in {"none", "recv", "fetch"} => ~e.touched
  /\ h \in {"close", "dead"} /\ e.touched /\ e.client = "open" => e.answered

LEMMA AllSound == ConnInv <=> \A c \in Conn : Sound(conn[c], handler[c])
BY DEF ConnInv, Sound, Alive

LEMMA ConnFields ==
  ASSUME TypeOK
  PROVE  conn \in [Conn -> ConnRecord] /\ \A c \in Conn : conn[c] \in ConnRecord
<1>1. conn \in [Conn -> ConnRecord]
  BY DEF TypeOK, ConnRecord
<1> QED
  BY <1>1

\* Closing an end changes that end, and may lose what was sent.
LEMMA ClosedFields ==
  ASSUME TypeOK, NEW c \in Conn, NEW end \in {"client", "server"}
  PROVE  /\ Closed(c, end) \in ConnRecord
         /\ end = "client" => /\ Closed(c, end).client = "closed"
                              /\ Closed(c, end).server = conn[c].server
         /\ end = "server" => /\ Closed(c, end).client = conn[c].client
                              /\ Closed(c, end).server = "closed"
         /\ Closed(c, end).touched => conn[c].touched
         /\ Closed(c, end).client = "open" => Closed(c, end).answered = conn[c].answered
<1> DEFINE e == [conn[c] EXCEPT !.client = IF end = "client" THEN "closed" ELSE @,
                                !.server = IF end = "server" THEN "closed" ELSE @]
<1>1. conn[c] \in ConnRecord
  BY ConnFields
<1>2. /\ e \in ConnRecord
      /\ end = "client" => e.client = "closed" /\ e.server = conn[c].server
      /\ end = "server" => e.client = conn[c].client /\ e.server = "closed"
      /\ e.touched = conn[c].touched /\ e.answered = conn[c].answered
  <2>1. CASE end = "client"
    BY <1>1, <2>1 DEF ConnRecord
  <2>2. CASE end = "server"
    BY <1>1, <2>2 DEF ConnRecord
  <2> QED
    BY <2>1, <2>2
<1>3. Closed(c, end) \in {e, [e EXCEPT !.sent = FALSE, !.touched = FALSE, !.answered = FALSE]}
      /\ (Closed(c, end) # e => e.client = "closed")
  BY DEF Closed
<1> HIDE DEF e
<1>4. CASE Closed(c, end) = e
  BY <1>2, <1>4
<1>5. CASE Closed(c, end) # e
  <2> DEFINE f == [e EXCEPT !.sent = FALSE, !.touched = FALSE, !.answered = FALSE]
  <2>1. f \in ConnRecord /\ f.client = e.client /\ f.server = e.server /\ f.touched = FALSE
    BY <1>2 DEF ConnRecord
  <2>2. Closed(c, end) = f /\ e.client = "closed"
    BY <1>3, <1>5
  <2> HIDE DEF f
  <2> QED
    BY <1>2, <2>1, <2>2
<1> QED
  BY <1>4, <1>5

LEMMA InitInv == Init => Inv
<1> SUFFICES ASSUME Init PROVE Inv
  OBVIOUS
<1>1. TypeOK
  <2>1. active = << >> /\ active \in Seq(Conn) /\ Len(active) = 0
    BY DEF Init
  <2>2. caller \in [pc: {"out", "close", "join", "joinServer", "done"}, next: 1 .. Len(active) + 1]
    BY <2>1 DEF Init
  <2> QED
    BY <2>1, <2>2 DEF Init, TypeOK
<1>2. \A c \in Conn : ~Alive(c)
  BY DEF Init, Alive
<1>3. ConnInv
  BY DEF Init, ConnInv, Alive
<1>4. LoopInv /\ CallerInv /\ WindowInv
  BY <1>2 DEF Init, LoopInv, CallerInv, WindowInv
<1> QED
  BY <1>1, <1>3, <1>4 DEF Inv

-----------------------------------------------------------------------------
(* The clients.                                                            *)

\* A client changes connection c to e: it opens it, sends on it or closes its end.
LEMMA ClientSide ==
  ASSUME Inv, NEW c \in Conn, NEW e \in ConnRecord, conn' = [conn EXCEPT ![c] = e],
         Sound(e, handler[c]),
         conn[c].server = "open" => e.server = "open",
         UNCHANGED <<loopVars, handler, callVars>>,
         window' \in [Window -> [pc: {"ready", "stuck", "request", "send", "recv", "show"},
                                 conn: Conn \cup {NoConn}]],
         WindowInv'
  PROVE  Inv'
<1>1. /\ running' = running /\ open' = open /\ pc' = pc /\ taken' = taken /\ active' = active
      /\ handler' = handler /\ caller' = caller /\ timedOut' = timedOut /\ TypeOK
  BY DEF loopVars, callVars, Inv
<1>2. /\ conn' \in [Conn -> ConnRecord] /\ conn'[c] = e
      /\ \A d \in Conn \ {c} : conn'[d] = conn[d]
  BY <1>1, ConnFields
<1>3. TypeOK'
  BY <1>1, <1>2 DEF TypeOK, ConnRecord
<1>4. ConnInv'
  <2>1. \A d \in Conn : Sound(conn[d], handler[d])
    BY AllSound DEF Inv
  <2>2. \A d \in Conn : Sound(conn'[d], handler'[d])
    BY <1>1, <1>2, <2>1
  <2> QED
    BY <2>2 DEF ConnInv, Sound, Alive
<1>5. LoopInv'
  BY <1>1, <1>2 DEF Inv, LoopInv, Alive
<1>6. CallerInv'
  BY <1>1 DEF Inv, CallerInv
<1> QED
  BY <1>3, <1>4, <1>5, <1>6 DEF Inv

\* The three things a client does to a connection.
LEMMA ClientActs ==
  ASSUME Inv, NEW c \in Conn, Dial(c) \/ Write(c) \/ HangUp(c),
         UNCHANGED <<loopVars, handler, callVars>>,
         window' \in [Window -> [pc: {"ready", "stuck", "request", "send", "recv", "show"},
                                 conn: Conn \cup {NoConn}]],
         WindowInv'
  PROVE  Inv'
<1>1. TypeOK /\ conn[c] \in ConnRecord /\ Sound(conn[c], handler[c])
  BY ConnFields, AllSound DEF Inv
<1>2. CASE Dial(c)
  <2> DEFINE e == [conn[c] EXCEPT !.client = "open", !.server = "backlog"]
  <2>1. conn' = [conn EXCEPT ![c] = e]
    BY <1>2 DEF Dial
  <2>2. /\ e \in ConnRecord /\ e.client = "open" /\ e.server = "backlog"
        /\ e.touched = conn[c].touched
    BY <1>1 DEF ConnRecord
  <2>3. conn[c].server = "none" /\ handler[c] = "none" /\ ~conn[c].touched
    BY <1>1, <1>2 DEF Dial, Sound
  <2> HIDE DEF e
  <2>4. Sound(e, handler[c])
    BY <2>2, <2>3 DEF Sound
  <2> QED
    BY <2>1, <2>2, <2>3, <2>4, ClientSide
<1>3. CASE Write(c)
  <2> DEFINE e == [conn[c] EXCEPT !.sent = TRUE]
  <2>1. conn' = [conn EXCEPT ![c] = e]
    BY <1>3 DEF Write
  <2>2. /\ e \in ConnRecord /\ e.client = conn[c].client /\ e.server = conn[c].server
        /\ e.touched = conn[c].touched /\ e.answered = conn[c].answered
    BY <1>1 DEF ConnRecord
  <2> HIDE DEF e
  <2>3. Sound(e, handler[c])
    BY <1>1, <2>2 DEF Sound
  <2> QED
    BY <2>1, <2>2, <2>3, ClientSide
<1>4. CASE HangUp(c)
  <2> DEFINE e == Closed(c, "client")
  <2>1. conn' = [conn EXCEPT ![c] = e] /\ conn[c].client = "open"
    BY <1>4 DEF HangUp
  <2>2. /\ e \in ConnRecord /\ e.client = "closed" /\ e.server = conn[c].server
        /\ e.touched => conn[c].touched
    BY <1>1, ClosedFields
  <2> HIDE DEF e
  <2>3. Sound(e, handler[c])
    BY <1>1, <2>1, <2>2 DEF Sound
  <2> QED
    BY <2>1, <2>2, <2>3, ClientSide
<1> QED
  BY <1>2, <1>3, <1>4

\* A window moves and no connection does.
LEMMA WindowMoves ==
  ASSUME Inv, conn' = conn, UNCHANGED <<loopVars, handler, callVars>>,
         window' \in [Window -> [pc: {"ready", "stuck", "request", "send", "recv", "show"},
                                 conn: Conn \cup {NoConn}]],
         WindowInv'
  PROVE  Inv'
<1>1. /\ running' = running /\ open' = open /\ pc' = pc /\ taken' = taken /\ active' = active
      /\ handler' = handler /\ caller' = caller /\ timedOut' = timedOut /\ TypeOK
  BY DEF loopVars, callVars, Inv
<1>2. TypeOK'
  BY <1>1 DEF TypeOK
<1>3. ConnInv'
  BY <1>1 DEF Inv, ConnInv, Alive
<1>4. LoopInv'
  BY <1>1 DEF Inv, LoopInv, Alive
<1>5. CallerInv'
  BY <1>1 DEF Inv, CallerInv
<1> QED
  BY <1>2, <1>3, <1>4, <1>5 DEF Inv

\* What a step of one window keeps of the windows.
LEMMA WindowChange ==
  ASSUME Inv, NEW w \in Window, NEW x \in [pc: {"ready", "stuck", "request", "send", "recv", "show"},
                                           conn: Conn \cup {NoConn}],
         x.pc \in {"send", "recv"} => x.conn \in Conn,
         window' = [window EXCEPT ![w] = x]
  PROVE  /\ window' \in [Window -> [pc: {"ready", "stuck", "request", "send", "recv", "show"},
                                    conn: Conn \cup {NoConn}]]
         /\ WindowInv'
<1>1. window' \in [Window -> [pc: {"ready", "stuck", "request", "send", "recv", "show"},
                              conn: Conn \cup {NoConn}]]
  BY DEF Inv, TypeOK
<1>2. \A v \in Window : v # w => window'[v] = window[v]
  BY DEF Inv, TypeOK
<1>3. window'[w] = x
  BY DEF Inv, TypeOK
<1>4. WindowInv'
  BY <1>2, <1>3 DEF Inv, WindowInv
<1> QED
  BY <1>1, <1>4

LEMMA StepChange ==
  ASSUME Inv, NEW w \in Window, NEW p, NEW q \in {"ready", "stuck", "request", "recv", "show"},
         Step(w, p, q), q = "recv" => p = "send"
  PROVE  /\ window' \in [Window -> [pc: {"ready", "stuck", "request", "send", "recv", "show"},
                                    conn: Conn \cup {NoConn}]]
         /\ WindowInv'
<1> DEFINE x == [window[w] EXCEPT !.pc = q]
<1>1. /\ x \in [pc: {"ready", "stuck", "request", "send", "recv", "show"}, conn: Conn \cup {NoConn}]
      /\ x.pc = q /\ x.conn = window[w].conn
  BY DEF Inv, TypeOK
<1>2. window' = [window EXCEPT ![w] = x] /\ window[w].pc = p
  BY DEF Step
<1> HIDE DEF x
<1>3. x.pc \in {"send", "recv"} => x.conn \in Conn
  BY <1>1, <1>2 DEF Inv, WindowInv
<1> QED
  BY <1>1, <1>2, <1>3, WindowChange

LEMMA ReturnInv ==
  ASSUME Inv, NEW w \in Window, window[w].pc \in {"send", "recv"}, Return(w),
         UNCHANGED <<loopVars, handler, callVars>>
  PROVE  Inv'
<1>1. window[w].conn \in Conn
  BY DEF Inv, WindowInv
<1> DEFINE x == [pc |-> "show", conn |-> NoConn]
<1>2. window' = [window EXCEPT ![w] = x] /\ HangUp(window[w].conn)
  BY DEF Return
<1>3. /\ x \in [pc: {"ready", "stuck", "request", "send", "recv", "show"}, conn: Conn \cup {NoConn}]
      /\ x.pc = "show"
  OBVIOUS
<1> HIDE DEF x
<1>4. /\ window' \in [Window -> [pc: {"ready", "stuck", "request", "send", "recv", "show"},
                                 conn: Conn \cup {NoConn}]]
      /\ WindowInv'
  BY <1>2, <1>3, WindowChange
<1> QED
  BY <1>1, <1>2, <1>4, ClientActs

LEMMA WindowStepInv == ASSUME Inv, NEW w \in Window, WindowStep(w) PROVE Inv'
<1>1. UNCHANGED <<loopVars, handler, callVars>>
  BY DEF WindowStep
<1>2. CASE RudpReturns(w) \/ ConnectFails(w) \/ Show(w)
  <2>1. conn' = conn /\ \E p \in {"request", "show"}, q \in {"ready", "show"} : Step(w, p, q)
    BY <1>2 DEF RudpReturns, ConnectFails, Show
  <2> QED
    BY <1>1, <2>1, StepChange, WindowMoves
<1>3. ASSUME NEW c \in Conn, Connect(w, c) PROVE Inv'
  <2> DEFINE x == [pc |-> "send", conn |-> c]
  <2>1. window' = [window EXCEPT ![w] = x] /\ Dial(c)
    BY <1>3 DEF Connect
  <2>2. /\ x \in [pc: {"ready", "stuck", "request", "send", "recv", "show"}, conn: Conn \cup {NoConn}]
        /\ x.conn = c
    OBVIOUS
  <2> HIDE DEF x
  <2>3. /\ window' \in [Window -> [pc: {"ready", "stuck", "request", "send", "recv", "show"},
                                   conn: Conn \cup {NoConn}]]
        /\ WindowInv'
    BY <2>1, <2>2, WindowChange
  <2> QED
    BY <1>1, <2>1, <2>3, ClientActs
<1>4. CASE SendRequest(w)
  <2>1. Step(w, "send", "recv") /\ Write(window[w].conn) /\ window[w].conn \in Conn
    BY <1>4 DEF SendRequest, Step, Inv, WindowInv
  <2> QED
    BY <1>1, <2>1, StepChange, ClientActs
<1>5. CASE SendRaises(w) \/ Receive(w) \/ ReceiveRaises(w)
  <2>1. window[w].pc \in {"send", "recv"} /\ Return(w)
    BY <1>5 DEF SendRaises, Receive, ReceiveRaises, Deadline
  <2> QED
    BY <1>1, <2>1, ReturnInv
<1> QED
  BY <1>2, <1>3, <1>4, <1>5 DEF WindowStep

-----------------------------------------------------------------------------
(* The handlers.                                                           *)

\* The handler of c goes to q, and its connection is e then.
LEMMA HandlerMoves ==
  ASSUME Inv, NEW c \in Conn, Alive(c),
         NEW q \in {"fetch", "write", "send", "close", "dead"}, NEW e \in ConnRecord,
         handler' = [handler EXCEPT ![c] = q], conn' = [conn EXCEPT ![c] = e],
         Sound(e, q),
         UNCHANGED <<loopVars, callVars, window>>
  PROVE  Inv'
<1>1. /\ running' = running /\ open' = open /\ pc' = pc /\ taken' = taken /\ active' = active
      /\ window' = window /\ caller' = caller /\ timedOut' = timedOut /\ TypeOK
  BY DEF loopVars, callVars, Inv
<1>2. /\ conn' \in [Conn -> ConnRecord] /\ conn'[c] = e
      /\ \A d \in Conn \ {c} : conn'[d] = conn[d]
  BY <1>1, ConnFields
<1>3. /\ handler' \in [Conn -> {"none", "recv", "fetch", "write", "send", "close", "dead"}]
      /\ handler'[c] = q /\ q # "none"
      /\ \A d \in Conn \ {c} : handler'[d] = handler[d]
  BY <1>1 DEF TypeOK
<1>4. TypeOK'
  BY <1>1, <1>2, <1>3 DEF TypeOK, ConnRecord
<1>5. ConnInv'
  <2>1. \A d \in Conn : Sound(conn[d], handler[d])
    BY AllSound DEF Inv
  <2>2. \A d \in Conn : Sound(conn'[d], handler'[d])
    BY <1>2, <1>3, <2>1
  <2> QED
    BY <2>2 DEF ConnInv, Sound, Alive
<1>6. active \in Seq(Conn) /\ \A k \in 1 .. Len(active) : active[k] \in Conn
  BY <1>1 DEF TypeOK
<1>7. LoopInv'
  <2>1. pc = "start" => taken # c
    BY DEF Inv, LoopInv, Alive
  <2>2. (pc = "start" => taken \in Conn /\ handler[taken] = "none" /\ conn[taken].server = "open")'
    BY <1>1, <1>2, <1>3, <2>1 DEF Inv, LoopInv
  <2>3. (pc = "append" => taken \in Conn /\ handler[taken] # "none")'
    BY <1>1, <1>3 DEF Inv, LoopInv
  <2>4. \A k \in 1 .. Len(active) : handler'[active[k]] # "none"
    BY <1>3, <1>6 DEF Inv, LoopInv
  <2>5. \A d \in Conn : Alive(d)' => Alive(d)
    BY <1>3 DEF Alive
  <2> QED
    BY <1>1, <2>2, <2>3, <2>4, <2>5 DEF Inv, LoopInv
<1>8. CallerInv'
  <2>1. \A k \in 1 .. Len(active) : handler[active[k]] = "dead" => handler'[active[k]] = "dead"
    BY <1>3, <1>6 DEF Alive
  <2> QED
    BY <1>1, <2>1 DEF Inv, CallerInv
<1>9. WindowInv'
  BY <1>1 DEF Inv, WindowInv
<1> QED
  BY <1>4, <1>5, <1>7, <1>8, <1>9 DEF Inv

\* The handler moves and its connection does not change.
LEMMA HandlerThinks ==
  ASSUME Inv, NEW c \in Conn, NEW p \in {"recv", "fetch", "write", "send"},
         NEW q \in {"fetch", "send", "close"}, To(c, p, q), conn' = conn,
         q = "fetch" => p = "recv",
         q = "close" => p \in {"recv", "fetch"} \/ conn[c].client = "closed",
         UNCHANGED <<loopVars, callVars, window>>
  PROVE  Inv'
<1> DEFINE e == conn[c]
<1>1. TypeOK /\ e \in ConnRecord /\ Sound(e, p) /\ handler[c] = p
  BY ConnFields, AllSound DEF Inv, To
<1>2. handler' = [handler EXCEPT ![c] = q] /\ Alive(c)
  BY DEF To, Alive
<1>3. conn' = [conn EXCEPT ![c] = e]
  BY <1>1 DEF TypeOK
<1>4. Sound(e, q) /\ q \in {"fetch", "write", "send", "close", "dead"}
  BY <1>1 DEF Sound
<1> HIDE DEF e
<1> QED
  BY <1>1, <1>2, <1>3, <1>4, HandlerMoves

LEMMA HandlerStepInv ==
  ASSUME Inv, NEW c \in Conn, HandlerStep(c) \/ Download(c)
  PROVE  Inv'
<1>1. TypeOK /\ conn[c] \in ConnRecord /\ Sound(conn[c], handler[c])
      /\ UNCHANGED <<loopVars, callVars, window>>
  BY ConnFields, AllSound DEF Inv, HandlerStep, Download
<1>2. CASE /\ Recv(c) \/ RecvEof(c) \/ RecvRaises(c) \/ SendFails(c)
           /\ UNCHANGED conn
  BY <1>1, <1>2, HandlerThinks DEF Recv, RecvEof, RecvRaises, RecvTimeout, SendFails
<1>3. CASE /\ FetchFails(c) \/ FetchRaises(c) \/ Complete(c) \/ WriteFails(c)
           /\ UNCHANGED conn
  BY <1>1, <1>3, HandlerThinks DEF FetchFails, FetchRaises, Complete, WriteFails, Caught
<1>4. CASE OpenFile(c)
  <2> DEFINE e == [conn[c] EXCEPT !.touched = TRUE]
  <2>1. /\ conn' = [conn EXCEPT ![c] = e] /\ handler[c] = "fetch"
        /\ handler' = [handler EXCEPT ![c] = "write"]
    BY <1>4 DEF OpenFile, To
  <2>2. e \in ConnRecord /\ e.client = conn[c].client /\ e.server = conn[c].server
    BY <1>1 DEF ConnRecord
  <2> HIDE DEF e
  <2>3. Sound(e, "write") /\ Alive(c)
    BY <1>1, <2>1, <2>2 DEF Sound, Alive
  <2> QED
    BY <1>1, <2>1, <2>2, <2>3, HandlerMoves
<1>5. CASE SendAnswer(c)
  <2> DEFINE e == [conn[c] EXCEPT !.answered = TRUE]
  <2>1. /\ conn' = [conn EXCEPT ![c] = e] /\ handler[c] = "send"
        /\ handler' = [handler EXCEPT ![c] = "close"]
    BY <1>5 DEF SendAnswer, To
  <2>2. /\ e \in ConnRecord /\ e.client = conn[c].client /\ e.server = conn[c].server
        /\ e.answered = TRUE
    BY <1>1 DEF ConnRecord
  <2> HIDE DEF e
  <2>3. Sound(e, "close") /\ Alive(c)
    BY <1>1, <2>1, <2>2 DEF Sound, Alive
  <2> QED
    BY <1>1, <2>1, <2>2, <2>3, HandlerMoves
<1>6. CASE CloseConn(c)
  <2> DEFINE e == Closed(c, "server")
  <2>1. /\ conn' = [conn EXCEPT ![c] = e] /\ handler[c] = "close"
        /\ handler' = [handler EXCEPT ![c] = "dead"]
    BY <1>6 DEF CloseConn, To
  <2>2. /\ e \in ConnRecord /\ e.client = conn[c].client /\ e.server = "closed"
        /\ e.touched => conn[c].touched
        /\ e.client = "open" => e.answered = conn[c].answered
    BY <1>1, ClosedFields
  <2> HIDE DEF e
  <2>3. Sound(e, "dead") /\ Alive(c)
    BY <1>1, <2>1, <2>2 DEF Sound, Alive
  <2> QED
    BY <1>1, <2>1, <2>2, <2>3, HandlerMoves
<1> QED
  BY <1>2, <1>3, <1>4, <1>5, <1>6 DEF HandlerStep, Download

-----------------------------------------------------------------------------
(* The server's thread.                                                    *)

\* A step of the loop between two connections.
LEMMA LoopIdles ==
  ASSUME Inv, pc \in {"check", "accept", "finally"}, pc' \in {"check", "accept", "finally", "dead"},
         running' \in BOOLEAN,
         UNCHANGED <<open, taken, active, conn, handler, callVars, window>>
  PROVE  Inv'
<1>1. /\ open' = open /\ taken' = taken /\ active' = active /\ conn' = conn /\ handler' = handler
      /\ caller' = caller /\ timedOut' = timedOut /\ window' = window /\ TypeOK
  BY DEF callVars, Inv
<1>2. TypeOK'
  BY <1>1 DEF TypeOK
<1>3. ConnInv' /\ WindowInv'
  BY <1>1 DEF Inv, ConnInv, WindowInv, Alive
<1>4. LoopInv'
  BY <1>1 DEF Inv, LoopInv, Alive
<1>5. CallerInv'
  BY <1>1 DEF Inv, CallerInv
<1> QED
  BY <1>2, <1>3, <1>4, <1>5 DEF Inv

LEMMA AcceptInv ==
  ASSUME Inv, NEW c \in Conn, Accept(c), UNCHANGED <<open, callVars, window>>
  PROVE  Inv'
<1> DEFINE e == [conn[c] EXCEPT !.server = "open"]
<1>1. /\ open' = open /\ active' = active /\ handler' = handler /\ running' = running
      /\ caller' = caller /\ timedOut' = timedOut /\ window' = window /\ TypeOK
      /\ open /\ Waiting(c) /\ pc = "accept" /\ pc' = "start" /\ taken' = c
      /\ conn' = [conn EXCEPT ![c] = e]
  BY DEF callVars, Inv, Accept, At
<1>2. /\ e \in ConnRecord /\ e.server = "open" /\ e.client = conn[c].client
      /\ e.touched = conn[c].touched
  BY ConnFields DEF Inv, ConnRecord
<1>3. Sound(conn[c], handler[c]) /\ conn[c].server = "backlog"
  BY <1>1, AllSound DEF Inv, Waiting
<1> HIDE DEF e
<1>4. /\ conn' \in [Conn -> ConnRecord] /\ conn'[c] = e
      /\ \A d \in Conn \ {c} : conn'[d] = conn[d]
  BY <1>1, <1>2, ConnFields
<1>5. handler[c] = "none" /\ Sound(e, handler[c])
  BY <1>2, <1>3 DEF Sound
<1>6. TypeOK'
  BY <1>1, <1>4 DEF TypeOK, ConnRecord
<1>7. ConnInv'
  <2>1. \A d \in Conn : Sound(conn[d], handler[d])
    BY AllSound DEF Inv
  <2>2. \A d \in Conn : Sound(conn'[d], handler'[d])
    BY <1>1, <1>4, <1>5, <2>1
  <2> QED
    BY <2>2 DEF ConnInv, Sound, Alive
<1>8. LoopInv'
  <2>1. \A k \in 1 .. Len(active) : handler[active[k]] # "none"
    BY DEF Inv, LoopInv
  <2>2. \A d \in Conn : Alive(d) => \E k \in 1 .. Len(active) : active[k] = d
    BY <1>1 DEF Inv, LoopInv
  <2> QED
    BY <1>1, <1>2, <1>4, <1>5, <2>1, <2>2 DEF LoopInv, Alive
<1>9. CallerInv' /\ WindowInv'
  BY <1>1 DEF Inv, CallerInv, WindowInv
<1> QED
  BY <1>6, <1>7, <1>8, <1>9 DEF Inv

LEMMA StartThreadInv ==
  ASSUME Inv, StartThread, UNCHANGED <<open, callVars, window>>
  PROVE  Inv'
<1> DEFINE c == taken
<1>1. /\ open' = open /\ active' = active /\ conn' = conn /\ running' = running
      /\ caller' = caller /\ timedOut' = timedOut /\ window' = window /\ TypeOK
      /\ pc = "start" /\ pc' = "append" /\ taken' = c
      /\ handler' = [handler EXCEPT ![c] = "recv"]
  BY DEF callVars, Inv, StartThread, At
<1>2. c \in Conn /\ handler[c] = "none" /\ conn[c].server = "open"
  BY <1>1 DEF Inv, LoopInv
<1> HIDE DEF c
<1>3. /\ handler' \in [Conn -> {"none", "recv", "fetch", "write", "send", "close", "dead"}]
      /\ handler'[c] = "recv" /\ \A d \in Conn \ {c} : handler'[d] = handler[d]
  BY <1>1, <1>2 DEF TypeOK
<1>4. TypeOK'
  BY <1>1, <1>2, <1>3 DEF TypeOK
<1>5. \A k \in 1 .. Len(active) : active[k] \in Conn /\ active[k] # c
  BY <1>1, <1>2 DEF TypeOK, Inv, LoopInv
<1>6. ConnInv'
  <2>1. \A d \in Conn : Sound(conn[d], handler[d])
    BY AllSound DEF Inv
  <2>2. Sound(conn[c], "recv")
    BY <1>2, <2>1 DEF Sound
  <2>3. \A d \in Conn : Sound(conn'[d], handler'[d])
    BY <1>1, <1>3, <2>1, <2>2
  <2> QED
    BY <2>3 DEF ConnInv, Sound, Alive
<1>7. LoopInv'
  <2>1. \A k \in 1 .. Len(active) : handler'[active[k]] # "none"
    BY <1>3, <1>5 DEF Inv, LoopInv
  <2>2. \A d \in Conn \ {c} : Alive(d)' => \E k \in 1 .. Len(active) : active[k] = d
    BY <1>1, <1>3 DEF Inv, LoopInv, Alive
  <2> QED
    BY <1>1, <1>2, <1>3, <2>1, <2>2 DEF LoopInv
<1>8. CallerInv'
  <2>1. \A k \in 1 .. Len(active) : handler'[active[k]] = handler[active[k]]
    BY <1>3, <1>5
  <2> QED
    BY <1>1, <2>1 DEF Inv, CallerInv
<1>9. WindowInv'
  BY <1>1 DEF Inv, WindowInv
<1> QED
  BY <1>4, <1>6, <1>7, <1>8, <1>9 DEF Inv

LEMMA StartRaisesInv ==
  ASSUME Inv, StartRaises, UNCHANGED <<open, callVars, window>>
  PROVE  Inv'
<1> DEFINE e == Closed(taken, "server")
<1>1. /\ open' = open /\ active' = active /\ handler' = handler /\ running' = running
      /\ caller' = caller /\ timedOut' = timedOut /\ window' = window /\ TypeOK
      /\ pc = "start" /\ pc' = "finally" /\ taken' = taken
      /\ conn' = [conn EXCEPT ![taken] = e]
  BY DEF callVars, Inv, StartRaises, At
<1>2. taken \in Conn /\ handler[taken] = "none" /\ conn[taken].server = "open"
  BY <1>1 DEF Inv, LoopInv
<1>3. /\ e \in ConnRecord /\ e.client = conn[taken].client /\ e.server = "closed"
      /\ e.touched => conn[taken].touched
  BY <1>1, <1>2, ClosedFields
<1>4. Sound(e, "none")
  BY <1>2, <1>3, AllSound DEF Inv, Sound
<1> HIDE DEF e
<1>5. /\ conn' \in [Conn -> ConnRecord] /\ conn'[taken] = e
      /\ \A d \in Conn \ {taken} : conn'[d] = conn[d]
  BY <1>1, <1>2, <1>3, ConnFields
<1>6. TypeOK'
  BY <1>1, <1>5 DEF TypeOK, ConnRecord
<1>7. ConnInv'
  <2>1. \A d \in Conn : Sound(conn[d], handler[d])
    BY AllSound DEF Inv
  <2>2. \A d \in Conn : Sound(conn'[d], handler'[d])
    BY <1>1, <1>2, <1>4, <1>5, <2>1
  <2> QED
    BY <2>2 DEF ConnInv, Sound, Alive
<1>8. LoopInv'
  BY <1>1 DEF Inv, LoopInv, Alive
<1>9. CallerInv' /\ WindowInv'
  BY <1>1 DEF Inv, CallerInv, WindowInv
<1> QED
  BY <1>6, <1>7, <1>8, <1>9 DEF Inv

LEMMA AppendThreadInv ==
  ASSUME Inv, AppendThread, UNCHANGED <<open, callVars, window>>
  PROVE  Inv'
<1>1. /\ open' = open /\ conn' = conn /\ handler' = handler /\ running' = running
      /\ caller' = caller /\ timedOut' = timedOut /\ window' = window /\ TypeOK
      /\ pc = "append" /\ pc' = "check" /\ taken' = NoConn
      /\ active' = Append(active, taken)
  BY DEF callVars, Inv, AppendThread, Started, At
<1>2. taken \in Conn /\ handler[taken] # "none" /\ active \in Seq(Conn)
  BY <1>1 DEF Inv, LoopInv, TypeOK
<1>3. /\ active' \in Seq(Conn) /\ Len(active) \in Nat /\ Len(active') = Len(active) + 1
      /\ active'[Len(active) + 1] = taken
      /\ \A k \in 1 .. Len(active) : active'[k] = active[k]
  BY <1>1, <1>2
<1>4. TypeOK'
  <2>1. caller' \in [pc: {"out", "close", "join", "joinServer", "done"}, next: 1 .. Len(active') + 1]
    BY <1>1, <1>3 DEF TypeOK
  <2> QED
    BY <1>1, <1>3, <2>1 DEF TypeOK
<1>5. ConnInv' /\ WindowInv'
  BY <1>1 DEF Inv, ConnInv, WindowInv, Alive
<1>6. \A k \in 1 .. Len(active') : k \in 1 .. Len(active) \/ k = Len(active) + 1
  BY <1>3
<1>7. LoopInv'
  <2>1. \A k \in 1 .. Len(active') : handler'[active'[k]] # "none"
    BY <1>1, <1>2, <1>3, <1>6 DEF Inv, LoopInv
  <2>2. ASSUME NEW d \in Conn, Alive(d)' PROVE \E k \in 1 .. Len(active') : active'[k] = d
    <3>1. Alive(d)
      BY <1>1, <2>2 DEF Alive
    <3>2. CASE \E k \in 1 .. Len(active) : active[k] = d
      BY <1>3, <3>2
    <3>3. CASE taken = d
      BY <1>3, <3>3
    <3> QED
      BY <3>1, <3>2, <3>3 DEF Inv, LoopInv
  <2> QED
    BY <1>1, <2>1, <2>2 DEF LoopInv
<1>8. CallerInv'
  <2>1. caller.next \in 1 .. Len(active) + 1
    BY <1>1 DEF TypeOK
  <2>2. ASSUME caller.pc \in {"joinServer", "done"} PROVE Len(active') <= caller.next
    BY <1>1, <1>3, <2>1, <2>2 DEF Inv, CallerInv
  <2>3. ASSUME caller.pc \in {"join", "joinServer", "done"}, ~timedOut,
               NEW k \in 1 .. Len(active'), k < caller.next
        PROVE  handler[active'[k]] = "dead"
    <3>1. k \in 1 .. Len(active)
      BY <1>3, <1>6, <2>1, <2>3
    <3> QED
      BY <1>3, <2>3, <3>1 DEF Inv, CallerInv
  <2> QED
    BY <1>1, <2>2, <2>3 DEF Inv, CallerInv
<1> QED
  BY <1>4, <1>5, <1>7, <1>8 DEF Inv

LEMMA ServeStepInv == ASSUME Inv, ServeStep PROVE Inv'
<1>1. UNCHANGED <<open, callVars, window>> /\ running \in BOOLEAN
  BY DEF ServeStep, Inv, TypeOK
<1>2. CASE Check \/ AcceptTimesOut \/ AcceptRaises \/ Finally
  BY <1>1, <1>2, LoopIdles DEF Check, AcceptTimesOut, AcceptRaises, Finally, At
<1> QED
  BY <1>1, <1>2, AcceptInv, StartThreadInv, StartRaisesInv, AppendThreadInv DEF ServeStep

-----------------------------------------------------------------------------
(* The thread that calls shutdown.                                         *)

\* A step that changes no thread, no connection and no window.
LEMMA CallerMoves ==
  ASSUME Inv, running' \in BOOLEAN, timedOut' \in BOOLEAN,
         caller' \in [pc: {"out", "close", "join", "joinServer", "done"},
                      next: 1 .. Len(active) + 1],
         CallerInv',
         UNCHANGED <<open, pc, taken, active, conn, handler, window>>
  PROVE  Inv'
<1>1. /\ open' = open /\ pc' = pc /\ taken' = taken /\ active' = active /\ conn' = conn
      /\ handler' = handler /\ window' = window /\ TypeOK
  BY DEF Inv
<1>2. TypeOK'
  BY <1>1 DEF TypeOK
<1>3. ConnInv' /\ WindowInv'
  BY <1>1 DEF Inv, ConnInv, WindowInv, Alive
<1>4. LoopInv'
  BY <1>1 DEF Inv, LoopInv, Alive
<1> QED
  BY <1>2, <1>3, <1>4 DEF Inv

LEMMA CloseListenerInv ==
  ASSUME Inv, CloseListener, UNCHANGED <<pc, taken, active, handler, window>>
  PROVE  Inv'
<1>1. /\ pc' = pc /\ taken' = taken /\ active' = active /\ handler' = handler
      /\ window' = window /\ running' = running /\ timedOut' = timedOut /\ TypeOK
      /\ open' = FALSE /\ caller' = [pc |-> "join", next |-> 1]
      /\ conn' = [c \in Conn |-> IF Waiting(c) THEN [conn[c] EXCEPT !.server = "reset"]
                                 ELSE conn[c]]
  BY DEF Inv, CloseListener, First
<1>2. ASSUME NEW c \in Conn
      PROVE  /\ conn'[c] \in ConnRecord /\ Sound(conn'[c], handler[c])
             /\ conn[c].server = "open" => conn'[c].server = "open"
  <2>1. conn[c] \in ConnRecord /\ Sound(conn[c], handler[c])
    BY ConnFields, AllSound DEF Inv
  <2>2. CASE Waiting(c)
    <3> DEFINE e == [conn[c] EXCEPT !.server = "reset"]
    <3>1. conn'[c] = e
      BY <1>1, <2>2
    <3>2. /\ e \in ConnRecord /\ e.client = conn[c].client /\ e.server = "reset"
          /\ e.touched = conn[c].touched /\ conn[c].server = "backlog"
      BY <2>1, <2>2 DEF ConnRecord, Waiting
    <3> HIDE DEF e
    <3>3. Sound(e, handler[c])
      BY <2>1, <3>2 DEF Sound
    <3> QED
      BY <3>1, <3>2, <3>3
  <2>3. CASE ~Waiting(c)
    BY <1>1, <2>1, <2>3
  <2> QED
    BY <2>2, <2>3
<1>3. conn' \in [Conn -> ConnRecord]
  <2>1. DOMAIN conn' = Conn /\ conn' = [c \in Conn |-> conn'[c]]
    BY <1>1
  <2> QED
    BY <1>2, <2>1
<1>4. active \in Seq(Conn) /\ Len(active) \in Nat
  BY <1>1 DEF TypeOK
<1>5. TypeOK'
  <2>1. caller' \in [pc: {"out", "close", "join", "joinServer", "done"},
                     next: 1 .. Len(active) + 1]
    BY <1>1, <1>4
  <2> QED
    BY <1>1, <1>3, <2>1 DEF TypeOK, ConnRecord
<1>6. ConnInv'
  BY <1>1, <1>2 DEF ConnInv, Sound, Alive
<1>7. LoopInv'
  BY <1>1, <1>2 DEF Inv, LoopInv, Alive
<1>8. CallerInv'
  BY <1>1, <1>4 DEF CallerInv
<1>9. WindowInv'
  BY <1>1 DEF Inv, WindowInv
<1> QED
  BY <1>5, <1>6, <1>7, <1>8, <1>9 DEF Inv

LEMMA JoinInv ==
  ASSUME Inv, JoinNext \/ JoinTimesOut, UNCHANGED <<pc, taken, active, handler, window>>
  PROVE  Inv'
<1>1. /\ pc' = pc /\ taken' = taken /\ active' = active /\ handler' = handler
      /\ window' = window /\ running' = running /\ open' = open /\ conn' = conn
      /\ caller' = [caller EXCEPT !.next = @ + 1] /\ TypeOK
      /\ caller.pc = "join" /\ caller.next <= Len(active)
      /\ \/ timedOut' = timedOut /\ ~Alive(active[caller.next])
         \/ timedOut' = TRUE
  BY DEF Inv, JoinNext, JoinTimesOut, Joining, JoinTimeout, Joined, NextThread
<1>2. /\ active \in Seq(Conn) /\ Len(active) \in Nat /\ caller.next \in 1 .. Len(active) + 1
      /\ caller \in [pc: {"out", "close", "join", "joinServer", "done"},
                     next: 1 .. Len(active) + 1]
  BY <1>1 DEF TypeOK
<1>3. /\ caller'.pc = "join" /\ caller'.next = caller.next + 1
      /\ caller' \in [pc: {"out", "close", "join", "joinServer", "done"},
                      next: 1 .. Len(active) + 1]
  BY <1>1, <1>2
<1>4. timedOut' \in BOOLEAN /\ running' \in BOOLEAN
  BY <1>1 DEF TypeOK
<1>5. ASSUME ~timedOut', NEW k \in 1 .. Len(active), k < caller.next + 1
      PROVE  handler[active[k]] = "dead"
  <2>1. k < caller.next \/ k = caller.next
    BY <1>2, <1>5
  <2>2. ~timedOut /\ ~Alive(active[caller.next])
    BY <1>1, <1>5
  <2>3. handler[active[k]] # "none"
    BY DEF Inv, LoopInv
  <2> QED
    BY <1>1, <1>5, <2>1, <2>2, <2>3 DEF Inv, CallerInv, Alive
<1>6. CallerInv'
  <2>1. ~open
    BY <1>1 DEF Inv, CallerInv
  <2> QED
    BY <1>1, <1>3, <1>5, <2>1 DEF CallerInv
<1> QED
  BY <1>1, <1>3, <1>4, <1>6, CallerMoves

\* The end of the list: what comes after is at most one thread.
LEMMA JoinsEndInv ==
  ASSUME Inv, JoinsEnd \/ ShutdownReturns, UNCHANGED <<pc, taken, active, handler, window>>
  PROVE  Inv'
<1> DEFINE q == IF caller.pc = "join" THEN "joinServer" ELSE "done"
<1>1. /\ pc' = pc /\ taken' = taken /\ active' = active /\ handler' = handler
      /\ window' = window /\ running' = running /\ open' = open /\ conn' = conn
      /\ TypeOK /\ caller' = [caller EXCEPT !.pc = q]
      /\ \/ caller.pc = "join" /\ caller.next > Len(active) /\ timedOut' = timedOut
         \/ caller.pc = "joinServer" /\ timedOut' = (timedOut \/ pc # "dead")
  BY DEF Inv, JoinsEnd, ShutdownReturns, Calls
<1>2. q \in {"joinServer", "done"}
  OBVIOUS
<1> HIDE DEF q
<1>3. /\ active \in Seq(Conn) /\ Len(active) \in Nat /\ caller.next \in 1 .. Len(active) + 1
      /\ caller \in [pc: {"out", "close", "join", "joinServer", "done"},
                     next: 1 .. Len(active) + 1]
      /\ timedOut \in BOOLEAN /\ running \in BOOLEAN
  BY <1>1 DEF TypeOK
<1>4. /\ caller'.pc = q /\ caller'.next = caller.next
      /\ caller' \in [pc: {"out", "close", "join", "joinServer", "done"},
                      next: 1 .. Len(active) + 1]
  BY <1>1, <1>2, <1>3
<1>5. timedOut' \in BOOLEAN /\ (~timedOut' => ~timedOut)
  BY <1>1, <1>3
<1>6. /\ Len(active) <= caller.next
      /\ pc \in {"start", "append"} => Len(active) < caller.next
  BY <1>1, <1>3 DEF Inv, CallerInv
<1>7. ~open /\ (~timedOut => \A k \in 1 .. Len(active) :
                               k < caller.next => handler[active[k]] = "dead")
  BY <1>1 DEF Inv, CallerInv
<1>8. CallerInv'
  BY <1>1, <1>4, <1>5, <1>6, <1>7 DEF CallerInv
<1> QED
  BY <1>1, <1>3, <1>4, <1>5, <1>8, CallerMoves

LEMMA ShutdownBeginsInv ==
  ASSUME Inv, ShutdownBegins, UNCHANGED <<pc, taken, active, handler, window>>
  PROVE  Inv'
<1>1. /\ running' = FALSE /\ timedOut' = timedOut /\ caller' = [caller EXCEPT !.pc = "close"]
      /\ UNCHANGED <<open, pc, taken, active, conn, handler, window>> /\ TypeOK
  BY DEF ShutdownBegins, Calls, Inv
<1>2. /\ caller' \in [pc: {"out", "close", "join", "joinServer", "done"},
                      next: 1 .. Len(active) + 1]
      /\ caller'.pc = "close" /\ timedOut' \in BOOLEAN
  BY <1>1 DEF TypeOK
<1>3. CallerInv'
  BY <1>2 DEF CallerInv
<1> QED
  BY <1>1, <1>2, <1>3, CallerMoves

LEMMA NextInv == Inv /\ [Next]_vars => Inv'
<1> SUFFICES ASSUME Inv, [Next]_vars PROVE Inv'
  OBVIOUS
<1>1. CASE UNCHANGED vars
  <2>1. conn' = conn /\ window' = window /\ UNCHANGED <<loopVars, handler, callVars>>
    BY <1>1 DEF vars
  <2>2. window' \in [Window -> [pc: {"ready", "stuck", "request", "send", "recv", "show"},
                                conn: Conn \cup {NoConn}]]
    BY <2>1 DEF Inv, TypeOK
  <2>3. WindowInv'
    BY <2>1 DEF Inv, WindowInv
  <2> QED
    BY <2>1, <2>2, <2>3, WindowMoves
<1>2. CASE CallerStep
  BY <1>2, CloseListenerInv, JoinInv, JoinsEndInv DEF CallerStep
<1>3. ASSUME NEW c \in Conn, Stranger(c), UNCHANGED <<loopVars, handler, callVars>> PROVE Inv'
  <2>1. window' = window
    BY <1>3 DEF Stranger
  <2>2. window' \in [Window -> [pc: {"ready", "stuck", "request", "send", "recv", "show"},
                                conn: Conn \cup {NoConn}]]
    BY <2>1 DEF Inv, TypeOK
  <2>3. WindowInv'
    BY <2>1 DEF Inv, WindowInv
  <2> QED
    BY <1>3, <2>2, <2>3, ClientActs DEF Stranger
<1>4. ASSUME NEW w \in Window, Click(w) \/ ClickRaises(w),
             UNCHANGED <<loopVars, handler, callVars>>
      PROVE  Inv'
  BY <1>4, StepChange, WindowMoves DEF Click, ClickRaises
<1> QED
  BY <1>1, <1>2, <1>3, <1>4, ServeStepInv, ShutdownBeginsInv, HandlerStepInv, WindowStepInv
  DEF Next

-----------------------------------------------------------------------------
(* The theorems.                                                           *)

\* The inductive invariant of the server, its threads and its clients.
THEOREM TcpInvariance == Spec => []Inv
BY InitInv, NextInv, PTL DEF Spec

\* Threads, connections and windows stay in their types, and the shutdown's
\* index within the list that grows under it.
THEOREM TcpTypeCorrect == Spec => []TypeOK
<1>1. Inv => TypeOK
  BY DEF Inv
<1> QED
  BY <1>1, TcpInvariance, PTL

\* A stream that ends without an answer means a request that touched no file.
THEOREM EmptyIsUntouched == Spec => []EmptyMeansUntouched
<1>1. Inv => EmptyMeansUntouched
  <2> SUFFICES ASSUME Inv, NEW c \in Conn, conn[c].client = "open",
                      conn[c].server = "closed", conn[c].touched
               PROVE  conn[c].answered
    BY DEF EmptyMeansUntouched
  <2>1. Sound(conn[c], handler[c])
    BY AllSound DEF Inv
  <2> QED
    BY <2>1 DEF Sound
<1> QED
  BY <1>1, TcpInvariance, PTL

\* After a shutdown whose joins all returned, at most one handler runs.
THEOREM OneStraggler == Spec => []AtMostOneStraggler
<1>1. ASSUME Inv, caller.pc = "done", ~timedOut
      PROVE  Cardinality({c \in Conn : Alive(c)}) <= 1
  <2> DEFINE S == {c \in Conn : Alive(c)}
  <2>1. active \in Seq(Conn) /\ Len(active) \in Nat /\ caller.next \in 1 .. Len(active) + 1
    BY <1>1 DEF Inv, TypeOK
  <2>2. /\ Len(active) <= caller.next
        /\ pc \in {"start", "append"} => Len(active) < caller.next
        /\ \A k \in 1 .. Len(active) : k < caller.next => handler[active[k]] = "dead"
    BY <1>1 DEF Inv, CallerInv
  <2>3. \A c \in S : \/ \E k \in 1 .. Len(active) : active[k] = c
                     \/ pc = "append" /\ taken = c
    BY <1>1 DEF Inv, LoopInv
  <2>4. \A c \in S, k \in 1 .. Len(active) : active[k] = c => k = caller.next
    <3>1. \A c \in S : handler[c] # "dead"
      BY DEF Alive
    <3> QED
      BY <2>1, <2>2, <3>1
  <2>5. \A c, d \in S : c = d
    BY <2>1, <2>2, <2>3, <2>4
  <2> HIDE DEF S
  <2>6. ASSUME S = {} PROVE Cardinality(S) <= 1
    BY <2>6, FS_EmptySet
  <2>7. ASSUME S # {} PROVE Cardinality(S) <= 1
    <3>1. PICK c \in S : TRUE
      BY <2>7
    <3>2. S = {c}
      BY <2>5, <3>1
    <3>3. Cardinality(S) = 1
      BY <3>2, FS_Singleton
    <3> QED
      BY <3>3
  <2>8. Cardinality(S) <= 1
    BY <2>6, <2>7
  <2> QED
    BY <2>8 DEF S
<1>2. Inv => AtMostOneStraggler
  BY <1>1 DEF AtMostOneStraggler
<1> QED
  BY <1>2, TcpInvariance, PTL

=============================================================================
