------------------------------ MODULE TcpServer ------------------------------
(***************************************************************************)
(* The TCP file-transfer server, http_srv/tcp_server.py, from its accept   *)
(* loop on: a thread per connection, and a shutdown that joins the         *)
(* threads; with the request windows of http_srv/client.py and other       *)
(* clients of the port.                                                    *)
(*                                                                         *)
(* Starting, binding and restarting are in ServerLifecycle, what downloads *)
(* do to files is in Downloads.  A handler thread and its sockets have the *)
(* name of the connection.  Deadlines may pass at any moment.              *)
(***************************************************************************)
EXTENDS Integers, FiniteSets, Sequences

CONSTANTS
  MaxConn,  \* bound: the connections clients can make
  Window    \* the open client windows

ASSUME TcpAssumption == MaxConn \in Nat

\* Connections are numbered in the order they are made.
Conn == 1 .. MaxConn

\* no connection
NoConn == 0

VARIABLES
  running,   \* _running
  open,      \* the listening socket is open
  pc,        \* what the server's thread is about to do
  taken,     \* client_sock and t of the current round of its loop
  active,    \* _active_threads
  conn,      \* both ends of each connection
  handler,   \* the handler threads
  caller,    \* the thread that calls shutdown
  timedOut,  \* history: a join of the shutdown timed out
  window     \* the client windows

loopVars   == <<running, open, pc, taken, active>>
callVars   == <<caller, timedOut>>
vars == <<loopVars, conn, handler, callVars, window>>

-----------------------------------------------------------------------------
(* TCP.                                                                    *)

\* connection c when one of its ends is closed: what was sent on it is gone
\* with the other end
Closed(c, end) ==
  LET e == [conn[c] EXCEPT !.client = IF end = "client" THEN "closed" ELSE @,
                           !.server = IF end = "server" THEN "closed" ELSE @]
  IN  IF e.client = "closed" /\ e.server \in {"closed", "reset"}
      THEN [e EXCEPT !.sent = FALSE, !.touched = FALSE, !.answered = FALSE]
      ELSE e

\* the handshake is done, accept has not returned it
Waiting(c) == conn[c].server = "backlog"

-----------------------------------------------------------------------------
(* The server's thread: _serve_forever and _run_wrapper.                   *)

At(p, q) == pc = p /\ pc' = q

Alive(c) == handler[c] \notin {"none", "dead"}

Check ==
  /\ At("check", IF running THEN "accept" ELSE "finally")
  /\ UNCHANGED <<running, taken, active, conn, handler>>

\* accept takes the oldest connection; a Thread object is made for it
Accept(c) ==
  /\ open /\ Waiting(c) /\ \A d \in Conn : Waiting(d) => c <= d
  /\ At("accept", "start")
  /\ conn' = [conn EXCEPT ![c].server = "open"]
  /\ taken' = c
  /\ UNCHANGED <<running, active, handler>>

\* a second passes without a connection
AcceptTimesOut ==
  /\ \A c \in Conn : ~Waiting(c)
  /\ At("accept", "check")
  /\ UNCHANGED <<running, taken, active, conn, handler>>

\* the socket was closed, or no descriptor is left: the loop breaks
AcceptRaises ==
  /\ At("accept", "finally")
  /\ UNCHANGED <<running, taken, active, conn, handler>>

StartThread ==
  /\ At("start", "append")
  /\ handler' = [handler EXCEPT ![taken] = "recv"]
  /\ UNCHANGED <<running, taken, active, conn>>

\* no thread can be started: RuntimeError leaves the loop, the connection goes
StartRaises ==
  /\ At("start", "finally")
  /\ conn' = [conn EXCEPT ![taken] = Closed(taken, "server")]
  /\ UNCHANGED <<running, taken, active, handler>>

\* t.start() has returned (mutant: the handler is called instead)
Called == At("append", "check") /\ ~Alive(taken)
Started == At("append", "check")

AppendThread ==
  /\ Started
  /\ active' = Append(active, taken)
  /\ taken' = NoConn
  /\ UNCHANGED <<running, conn, handler>>

\* _run_wrapper clears _running; nothing closes the listening socket
Finally ==
  /\ At("finally", "dead")
  /\ running' = FALSE
  /\ UNCHANGED <<taken, active, conn, handler>>

ServeStep ==
  /\ \/ Check \/ AcceptTimesOut \/ AcceptRaises \/ \E c \in Conn : Accept(c)
     \/ StartThread \/ StartRaises \/ AppendThread \/ Finally
  /\ UNCHANGED <<open, callVars, window>>

-----------------------------------------------------------------------------
(* A handler thread: _handle_client.                                       *)

To(c, p, q) == handler[c] = p /\ handler' = [handler EXCEPT ![c] = q]

\* recv returns the request, whole; or nothing: the client closed its end
Recv(c) == conn[c].sent /\ To(c, "recv", "fetch")
RecvEof(c) == ~conn[c].sent /\ conn[c].client = "closed" /\ To(c, "recv", "close")

\* thirty seconds pass, the connection was reset, or the text is not UTF-8
\* (mutant: recv waits for ever)
NoRecvTimeout(c) == FALSE
RecvTimeout(c) == To(c, "recv", "close")
RecvRaises(c) == RecvTimeout(c)

\* before a file is opened: the text has no comma, the URL is refused, requests
\* or open raises
FetchFails(c) == To(c, "fetch", "send")

\* urlparse or open raises ValueError, which download_file does not catch
FetchRaises(c) == To(c, "fetch", "close")

\* the response begins, and the file is opened
OpenFile(c) ==
  /\ To(c, "fetch", "write")
  /\ conn' = [conn EXCEPT ![c].touched = TRUE]

\* the file is written and closed: "Download complete"
Complete(c) == To(c, "write", "send")

\* the stream breaks or write raises: a report
\* (mutant: nothing catches it in download_file)
Uncaught(c) == To(c, "write", "close")
Caught(c) == To(c, "write", "send")
WriteFails(c) == Caught(c)

SendAnswer(c) ==
  /\ To(c, "send", "close")
  /\ conn' = [conn EXCEPT ![c].answered = TRUE]

\* the client closed: logged, no more
SendFails(c) == conn[c].client = "closed" /\ To(c, "send", "close")

CloseConn(c) ==
  /\ To(c, "close", "dead")
  /\ conn' = [conn EXCEPT ![c] = Closed(c, "server")]

\* what a handler does outside download_file
HandlerStep(c) ==
  /\ \/ /\ Recv(c) \/ RecvEof(c) \/ RecvRaises(c) \/ SendFails(c)
        /\ UNCHANGED conn
     \/ SendAnswer(c) \/ CloseConn(c)
  /\ UNCHANGED <<loopVars, callVars, window>>

Download(c) ==
  /\ \/ /\ FetchFails(c) \/ FetchRaises(c) \/ Complete(c) \/ WriteFails(c)
        /\ UNCHANGED conn
     \/ OpenFile(c)
  /\ UNCHANGED <<loopVars, callVars, window>>

-----------------------------------------------------------------------------
(* The thread that calls shutdown: BaseServer.shutdown and _cleanup.       *)

Calls(p, q) == caller.pc = p /\ caller' = [caller EXCEPT !.pc = q]

\* _running is cleared
ShutdownBegins ==
  /\ running /\ Calls("out", "close")
  /\ running' = FALSE
  /\ UNCHANGED <<open, conn, timedOut>>

\* where the loop over _active_threads begins (mutant: off by one)
BeforeFirst == 0
First == 1

\* the listening socket is closed, which resets what it had not accepted
CloseListener ==
  /\ caller.pc = "close"
  /\ caller' = [pc |-> "join", next |-> First]
  /\ open' = FALSE
  /\ conn' = [c \in Conn |-> IF Waiting(c)
                             THEN [conn[c] EXCEPT !.server = "reset"]
                             ELSE conn[c]]
  /\ UNCHANGED <<running, timedOut>>

\* a join of thread c returns (mutant: it does not wait)
NoWait(c) == TRUE
Joined(c) == ~Alive(c)

\* the loop over _active_threads, which may grow under it
Joining == caller.pc = "join" /\ caller.next <= Len(active)
NextThread == caller' = [caller EXCEPT !.next = @ + 1] /\ UNCHANGED <<running, open, conn>>

JoinNext == Joining /\ Joined(active[caller.next]) /\ NextThread /\ UNCHANGED timedOut

\* two seconds pass (mutant: join has no timeout)
NoTimeout == FALSE
JoinTimeout == Joining
JoinTimesOut ==
  /\ JoinTimeout /\ Alive(active[caller.next])
  /\ NextThread
  /\ timedOut' = TRUE

\* at the end of the list the caller goes on to the server's thread
JoinsEnd ==
  /\ caller.next > Len(active) /\ Calls("join", "joinServer")
  /\ UNCHANGED <<running, open, conn, timedOut>>

\* the join of the server's thread returns, or five seconds pass
ShutdownReturns ==
  /\ Calls("joinServer", "done")
  /\ timedOut' = (timedOut \/ pc # "dead")
  /\ UNCHANGED <<running, open, conn>>

CallerStep ==
  /\ CloseListener \/ JoinNext \/ JoinTimesOut \/ JoinsEnd \/ ShutdownReturns
  /\ UNCHANGED <<pc, taken, active, handler, window>>

-----------------------------------------------------------------------------
(* The clients.                                                            *)

\* the kernel completes the handshake while the socket listens
Dial(c) ==
  /\ open
  /\ conn[c].client = "none" /\ \A d \in 1 .. c - 1 : conn[d].client # "none"
  /\ conn' = [conn EXCEPT ![c].client = "open", ![c].server = "backlog"]

Write(c) ==
  /\ conn[c].client = "open" /\ ~conn[c].sent
  /\ conn' = [conn EXCEPT ![c].sent = TRUE]

HangUp(c) ==
  /\ conn[c].client = "open"
  /\ conn' = [conn EXCEPT ![c] = Closed(c, "client")]

\* a client that is no window: it may send late or never, and leave any time
Stranger(c) ==
  /\ \A w \in Window : window[w].conn # c
  /\ Dial(c) \/ HangUp(c) \/ Write(c)
  /\ UNCHANGED window

Step(w, p, q) == window[w].pc = p /\ window' = [window EXCEPT ![w].pc = q]

\* _handle_download: the button is disabled, a thread runs the request
Click(w) == Step(w, "ready", "request") /\ UNCHANGED conn

\* no thread can be started: the RuntimeError leaves the button disabled for ever
ClickRaises(w) == Step(w, "ready", "stuck") /\ UNCHANGED conn

\* RUDP was chosen, and _rudp_request returns or raises (it does: see
\* EveryCallReturns of Rudp); TCP was, and connect is refused or times out
RudpReturns(w) == Step(w, "request", "show") /\ UNCHANGED conn
ConnectFails(w) == Step(w, "request", "show") /\ UNCHANGED conn

Connect(w, c) ==
  /\ window[w].pc = "request"
  /\ Dial(c)
  /\ window' = [window EXCEPT ![w] = [pc |-> "send", conn |-> c]]

\* a URL and a filename, neither of them empty
SendRequest(w) == Step(w, "send", "recv") /\ Write(window[w].conn)

\* the with statement closes the socket, and the result is handed to the
\* thread of the window
Return(w) ==
  /\ HangUp(window[w].conn)
  /\ window' = [window EXCEPT ![w] = [pc |-> "show", conn |-> NoConn]]

Server(w) == conn[window[w].conn].server

\* the connection was reset under the request
SendRaises(w) ==
  /\ window[w].pc = "send" /\ Server(w) \in {"closed", "reset"}
  /\ Return(w)

\* recv returns the answer, or nothing when the server closed without one
Receive(w) ==
  /\ window[w].pc = "recv"
  /\ conn[window[w].conn].answered \/ Server(w) = "closed"
  /\ Return(w)

\* recv raises: the connection was reset, or (mutant: never) after 30 seconds
NoDeadline(w) == FALSE
Deadline(w) == window[w].pc = "recv"

ReceiveRaises(w) ==
  /\ \/ Deadline(w)
     \/ window[w].pc = "recv" /\ Server(w) \in {"closed", "reset"}
  /\ Return(w)

\* _show_result or _show_error: the button is enabled again
Show(w) == Step(w, "show", "ready") /\ UNCHANGED conn

WindowStep(w) ==
  /\ \/ RudpReturns(w) \/ ConnectFails(w) \/ \E c \in Conn : Connect(w, c)
     \/ SendRequest(w) \/ SendRaises(w) \/ Receive(w) \/ ReceiveRaises(w) \/ Show(w)
  /\ UNCHANGED <<loopVars, handler, callVars>>

-----------------------------------------------------------------------------

Init ==
  /\ running = TRUE /\ open = TRUE
  /\ pc = "check" /\ taken = NoConn /\ active = << >>
  /\ conn = [c \in Conn |-> [client |-> "none", server |-> "none",
                             sent |-> FALSE, touched |-> FALSE, answered |-> FALSE]]
  /\ handler = [c \in Conn |-> "none"]
  /\ caller = [pc |-> "out", next |-> 1] /\ timedOut = FALSE
  /\ window = [w \in Window |-> [pc |-> "ready", conn |-> NoConn]]

Next ==
  \/ ServeStep \/ CallerStep
  \/ ShutdownBegins /\ UNCHANGED <<pc, taken, active, handler, window>>
  \/ \E c \in Conn : HandlerStep(c) \/ Download(c)
  \/ \E w \in Window : WindowStep(w)
  \/ /\ \/ \E c \in Conn : Stranger(c)
        \/ \E w \in Window : Click(w) \/ ClickRaises(w)
     /\ UNCHANGED <<loopVars, handler, callVars>>

Spec == Init /\ [][Next]_vars

\* Threads are scheduled, and every call they wait in has a timeout: accept 1 s,
\* recv and send 30 s, join 2 s and 5 s.  A download has one only for each
\* read, and may go on for ever; nobody has to click, or to shut down.
Fairness ==
  /\ WF_vars(ServeStep) /\ WF_vars(CallerStep)
  /\ \A c \in Conn : WF_vars(HandlerStep(c))
  /\ \A w \in Window : WF_vars(WindowStep(w))

FairSpec == Spec /\ Fairness

-----------------------------------------------------------------------------
(* Properties.                                                             *)

\* Every variable holds what the code can put there; the caller's index never
\* leaves the list by more than one.
TypeOK ==
  /\ running \in BOOLEAN /\ open \in BOOLEAN
  /\ pc \in {"check", "accept", "start", "append", "finally", "dead"}
  /\ taken \in Conn \cup {NoConn} /\ active \in Seq(Conn)
  /\ conn \in [Conn -> [client: {"none", "open", "closed"},
                        server: {"none", "backlog", "open", "closed", "reset"},
                        sent: BOOLEAN, touched: BOOLEAN, answered: BOOLEAN]]
  /\ handler \in [Conn -> {"none", "recv", "fetch", "write", "send", "close", "dead"}]
  /\ caller \in [pc: {"out", "close", "join", "joinServer", "done"},
                 next: 1 .. Len(active) + 1]
  /\ timedOut \in BOOLEAN
  /\ window \in [Window -> [pc: {"ready", "stuck", "request", "send", "recv", "show"},
                            conn: Conn \cup {NoConn}]]

\* A shutdown none of whose joins timed out leaves at most one handler: that
\* of a connection accepted before it, appended after its loop had ended.
AtMostOneStraggler ==
  caller.pc = "done" /\ ~timedOut => Cardinality({c \in Conn : Alive(c)}) <= 1

\* A client that reads the end of the stream and no answer, which a window
\* shows as an empty response, can ask again: its request touched no file (as
\* long as the process lives: its exit closes every connection).
EmptyMeansUntouched ==
  \A c \in Conn :
    conn[c].client = "open" /\ conn[c].server = "closed" /\ conn[c].touched
      => conn[c].answered

\* "preventing a single slow download from blocking subsequent protocol
\* handshakes": a connection that waits is taken, whatever the downloads do,
\* unless the server stops.
SlowDownloadsBlockNobody ==
  \A c \in Conn : Waiting(c) ~> ~Waiting(c) \/ ~running

\* A handler gets to its download or to its end: a client that sends nothing,
\* or does not read, cannot pin it.
HandlersEnd ==
  \A c \in Conn : handler[c] \in {"recv", "send", "close"}
                    ~> handler[c] \in {"fetch", "dead"}

\* shutdown returns, also with downloads that never end and a list that grows.
ShutdownEnds == caller.pc # "out" ~> caller.pc = "done"

\* The button of a window whose thread was started is enabled again, whatever
\* the server does.
EveryWindowRecovers ==
  \A w \in Window :
    window[w].pc \in {"request", "send", "recv", "show"} ~> window[w].pc = "ready"

=============================================================================
