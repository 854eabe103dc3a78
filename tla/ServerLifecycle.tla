--------------------------- MODULE ServerLifecycle ---------------------------
(***************************************************************************)
(* The lifecycle every server inherits from core/base_server.py: start,    *)
(* shutdown, and the thread that runs _serve_forever, as implemented by    *)
(* the servers of rudp/, dhcp/, dns_srv/ and http_srv/.                    *)
(*                                                                         *)
(* One caller uses the object; each start makes a new thread, and each     *)
(* thread makes one socket, which has the name of the thread.              *)
(***************************************************************************)
EXTENDS Naturals

CONSTANTS
  Thread,  \* bound: the threads (and sockets) start can make
  None,    \* no thread, no socket
  Errors   \* a call on an open socket may raise OSError (a taken port, an
           \* ICMP error reported by recvfrom, a handler that raises it)

ASSUME LifecycleAssumption == None \notin Thread /\ Errors \in BOOLEAN

VARIABLES
  kind,      \* "local": _serve_forever keeps the socket in a local variable and
             \* publishes it in _sock once bound (DHCP); "shared": it publishes
             \* it first and reads _sock in every round (RUDP, DNS, TCP)
  running,   \* _running
  thread,    \* _thread
  sock,      \* _sock
  pc,        \* what each thread is about to do
  local,     \* the socket in the local variable of each thread
  open,      \* the sockets that are not closed
  bound,     \* the sockets that were bound to the port
  caller,    \* what the caller is doing
  stopped,   \* history: shutdown returned, and start was not called since
  timedOut   \* history: a shutdown returned with the thread still alive

objVars    == <<running, thread, sock>>
threadVars == <<pc, local, open, bound>>
callVars   == <<caller, stopped, timedOut>>
vars == <<kind, running, thread, sock, pc, local, open, bound,
          caller, stopped, timedOut>>

\* is_alive: not before Thread.start, nor when that raised
Alive(t) == pc[t] \notin {"unused", "new", "failed", "dead"}

\* The sockets of S that some variable still refers to: the others are closed
\* when their last reference goes.
Referenced(S) ==
  {s \in S : s = sock' \/ \E t \in Thread : local'[t] = s}

-----------------------------------------------------------------------------
(* The caller.                                                             *)

\* start, up to the new Thread object: refused while is_running
Start(t) ==
  /\ caller = "out" /\ ~running
  /\ pc[t] = "unused"
  /\ running' = TRUE
  /\ thread' = t
  /\ pc' = [pc EXCEPT ![t] = "new"]
  /\ caller' = "start" /\ stopped' = FALSE
  /\ UNCHANGED <<kind, sock, local, open, bound, timedOut>>

\* Thread.start: the thread runs, ..
ThreadStarts ==
  /\ caller = "start" /\ caller' = "out"
  /\ pc' = [pc EXCEPT ![thread] = "create"]
  /\ UNCHANGED <<kind, objVars, local, open, bound, stopped, timedOut>>

\* .. or it raises RuntimeError, and nobody clears _running
StartRaises ==
  /\ caller = "start" /\ caller' = "out"
  /\ pc' = [pc EXCEPT ![thread] = "failed"]
  /\ UNCHANGED <<kind, objVars, local, open, bound, stopped, timedOut>>

\* shutdown of a server that is not running returns at once
ShutdownIdle ==
  /\ caller = "out" /\ ~running
  /\ thread # None
  /\ stopped' = TRUE
  /\ UNCHANGED <<kind, objVars, threadVars, caller, timedOut>>

\* shutdown up to _running.clear()
ShutdownBegins ==
  /\ caller = "out" /\ running
  /\ running' = FALSE
  /\ caller' = "cleanup"
  /\ UNCHANGED <<kind, thread, sock, threadVars, stopped, timedOut>>

\* _cleanup closes the socket that is published, if one is
Cleanup ==
  /\ caller = "cleanup"
  /\ open' = open \ {sock}
  /\ caller' = "join"
  /\ UNCHANGED <<kind, objVars, pc, local, bound, stopped, timedOut>>

\* join returns when the thread is dead (mutant: there is no join), or at its
\* timeout
NoJoin == TRUE
Joined == ~Alive(thread)

JoinReturns ==
  /\ caller = "join" /\ Joined
  /\ caller' = "out" /\ stopped' = TRUE
  /\ UNCHANGED <<kind, objVars, threadVars, timedOut>>

JoinTimesOut ==
  /\ caller = "join" /\ Alive(thread)
  /\ caller' = "out" /\ stopped' = TRUE /\ timedOut' = TRUE
  /\ UNCHANGED <<kind, objVars, threadVars>>

-----------------------------------------------------------------------------
(* A thread: _run_wrapper and _serve_forever.                              *)

\* the socket, unbound; with the shared variable, in place of the one it had
Create(t) ==
  /\ pc[t] = "create"
  /\ pc' = [pc EXCEPT ![t] = "bind"]
  /\ local' = IF kind = "local" THEN [local EXCEPT ![t] = t] ELSE local
  /\ sock' = IF kind = "shared" THEN t ELSE sock
  /\ open' = Referenced(open \cup {t})
  /\ UNCHANGED <<kind, running, thread, bound, callVars>>

\* _serve_forever returns or raises: its local variable goes
Leave(t) ==
  /\ pc' = [pc EXCEPT ![t] = "finally"]
  /\ local' = [local EXCEPT ![t] = None]
  /\ UNCHANGED sock
  /\ open' = Referenced(open)
  /\ UNCHANGED <<kind, running, thread, bound, callVars>>

\* the socket thread t binds, or reads
Current(t) == IF kind = "shared" THEN sock ELSE local[t]

Bind(t) ==
  /\ pc[t] = "bind" /\ Current(t) \in open \ bound
  /\ pc' = [pc EXCEPT ![t] = "check"]
  /\ local' = [local EXCEPT ![t] = Current(t)]
  /\ sock' = Current(t)
  /\ bound' = bound \cup {Current(t)}
  /\ open' = Referenced(open)
  /\ UNCHANGED <<kind, running, thread, callVars>>

\* the socket was closed by the caller or bound by another thread, or the
\* port is taken: OSError
BindRaises(t) ==
  /\ pc[t] = "bind"
  /\ Current(t) \notin open \ bound \/ Errors
  /\ Leave(t)

\* the loop's condition (mutant: while True)
WhileTrue == TRUE
WhileRunning == running

\* the loop goes on, with the socket this round will read
Check(t) ==
  /\ pc[t] = "check" /\ WhileRunning
  /\ pc' = [pc EXCEPT ![t] = "recv"]
  /\ local' = [local EXCEPT ![t] = Current(t)]
  /\ UNCHANGED sock
  /\ open' = Referenced(open)
  /\ UNCHANGED <<kind, running, thread, bound, callVars>>

CheckEnds(t) == pc[t] = "check" /\ ~WhileRunning /\ Leave(t)

\* recvfrom or accept returns, and the packet is handled; or it times out
RecvReturns(t) ==
  /\ pc[t] = "recv"
  /\ pc' = [pc EXCEPT ![t] = "check"]
  /\ UNCHANGED <<kind, objVars, local, open, bound, callVars>>

\* the caller closed the socket, or recvfrom, accept or a handler raises
\* another OSError: the loop breaks
RecvRaises(t) ==
  /\ pc[t] = "recv"
  /\ local[t] \notin open \/ Errors
  /\ Leave(t)

\* the finally clause of _run_wrapper (mutant: there is none)
KeepRunning == UNCHANGED running
ClearRunning == running' = FALSE

Finally(t) ==
  /\ pc[t] = "finally"
  /\ pc' = [pc EXCEPT ![t] = "dead"]
  /\ ClearRunning
  /\ UNCHANGED <<kind, thread, sock, local, open, bound, callVars>>

-----------------------------------------------------------------------------

Init ==
  /\ kind \in {"local", "shared"}
  /\ running = FALSE
  /\ thread = None /\ sock = None
  /\ pc = [t \in Thread |-> "unused"]
  /\ local = [t \in Thread |-> None]
  /\ open = {} /\ bound = {}
  /\ caller = "out"
  /\ stopped = FALSE /\ timedOut = FALSE

CallerStep ==
  \/ ThreadStarts \/ StartRaises
  \/ ShutdownBegins \/ ShutdownIdle \/ Cleanup \/ JoinReturns \/ JoinTimesOut

ThreadStep(t) ==
  \/ Create(t) \/ Bind(t) \/ BindRaises(t) \/ Check(t) \/ CheckEnds(t)
  \/ RecvReturns(t) \/ RecvRaises(t) \/ Finally(t)

Next ==
  \/ CallerStep
  \/ \E t \in Thread : Start(t) \/ ThreadStep(t)

Spec == Init /\ [][Next]_vars

\* Threads are scheduled, and recvfrom and accept have a timeout of one
\* second; the caller need not do anything.
FairSpec == Spec /\ \A t \in Thread : WF_vars(ThreadStep(t))

-----------------------------------------------------------------------------
(* Properties.                                                             *)

\* Every variable holds what the code can put there.
TypeOK ==
  /\ kind \in {"local", "shared"}
  /\ running \in BOOLEAN
  /\ thread \in Thread \cup {None} /\ sock \in Thread \cup {None}
  /\ pc \in [Thread -> {"unused", "new", "failed", "create", "bind", "check",
                       "recv", "finally", "dead"}]
  /\ local \in [Thread -> Thread \cup {None}]
  /\ bound \subseteq Thread /\ open \subseteq Thread
  /\ caller \in {"out", "start", "cleanup", "join"}
  /\ stopped \in BOOLEAN /\ timedOut \in BOOLEAN

\* No thread that ran leaves is_running set behind it, or start would refuse to
\* make another one: a server that says it is running has its last thread
\* alive, or that thread never ran, because start has not come to it or because
\* its Thread.start raised.  (Then only shutdown makes start possible again.)
RunningIsServed ==
  running => /\ thread # None
             /\ Alive(thread) \/ pc[thread] \in {"new", "failed"}

\* While every shutdown waited for its thread, start never makes a second one
\* beside it, and nothing runs once shutdown has returned.
OneIncarnation ==
  ~timedOut => /\ \A t \in Thread : Alive(t) => t = thread
               /\ stopped => \A t \in Thread : ~Alive(t)

\* While every shutdown waited for its thread, a restarted server that is in
\* its loop has left no socket of an earlier start open on the port.
NoForeignSocket ==
  ~timedOut /\ thread # None /\ pc[thread] \in {"check", "recv"} =>
    open \subseteq {thread}

\* A server that is told to stop, or breaks, stops: its threads end, those of
\* earlier starts too.
StopsAtLast == ~running ~> running \/ \A t \in Thread : ~Alive(t)

\* "After shutdown, the port should be re-bindable": at least when shutdown
\* waited for the thread.
PortReleased == stopped /\ ~timedOut => open \cap bound = {}

=============================================================================
