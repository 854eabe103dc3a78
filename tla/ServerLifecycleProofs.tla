----------------------- MODULE ServerLifecycleProofs -----------------------
(***************************************************************************)
(* What ServerLifecycle promises, proved for any number of starts.         *)
(***************************************************************************)
EXTENDS ServerLifecycle, TLAPS

\* A caller inside shutdown has cleared _running, one that came out of it has
\* not started the server again, and one inside start has made a thread that
\* does not run yet.
CallerKnows ==
  /\ caller \in {"cleanup", "join"} => ~running /\ thread # None
  /\ caller = "start" => thread # None /\ pc[thread] = "new"
  /\ stopped => ~running /\ caller = "out"

\* When start can be called or is under way, and no join timed out, no thread
\* is left, to clear _running for instance.
Quiet ==
  ~timedOut => /\ caller = "out" /\ ~running => \A t \in Thread : ~Alive(t)
               /\ caller = "start" => running /\ \A t \in Thread : ~Alive(t)

\* While no join timed out, only the last thread has a socket in its local
\* variable, the one it made, and publishes it before its loop.
OwnSocket ==
  ~timedOut =>
    \A t \in Thread :
      /\ local[t] \in {t, None}
      /\ pc[t] \in {"unused", "new", "failed", "create", "finally", "dead"} => local[t] = None
      /\ pc[t] = "bind" => (kind = "shared" => sock = t) /\ (kind = "local" => local[t] = t)
      /\ pc[t] \in {"check", "recv"} => sock = t

Inv == /\ TypeOK /\ RunningIsServed /\ OneIncarnation /\ NoForeignSocket
       /\ CallerKnows /\ Quiet /\ OwnSocket

-----------------------------------------------------------------------------

USE DEF objVars, threadVars, callVars

\* A server that was never started.
LEMMA InitInv == Init => Inv
<1> SUFFICES ASSUME Init PROVE Inv
  OBVIOUS
<1> QED BY DEF Init, Inv, TypeOK, RunningIsServed, OneIncarnation, Alive,
       NoForeignSocket, CallerKnows, Quiet, OwnSocket

\* ShutdownBegins: shutdown clears _running while the thread still runs.
LEMMA ShutdownBeginsInv ==
  ASSUME Inv, ShutdownBegins
  PROVE  Inv'
<1>1. TypeOK'
  BY DEF Inv, TypeOK, ShutdownBegins
<1>2. RunningIsServed'
  BY DEF Inv, RunningIsServed, ShutdownBegins
<1>3. OneIncarnation'
  BY DEF Inv, OneIncarnation, ShutdownBegins, Alive
<1>4. NoForeignSocket'
  BY DEF Inv, NoForeignSocket, ShutdownBegins
<1>5. CallerKnows'
  BY DEF Inv, CallerKnows, ShutdownBegins, RunningIsServed
<1>6. Quiet'
  BY DEF Inv, Quiet, ShutdownBegins
<1>7. OwnSocket'
  BY DEF Inv, OwnSocket, ShutdownBegins
<1> QED BY <1>1, <1>2, <1>3, <1>4, <1>5, <1>6, <1>7 DEF Inv

\* ShutdownIdle: shutdown of a stopped server changes nothing the invariant is about.
LEMMA ShutdownIdleInv ==
  ASSUME Inv, ShutdownIdle
  PROVE  Inv'
<1>1. TypeOK'
  BY DEF Inv, TypeOK, ShutdownIdle
<1>2. RunningIsServed'
  BY DEF Inv, RunningIsServed, ShutdownIdle
<1>3. OneIncarnation'
  BY DEF Inv, OneIncarnation, ShutdownIdle, Quiet, Alive
<1>4. NoForeignSocket'
  BY DEF Inv, NoForeignSocket, ShutdownIdle
<1>5. CallerKnows'
  BY DEF Inv, CallerKnows, ShutdownIdle
<1>6. Quiet'
  BY DEF Inv, Quiet, ShutdownIdle, Alive
<1>7. OwnSocket'
  BY DEF Inv, OwnSocket, ShutdownIdle
<1> QED BY <1>1, <1>2, <1>3, <1>4, <1>5, <1>6, <1>7 DEF Inv

\* Cleanup: closing a socket only makes open smaller.
LEMMA CleanupInv ==
  ASSUME Inv, Cleanup
  PROVE  Inv'
<1>1. TypeOK'
  BY DEF Inv, TypeOK, Cleanup
<1>2. RunningIsServed'
  BY DEF Inv, RunningIsServed, Cleanup, Alive
<1>3. OneIncarnation'
  BY DEF Inv, OneIncarnation, Cleanup, Alive
<1>4. NoForeignSocket'
  BY DEF Inv, NoForeignSocket, Cleanup
<1>5. CallerKnows'
  BY DEF Inv, CallerKnows, Cleanup
<1>6. Quiet'
  BY DEF Inv, Quiet, Cleanup
<1>7. OwnSocket'
  BY DEF Inv, OwnSocket, Cleanup
<1> QED BY <1>1, <1>2, <1>3, <1>4, <1>5, <1>6, <1>7 DEF Inv

\* JoinReturns: a join that returned found the last thread dead, and it was alone.
LEMMA JoinReturnsInv ==
  ASSUME Inv, JoinReturns
  PROVE  Inv'
<1>1. TypeOK'
  BY DEF Inv, TypeOK, JoinReturns
<1>2. RunningIsServed'
  BY DEF Inv, RunningIsServed, JoinReturns, Joined
<1>3. OneIncarnation'
  BY DEF Inv, OneIncarnation, JoinReturns, Alive, Joined
<1>4. NoForeignSocket'
  BY DEF Inv, NoForeignSocket, JoinReturns
<1>5. CallerKnows'
  BY DEF Inv, CallerKnows, JoinReturns
<1>6. Quiet'
  BY DEF Inv, Quiet, JoinReturns, OneIncarnation, Alive, Joined
<1>7. OwnSocket'
  BY DEF Inv, OwnSocket, JoinReturns
<1> QED BY <1>1, <1>2, <1>3, <1>4, <1>5, <1>6, <1>7 DEF Inv

\* JoinTimesOut: after a join that timed out nothing more is promised of sockets.
LEMMA JoinTimesOutInv ==
  ASSUME Inv, JoinTimesOut
  PROVE  Inv'
<1>1. TypeOK'
  BY DEF Inv, TypeOK, JoinTimesOut
<1>2. RunningIsServed'
  BY DEF Inv, RunningIsServed, JoinTimesOut, Alive
<1>3. OneIncarnation'
  BY DEF Inv, OneIncarnation, JoinTimesOut
<1>4. NoForeignSocket'
  BY DEF Inv, NoForeignSocket, JoinTimesOut
<1>5. CallerKnows'
  BY DEF Inv, CallerKnows, JoinTimesOut
<1>6. Quiet'
  BY DEF Inv, Quiet, JoinTimesOut
<1>7. OwnSocket'
  BY DEF Inv, OwnSocket, JoinTimesOut
<1> QED BY <1>1, <1>2, <1>3, <1>4, <1>5, <1>6, <1>7 DEF Inv

\* Start: start finds no thread: Quiet.
LEMMA StartInv ==
  ASSUME Inv, NEW t \in Thread, Start(t)
  PROVE  Inv'
<1>1. TypeOK'
  BY DEF Inv, TypeOK, Start
<1>2. RunningIsServed'
  BY LifecycleAssumption DEF Inv, RunningIsServed, Start, TypeOK, Alive
<1>3. OneIncarnation'
  BY DEF Inv, OneIncarnation, Start, Quiet, Alive
<1>4. NoForeignSocket'
  BY DEF Inv, NoForeignSocket, Start
<1>5. CallerKnows'
  BY LifecycleAssumption DEF Inv, CallerKnows, Start, TypeOK
<1>6. Quiet'
  BY DEF Inv, Quiet, Start, Alive, TypeOK
<1>7. OwnSocket'
  BY DEF Inv, OwnSocket, Start
<1> QED BY <1>1, <1>2, <1>3, <1>4, <1>5, <1>6, <1>7 DEF Inv

\* ThreadStarts: the thread is the only one: Quiet.
LEMMA ThreadStartsInv ==
  ASSUME Inv, ThreadStarts
  PROVE  Inv'
<1>0. thread \in Thread /\ pc[thread] = "new" /\ ~stopped
  BY LifecycleAssumption DEF Inv, TypeOK, CallerKnows, ThreadStarts
<1>1. TypeOK'
  BY DEF Inv, TypeOK, ThreadStarts
<1>2. RunningIsServed'
  BY <1>0 DEF Inv, RunningIsServed, ThreadStarts, Alive, TypeOK
<1>3. OneIncarnation'
  BY <1>0 DEF Inv, OneIncarnation, ThreadStarts, Alive, TypeOK
<1>4. NoForeignSocket'
  BY <1>0 DEF Inv, NoForeignSocket, ThreadStarts, TypeOK
<1>5. CallerKnows'
  BY <1>0 DEF Inv, CallerKnows, ThreadStarts, TypeOK
<1>6. Quiet'
  BY <1>0 DEF Inv, Quiet, ThreadStarts, Alive, TypeOK
<1>7. OwnSocket'
  BY <1>0 DEF Inv, OwnSocket, ThreadStarts, TypeOK
<1> QED BY <1>1, <1>2, <1>3, <1>4, <1>5, <1>6, <1>7 DEF Inv

\* StartRaises: _running stays set, and the thread never runs.
LEMMA StartRaisesInv ==
  ASSUME Inv, StartRaises
  PROVE  Inv'
<1>0. thread \in Thread /\ pc[thread] = "new" /\ ~stopped
  BY LifecycleAssumption DEF Inv, TypeOK, CallerKnows, StartRaises
<1>1. TypeOK'
  BY DEF Inv, TypeOK, StartRaises
<1>2. RunningIsServed'
  BY <1>0 DEF Inv, RunningIsServed, StartRaises, Alive, TypeOK
<1>3. OneIncarnation'
  BY <1>0 DEF Inv, OneIncarnation, StartRaises, Alive, TypeOK
<1>4. NoForeignSocket'
  BY <1>0 DEF Inv, NoForeignSocket, StartRaises, TypeOK
<1>5. CallerKnows'
  BY <1>0 DEF Inv, CallerKnows, StartRaises, TypeOK
<1>6. Quiet'
  BY <1>0 DEF Inv, Quiet, StartRaises, Alive, TypeOK
<1>7. OwnSocket'
  BY <1>0 DEF Inv, OwnSocket, StartRaises, TypeOK
<1> QED BY <1>1, <1>2, <1>3, <1>4, <1>5, <1>6, <1>7 DEF Inv

\* Create: a new socket is the only one its thread knows.
LEMMA CreateInv ==
  ASSUME Inv, NEW t \in Thread, Create(t)
  PROVE  Inv'
<1>1. TypeOK'
  BY DEF Inv, TypeOK, Create, Referenced
<1>2. RunningIsServed'
  BY DEF Inv, RunningIsServed, Create, Alive
<1>3. OneIncarnation'
  BY DEF Inv, OneIncarnation, Create, Alive
<1>4. NoForeignSocket'
  BY DEF Inv, NoForeignSocket, Create, OneIncarnation, Alive
<1>5. CallerKnows'
  BY DEF Inv, CallerKnows, Create
<1>6. Quiet'
  BY DEF Inv, Quiet, Create, Alive
<1>7. OwnSocket'
  BY DEF Inv, OwnSocket, Create, TypeOK, OneIncarnation, Alive
<1> QED BY <1>1, <1>2, <1>3, <1>4, <1>5, <1>6, <1>7 DEF Inv

\* Bind: from here on the socket is published; the one before is unreferenced.
LEMMA BindInv ==
  ASSUME Inv, NEW t \in Thread, Bind(t)
  PROVE  Inv'
<1>1. TypeOK'
  BY DEF Inv, TypeOK, Bind, Referenced
<1>2. RunningIsServed'
  BY DEF Inv, RunningIsServed, Bind, Alive
<1>3. OneIncarnation'
  BY DEF Inv, OneIncarnation, Bind, Alive
<1>4. NoForeignSocket'
  BY LifecycleAssumption DEF Inv, NoForeignSocket, Bind, TypeOK,
     OneIncarnation, OwnSocket, Alive, Current, Referenced
<1>5. CallerKnows'
  BY DEF Inv, CallerKnows, Bind
<1>6. Quiet'
  BY DEF Inv, Quiet, Bind, Alive
<1>7. OwnSocket'
  BY DEF Inv, OwnSocket, Bind, TypeOK, OneIncarnation, Alive, Current
<1> QED BY <1>1, <1>2, <1>3, <1>4, <1>5, <1>6, <1>7 DEF Inv

\* BindRaises: a thread that failed drops its socket.
LEMMA BindRaisesInv ==
  ASSUME Inv, NEW t \in Thread, BindRaises(t)
  PROVE  Inv'
<1>1. TypeOK'
  BY DEF Inv, TypeOK, BindRaises, Leave, Referenced
<1>2. RunningIsServed'
  BY DEF Inv, RunningIsServed, BindRaises, Alive, Leave
<1>3. OneIncarnation'
  BY DEF Inv, OneIncarnation, BindRaises, Alive, Leave
<1>4. NoForeignSocket'
  BY DEF Inv, NoForeignSocket, BindRaises, Leave, Referenced
<1>5. CallerKnows'
  BY DEF Inv, CallerKnows, BindRaises, Leave
<1>6. Quiet'
  BY DEF Inv, Quiet, BindRaises, Alive, Leave
<1>7. OwnSocket'
  BY DEF Inv, OwnSocket, BindRaises, TypeOK, Leave
<1> QED BY <1>1, <1>2, <1>3, <1>4, <1>5, <1>6, <1>7 DEF Inv

\* Check: the round reads the socket of this thread: no other published one.
LEMMA CheckInv ==
  ASSUME Inv, NEW t \in Thread, Check(t)
  PROVE  Inv'
<1>1. TypeOK'
  BY DEF Inv, TypeOK, Check, Current, Referenced
<1>2. RunningIsServed'
  BY DEF Inv, RunningIsServed, Check, Alive
<1>3. OneIncarnation'
  BY DEF Inv, OneIncarnation, Check, Alive
<1>4. NoForeignSocket'
  BY DEF Inv, NoForeignSocket, Check, Referenced
<1>5. CallerKnows'
  BY DEF Inv, CallerKnows, Check
<1>6. Quiet'
  BY DEF Inv, Quiet, Check, WhileRunning, Alive
<1>7. OwnSocket'
  BY DEF Inv, OwnSocket, Check, Current
<1> QED BY <1>1, <1>2, <1>3, <1>4, <1>5, <1>6, <1>7 DEF Inv

\* CheckEnds: a thread that sees the server stopped drops its socket.
LEMMA CheckEndsInv ==
  ASSUME Inv, NEW t \in Thread, CheckEnds(t)
  PROVE  Inv'
<1>1. TypeOK'
  BY DEF Inv, TypeOK, CheckEnds, Leave, Referenced
<1>2. RunningIsServed'
  BY DEF Inv, RunningIsServed, CheckEnds, WhileRunning, Leave
<1>3. OneIncarnation'
  BY DEF Inv, OneIncarnation, CheckEnds, Alive, Leave
<1>4. NoForeignSocket'
  BY DEF Inv, NoForeignSocket, CheckEnds, Leave, Referenced
<1>5. CallerKnows'
  BY DEF Inv, CallerKnows, CheckEnds, Leave
<1>6. Quiet'
  BY DEF Inv, Quiet, CheckEnds, Alive, Leave
<1>7. OwnSocket'
  BY DEF Inv, OwnSocket, CheckEnds, TypeOK, Leave
<1> QED BY <1>1, <1>2, <1>3, <1>4, <1>5, <1>6, <1>7 DEF Inv

\* RecvReturns: a round ends.
LEMMA RecvReturnsInv ==
  ASSUME Inv, NEW t \in Thread, RecvReturns(t)
  PROVE  Inv'
<1>1. TypeOK'
  BY DEF Inv, TypeOK, RecvReturns
<1>2. RunningIsServed'
  BY DEF Inv, RunningIsServed, RecvReturns, Alive
<1>3. OneIncarnation'
  BY DEF Inv, OneIncarnation, RecvReturns, Alive
<1>4. NoForeignSocket'
  BY DEF Inv, NoForeignSocket, RecvReturns
<1>5. CallerKnows'
  BY DEF Inv, CallerKnows, RecvReturns
<1>6. Quiet'
  BY DEF Inv, Quiet, RecvReturns, Alive
<1>7. OwnSocket'
  BY DEF Inv, OwnSocket, RecvReturns
<1> QED BY <1>1, <1>2, <1>3, <1>4, <1>5, <1>6, <1>7 DEF Inv

\* RecvRaises: a thread whose loop broke drops its socket.
LEMMA RecvRaisesInv ==
  ASSUME Inv, NEW t \in Thread, RecvRaises(t)
  PROVE  Inv'
<1>1. TypeOK'
  BY DEF Inv, TypeOK, RecvRaises, Leave, Referenced
<1>2. RunningIsServed'
  BY DEF Inv, RunningIsServed, RecvRaises, Alive, Leave
<1>3. OneIncarnation'
  BY DEF Inv, OneIncarnation, RecvRaises, Alive, Leave
<1>4. NoForeignSocket'
  BY DEF Inv, NoForeignSocket, RecvRaises, Leave, Referenced
<1>5. CallerKnows'
  BY DEF Inv, CallerKnows, RecvRaises, Leave
<1>6. Quiet'
  BY DEF Inv, Quiet, RecvRaises, Alive, Leave
<1>7. OwnSocket'
  BY DEF Inv, OwnSocket, RecvRaises, TypeOK, Leave
<1> QED BY <1>1, <1>2, <1>3, <1>4, <1>5, <1>6, <1>7 DEF Inv

\* Finally: the thread dies and clears _running in one step.
LEMMA FinallyInv ==
  ASSUME Inv, NEW t \in Thread, Finally(t)
  PROVE  Inv'
<1>1. TypeOK'
  BY DEF Inv, TypeOK, Finally, ClearRunning
<1>2. RunningIsServed'
  BY DEF Inv, RunningIsServed, Finally, ClearRunning
<1>3. OneIncarnation'
  BY DEF Inv, OneIncarnation, Finally, Alive
<1>4. NoForeignSocket'
  BY DEF Inv, NoForeignSocket, Finally
<1>5. CallerKnows'
  BY DEF Inv, CallerKnows, Finally, ClearRunning
<1>6. Quiet'
  BY DEF Inv, Quiet, Finally, TypeOK, OneIncarnation, Alive
<1>7. OwnSocket'
  BY DEF Inv, OwnSocket, Finally
<1> QED BY <1>1, <1>2, <1>3, <1>4, <1>5, <1>6, <1>7 DEF Inv

\* Whatever the caller, the threads and the sockets do, Inv holds.
THEOREM Invariance == Spec => []Inv
<1>1. Inv /\ [Next]_vars => Inv'
  <2> SUFFICES ASSUME Inv, [Next]_vars PROVE Inv'
    OBVIOUS
  <2>1. CASE UNCHANGED vars
    BY <2>1 DEF vars, Inv, TypeOK, RunningIsServed, OneIncarnation,
       NoForeignSocket, CallerKnows, Quiet, OwnSocket, Alive
  <2>2. CASE CallerStep
    BY <2>2, ThreadStartsInv, StartRaisesInv, ShutdownBeginsInv, ShutdownIdleInv, CleanupInv, JoinReturnsInv,
       JoinTimesOutInv DEF CallerStep
  <2>3. ASSUME NEW t \in Thread, Start(t) PROVE Inv'
    BY <2>3, StartInv
  <2>4. ASSUME NEW t \in Thread, ThreadStep(t) PROVE Inv'
    BY <2>4, CreateInv, BindInv, BindRaisesInv, CheckInv, CheckEndsInv,
       RecvReturnsInv, RecvRaisesInv, FinallyInv DEF ThreadStep
  <2> QED BY <2>1, <2>2, <2>3, <2>4 DEF Next
<1> QED BY <1>1, InitInv, PTL DEF Spec

\* Every variable holds what the code can put there.
THEOREM TypeCorrect == Spec => []TypeOK
<1>1. Inv => TypeOK
  BY DEF Inv
<1> QED BY <1>1, Invariance, PTL

\* is_running is never left set by a thread that ran and ended: only a start
\* whose Thread.start raised leaves it set without a thread.
THEOREM RunningHasThread == Spec => []RunningIsServed
<1>1. Inv => RunningIsServed
  BY DEF Inv
<1> QED BY <1>1, Invariance, PTL

\* As long as no join timed out, no two threads serve, and none serves a
\* server whose shutdown returned.
THEOREM NoSecondThread == Spec => []OneIncarnation
<1>1. Inv => OneIncarnation
  BY DEF Inv
<1> QED BY <1>1, Invariance, PTL

\* As long as no join timed out, a restarted server's port is its own.
THEOREM NoSocketLeftBehind == Spec => []NoForeignSocket
<1>1. Inv => NoForeignSocket
  BY DEF Inv
<1> QED BY <1>1, Invariance, PTL

=============================================================================
