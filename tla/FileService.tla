----------------------------- MODULE FileService -----------------------------
(***************************************************************************)
(* What the reliable-UDP service promises over a network that promises     *)
(* nothing: a request is worked on once for every time it was accepted,    *)
(* and a call ends once, in failure or with the result of work that was    *)
(* done for a call of its own slot.                                        *)
(***************************************************************************)
EXTENDS Integers, BagsExt, PyDict

CONSTANTS
  Call,    \* calls of the service
  Slot,    \* what the service can tell calls apart by
  NoCall   \* no result

VARIABLES
  asked,     \* dictionary call -> slot
  accepted,  \* bag of the calls the server accepted
  executed,  \* bag of the calls the server has done the work of
  ended      \* dictionary call -> the call whose result it got

vars == <<asked, accepted, executed, ended>>

Init ==
  /\ asked = EmptyDict /\ ended = EmptyDict
  /\ accepted = EmptyDict /\ executed = EmptyDict

Ask(r, s) ==
  /\ r \notin DOMAIN asked
  /\ asked' = Put(asked, r, s)
  /\ UNCHANGED <<accepted, executed, ended>>

Accept(r) ==
  /\ r \in DOMAIN asked
  /\ accepted' = BagAdd(accepted, r)
  /\ UNCHANGED <<asked, executed, ended>>

Execute(r) ==
  /\ r \in DOMAIN accepted
  /\ r \in DOMAIN executed => executed[r] < accepted[r]
  /\ executed' = BagAdd(executed, r)
  /\ UNCHANGED <<asked, accepted, ended>>

\* r ends with result q
End(r, q) ==
  /\ r \in DOMAIN asked \ DOMAIN ended
  /\ ended' = Put(ended, r, q)
  /\ UNCHANGED <<asked, accepted, executed>>

Answer(r, q) == End(r, q) /\ q \in DOMAIN executed /\ asked[q] = asked[r]

Fail(r) == End(r, NoCall)

Next ==
  \E r \in Call :
    \/ \E s \in Slot : Ask(r, s)
    \/ Accept(r) \/ Execute(r)
    \/ \E q \in Call : Answer(r, q)
    \/ Fail(r)

Spec == Init /\ [][Next]_vars

=============================================================================
