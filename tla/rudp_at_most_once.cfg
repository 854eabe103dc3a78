\* One call, one retransmission, nothing duplicated by the network.
CONSTANTS
  Addr = {a1}
  Call = {r1}
  Worker = {w1, w2}
  SeqMod = 4
  ClientRetries = 2
  ServerRetries = 1
  MaxClients = 1
  MaxDup = 0
  MaxLaunch = 1
  NoCall = NoCall
SPECIFICATION Spec
INVARIANT AtMostOnce
CHECK_DEADLOCK FALSE
