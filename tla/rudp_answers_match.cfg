\* Two calls of one client, nothing duplicated by the network.
CONSTANTS
  Addr = {a1}
  Call = {r1, r2}
  Worker = {w1, w2}
  SeqMod = 4
  ClientRetries = 1
  ServerRetries = 1
  MaxClients = 1
  MaxDup = 0
  MaxLaunch = 1
  NoCall = NoCall
SPECIFICATION Spec
INVARIANT AnswersMatch
CHECK_DEADLOCK FALSE
