\* One call, retries on both sides, a shutdown and a second launch of the
\* server; a sequence space that wraps at once.  No symmetry: two of the
\* properties are temporal.
CONSTANTS
  Addr = {a1}
  Call = {r1}
  Worker = {w1, w2}
  SeqMod = 2
  ClientRetries = 2
  ServerRetries = 2
  MaxClients = 1
  MaxDup = 0
  MaxLaunch = 2
  NoCall = NoCall
SPECIFICATION FairSpec
INVARIANTS TypeOK NoEventLeak ExecutedOncePerAcceptance
PROPERTIES ImplementsService EveryCallReturns EveryWorkerEnds
CHECK_DEADLOCK FALSE
