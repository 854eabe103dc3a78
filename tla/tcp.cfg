\* One window and other clients, two connections.
CONSTANTS
  MaxConn = 2
  Window = {w1}
SPECIFICATION FairSpec
INVARIANTS TypeOK AtMostOneStraggler EmptyMeansUntouched
PROPERTIES SlowDownloadsBlockNobody HandlersEnd ShutdownEnds EveryWindowRecovers
CHECK_DEADLOCK FALSE
