\* Three starts of one server object.
CONSTANTS
  Thread = {t1, t2, t3}
  None = None
  Errors = TRUE
SPECIFICATION FairSpec
INVARIANTS RunningIsServed OneIncarnation NoForeignSocket
PROPERTY StopsAtLast
CHECK_DEADLOCK FALSE
