\* One start, one shutdown, no error on an open socket.
CONSTANTS
  Thread = {t1}
  None = None
  Errors = FALSE
SPECIFICATION Spec
INVARIANT PortReleased
CHECK_DEADLOCK FALSE
