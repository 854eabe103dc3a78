\* One client that asks twice for a domain whose record comes and goes.
CONSTANTS
  Client = {c1}
  Domain = {d1}
  Ip = {i1, i2}
  Junk = Junk
  Id = {1, 2}
  ResolverId = 0
  d1 = d1
  i1 = i1
  DefaultCache <- OneRecord
SPECIFICATION FairSpec
INVARIANT TypeOK
PROPERTIES AnswersCurrent ListenersEnd
CHECK_DEADLOCK FALSE
