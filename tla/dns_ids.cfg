\* One client, a domain with a record and one without.
CONSTANTS
  Client = {c1}
  Domain = {d1, d2}
  Ip = {i1, i2}
  Junk = Junk
  Id = {1, 2}
  ResolverId = 0
  d1 = d1
  i1 = i1
  DefaultCache <- OneRecord
SPECIFICATION Spec
INVARIANT RepliesAnswerQueries
CHECK_DEADLOCK FALSE
