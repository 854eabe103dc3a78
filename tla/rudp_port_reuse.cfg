\* One address used by two client objects in turn, two calls, one packet
\* duplicated: requests, ACKs and responses of one call meet those of the other.
CONSTANTS
  Addr = {a1}
  Call = {r1, r2}
  Worker = {w1, w2}
  SeqMod = 4
  ClientRetries = 1
  ServerRetries = 1
  MaxClients = 2
  MaxDup = 1
  MaxLaunch = 1
  NoCall = NoCall
SPECIFICATION Spec
SYMMETRY Symmetry
INVARIANTS AnswersOwn AckedMeansAccepted DeliveryConfirmed Provenance
PROPERTY ImplementsService
CHECK_DEADLOCK FALSE
