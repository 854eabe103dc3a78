\* Three clients and the example, two addresses, three transactions, one restart
\* of the server, twelve different packets.
CONSTANTS
  Mac = {m1, m2, m3, zeros}
  Start = 1
  End = 2
  Xid = {x1, x2, x3}
  NoXid = NoXid
  DemoMac = zeros
  DemoXid = DemoXid
  MaxLaunch = 2
  MaxPackets = 12
SPECIFICATION Spec
SYMMETRY Symmetry
CONSTRAINT FewPackets
INVARIANTS TypeOK OfferHeld LeaseHeld NoSharedLease PoolConserved
PROPERTIES TurnedAwayOnlyWhenFull ImplementsLeaseTable
CHECK_DEADLOCK FALSE
