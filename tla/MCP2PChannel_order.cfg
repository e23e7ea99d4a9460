SPECIFICATION Spec

CONSTANTS
  dealer = dealer
  member = member
  target = target
  Parties <- MCParties
  Links <- ToTarget
  Receivers = {target}
  Calls = {"ReceiveFrom", "ReceiveAll"}
  MaxSends = 3
  SendCap = 2
  RecvCap = 2

INVARIANTS
  TypeOK
  InOrder
PROPERTIES
  OnlyOvertakenLost
