SPECIFICATION FairSpec

CONSTANTS
  dealer = dealer
  member = member
  target = target
  Parties <- MCParties
  Links <- ToTarget
  Receivers = {target}
  Calls = {"ReceiveAll"}
  MaxSends = 3
  SendCap = 2
  RecvCap = 2

INVARIANTS
  NewestRelayedSurvives
PROPERTIES
  Delivered
