SPECIFICATION Spec

CONSTANTS
  dealer = dealer
  member = member
  target = target
  Parties <- MCParties
  Links <- ToTarget
  Receivers = {target}
  Calls = {"ReceiveFrom", "ReceiveAll", "Deliver"}
  MaxSends = 1
  SendCap = 2
  RecvCap = 2

INVARIANTS
  NewestRelayedSurvives
