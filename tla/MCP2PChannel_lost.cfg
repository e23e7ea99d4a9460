SPECIFICATION Spec

CONSTANTS
  dealer = dealer
  member = member
  target = target
  Parties <- MCParties
  Links <- ToTarget
  Receivers = {target}
  Calls = {"ReceiveFrom"}
  MaxSends = 2
  SendCap = 2
  RecvCap = 2

INVARIANTS
  NewestRelayedSurvives
