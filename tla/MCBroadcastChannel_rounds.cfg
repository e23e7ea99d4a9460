SPECIFICATION FairSpec

CONSTANTS
  Parties <- TwoParties
  NoRound = NoRound
  Calls = {"SendMessageChannels", "WaitMessageChannel"}
  MaxSends = 2
  MaxRounds = 3

\* The run stops after MaxRounds rounds.
CHECK_DEADLOCK FALSE

INVARIANTS
  TypeOK
  PromptMessages

PROPERTIES
  OneSequence
  RoundEnds
