SPECIFICATION FairSpec

CONSTANTS
  N = 4
  D = 1
  F = F
  G = G
  Poly <- MCPoly
  Meets <- OneMeet
  Dealings = {}
  Junk = Junk
  Zero = Zero
  None = None
  Lie = Lie
  DealerHonest = TRUE
  FaultyCom1 = {1}
  FaultyCom2 = {}
  FaultyCom3 = {4}
  FaultyCom4 = {}
  Forged = {"Com1ID"}
  Claims = {0, 1}
  Numbers <- MCNumbers
  Verdicts <- SomeVerdicts
  Silence = TRUE
  Lagging = {3}
  Pauses = {6}

INVARIANTS
  TypeOK
  HonestDealerShares
  ComplaintsDecide

PROPERTIES
  Termination
