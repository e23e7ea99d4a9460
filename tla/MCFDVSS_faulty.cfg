SPECIFICATION Spec

CONSTANTS
  N = 4
  D = 1
  F = F
  G = G
  Poly <- MCPoly
  Meets <- SomeMeets
  Dealings <- SomeDealings
  Junk = Junk
  Zero = Zero
  None = None
  Lie = Lie
  DealerHonest = FALSE
  FaultyCom1 = {2}
  FaultyCom2 = {3}
  FaultyCom3 = {}
  FaultyCom4 = {}
  Forged = {"Com1ID", "Vectors"}
  Claims = {0, 1, 2}
  Numbers <- MCNumbers
  Verdicts <- SomeVerdicts
  Silence = FALSE
  Lagging = {0}
  Pauses = {2}

INVARIANTS
  Commitment

PROPERTIES
  Verifiable
