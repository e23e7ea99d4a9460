SPECIFICATION Spec

CONSTANTS
  N = 4
  D = 1
  F = F
  G = G
  Poly <- MCPoly
  Meets <- NoMeets
  Dealings = {}
  Junk = Junk
  Zero = Zero
  None = None
  Lie = Lie
  DealerHonest = TRUE
  FaultyCom1 = {}
  FaultyCom2 = {}
  FaultyCom3 = {}
  FaultyCom4 = {}
  Forged = {}
  Claims = {}
  Numbers <- MCNumbers
  Verdicts <- SomeVerdicts
  Silence = FALSE
  Lagging = {3}
  Pauses <- MCPauses

INVARIANTS
  TestAssertion
