SPECIFICATION Spec

CONSTANTS
  N = 4
  D = 1
  F = F
  G = G
  Poly <- MCPoly
  Meets <- NoMeets
  Dealings = {}
  Junk = Junk
  Zero = Zero
  None = None
  Lie = Lie
  DealerHonest = TRUE
  FaultyCom1 = {}
  FaultyCom2 = {2}
  FaultyCom3 = {3}
  FaultyCom4 = {4}
  Forged = {"Com1ID", "Com3Seq"}
  Claims = {}
  Numbers <- MCNumbers
  Verdicts <- SomeVerdicts
  Silence = FALSE
  Lagging = {}
  Pauses <- MCPauses

INVARIANTS
  TestAssertion
