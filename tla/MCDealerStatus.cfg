SPECIFICATION StatusSpec

CONSTANTS
  P = 5
  Word = 32
  N = 4
  D = 1
  Size = 4
  Threshold = 3
  FaultyCom2 = {4}
  LieValues = {0, 1, 3}
  Dealings <- MCDealings
  Masks <- MCMasks
  LieShapes <- MCLieShapes
  Hearings <- MCHearings

INVARIANTS
  NobodyLeftOut
  ClearSupportFound
  EdgesAgree
  HappyAgree
  HonestSupported
  FewScalarsHide
  HappyColumnsFit
  HonestDealerAccepted
