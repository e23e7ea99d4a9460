SPECIFICATION Spec

CONSTANTS
  P = 5
  Word = 32
  N = 4
  D = 1
  DealerPolys <- MCDealerPolys
  LieValues = {0, 1, 3}

INVARIANTS
  SecretKept
  Refreshed
  Extracted
