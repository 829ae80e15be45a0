SPECIFICATION Spec
CONSTANTS
  o = o
  b = b
  n1 = n1
  n2 = n2
  d1 = d1
  d2 = d2
  c1 = c1
  c2 = c2
  Keep = Keep
  Owner = o
  Betas <- MCNone
  Calls <- MCCalls
  Defs <- MCOneDef
  Names <- MCOneName
  RuleLimit = 1
  MaxId = 1
  MaxRev = 4
PROPERTIES PauseHolds
SYMMETRY MCSymmetry
