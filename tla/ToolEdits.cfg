SPECIFICATION ToolSpec
CONSTANTS
  o = o
  b = b
  n1 = n1
  n2 = n2
  d1 = d1
  d2 = d2
  c1 = c1
  c2 = c2
  Keep = Keep
  Owner = o
  Betas <- MCBetas
  Calls <- MCCalls
  Defs <- MCOneDef
  Names <- MCTwoNames
  RuleLimit = 2
  MaxId = 2
  MaxRev = 2
INVARIANTS TableSound
PROPERTIES VersionsKept BetasStayWithin CallsEnd
