SPECIFICATION RuntimeSpec
CONSTANTS
  o = o
  b = b
  n = n
  d1 = d1
  d2 = d2
  d3 = d3
  d4 = d4
  m1 = m1
  j1 = j1
  r1 = r1
  r2 = r2
  r3 = r3
  t1 = t1
  t2 = t2
  Owner = o
  Betas <- MCNone
  Defs <- MCPaces
  RuleLimit = 1
  MaxId = 1
  MaxRev = 2
  Tasks <- MCTwoTasks
  Keys <- MCLeavesAndMessage
  Cooldown <- MCCooldown
  Slots = 1
  MaxStep = 1
  MaxNow = 2
  Rollbacks = FALSE
  Names <- MCNames
  Kind <- MCKind
  Steps <- MCSteps
INVARIANTS CooldownSpacing
PROPERTIES TaskEnds
