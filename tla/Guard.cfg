SPECIFICATION GuardSpec
CONSTANTS
  o = o
  b = b
  n = n
  d1 = d1
  d2 = d2
  d3 = d3
  d4 = d4
  m1 = m1
  j1 = j1
  r1 = r1
  r2 = r2
  r3 = r3
  t1 = t1
  t2 = t2
  Owner = o
  Betas <- MCOneBeta
  Defs <- MCMessageDefs
  RuleLimit = 1
  MaxId = 1
  MaxRev = 3
  Tasks <- MCOneTask
  Keys <- MCOneMessage
  Cooldown <- MCCooldown
  Slots = 1
  MaxStep = 2
  MaxNow = 0
  Rollbacks = TRUE
  Names <- MCNames
  Kind <- MCKind
  Steps <- MCSteps
  g1 = g1  g2 = g2  g3 = g3  a = a  x = x  s1 = s1  c1 = c1  c2 = c2  w1 = w1
  j2 = j2  j3 = j3  h1 = h1  l1 = l1  e1 = e1  z0 = z0  z1 = z1  z2 = z2
  GateKeys = {g1, g2, g3}
  GateWaiters = {w1}
  WaitsFor <- MCWaits
  GateLimit = 1
  ChecksAge = FALSE
  MayAge = {g1}
  Author <- MCAuthor
  Server <- MCServer
  Room <- MCRoom
  Body <- MCBody
  Staff = {o}
  Protected = {}
  FormRooms = {}
  LogRooms = {}
  Natures <- MCNatures
  Raids <- MCRaids
  FilterSets <- MCFilterSets
  SpamWindow = 1
  SpamCount = 2
  FloodWindow = 1
  FloodCount = 2
  CrossWindow = 1
  CrossCount = 2
  Edited = {g1}
  MaxClock = 2
  Joins = {j1, j2, j3}
  Signals <- MCSignals
  RaidAction = "kick"
  JoinWindow = 1
  Threshold = 2
  RaidCooldown = 2
  Granularity = 2
  JoinLimit = 1
  Watched = {j1}
  MaxDay = 4
  MaxSwitches = 1
  Perms = {"ban", "view_channel"}
  Powers = {"ban"}
  Roles = {e1}
  Channels = {c1}
  Hooks = {h1}
  Rules = {l1}
  NoPlace = z0
  Worlds <- MCWorlds
  AlertRoom = 2
  AlertLimit = 3
  MaxTroubles = 1
INVARIANTS ChainStops JudgedForCause UsedOnlyIfClear JoinsSound QuietMeansCurrent
PROPERTIES NothingAcceptedSilently
CHECK_DEADLOCK FALSE
