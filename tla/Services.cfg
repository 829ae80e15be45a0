SPECIFICATION ServicesSpec
CONSTANTS
  o = o
  b = b
  n = n
  d1 = d1
  d2 = d2
  d3 = d3
  d4 = d4
  m1 = m1
  j1 = j1
  r1 = r1
  r2 = r2
  r3 = r3
  t1 = t1
  t2 = t2
  Owner = o
  Betas <- MCNone
  Defs <- MCEveryKind
  RuleLimit = 1
  MaxId = 1
  MaxRev = 1
  Tasks <- MCTwoTasks
  Keys <- MCEachKind
  Cooldown <- MCCooldown
  Slots = 2
  MaxStep = 2
  MaxNow = 0
  Rollbacks = FALSE
  Names <- MCNames
  Kind <- MCKind
  Steps <- MCSteps
  k1 = k1  k2 = k2  p1 = p1  l1 = l1  l2 = l2  l3 = l3  f1 = f1
  Checkers = {k1, k2}
  Readers = {p1}
  Links = {l1, l2, l3}
  Doubtful = {l1}
  Files = {f1}
  LeastLife = 2
  Lives = {1, 3}
  KnownFor = 2
  JudgedFor = 2
  Patience = 2
  EntryLimit = 2
  MaxMoment = 4
  q1 = q1  c1 = c1  s1 = s1  h1 = h1
  RouteCount = 3
  Gemini = {1, 2}
  Native = {1}
  Place <- MCPlace
  Chats = {q1, c1}
  Turns = {q1}
  Visual = {q1}
  Searches = {s1}
  Listenings = {h1}
  SlotLimit = 2
  Second = 2
  Quota = {2, 6}
  Brief = 6
  LimitPause = 8
  FaultPause = 3
  HintLimit = 6
  Long = 20
  NativeDelays = {0, 20}
  MaxClock = 2
  MaxAsks = 2
  w1 = w1  w2 = w2  v1 = v1  g1 = g1  g2 = g2  g3 = g3
  x1 = x1  x2 = x2  x3 = x3  y1 = y1  z1 = z1
  Researchers = {w1, w2}
  Visitors = {v1}
  Questions = {g1, g2, g3}
  Wanted <- MCWanted
  Addresses = {x1, x2, x3, y1, z1}
  HostOf <- MCHost
  OrdinaryAddresses = {x1, x2, x3, y1, z1}
  PublicAddresses = {x1, x2, x3, y1}
  NativeOffers <- MCNativeOffers
  BraveLists <- MCBraveLists
  WikipediaLists <- MCWikipediaLists
  RedirectLimit = 2
  AnswerLife = 2
  AnswerLimit = 2
  LastTime = 3
  ResearchCap = 3
INVARIANTS RunInv OutcomesTrue MarksTrue RoutesSound FetchesAsked WebAnswersSound
PROPERTIES LedgerSpec SearchSparesChat
SYMMETRY MCTaskSymmetry
CHECK_DEADLOCK FALSE
