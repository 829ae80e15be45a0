SPECIFICATION UpkeepSpec
CONSTANTS
  g1 = g1
  g2 = g2
  a1 = a1
  a2 = a2
  u1 = u1
  u2 = u2
  v1 = v1
  v2 = v2
  Groups = {g1, g2}
  Attrs = {a1}
  Values = {v1, v2}
  Undos = {u1, u2}
  MaxRows = 2
  PartCount = 1
  KeepLast = 1
  MaxAttempts = 2
  MaxFacts = 1
  MaxPosts = 3
  MaxStops = 1
  MaxFaults = 1
  w1 = w1  w2 = w2  x1 = x1  x2 = x2  x3 = x3  e1 = e1  e2 = e2  c1 = c1  c2 = c2
  Writers = {w1, w2}
  Messages = {x1, x2, x3}
  Users = {e1, e2}
  AuthorOf <- MCAuthor
  ChannelOf <- MCChannel
  PerChannel = 1
  PerGuild = 2
  PerUser = 2
  MaxSlots = 1
  EvictCount = 1
  MaxEvents = 3
  MaxWriteFaults = 1
  MaxMemCrashes = 1
  k1 = k1  k2 = k2  s1 = s1  G1 = G1  ad = ad  gl = gl
  Callers = {k1, k2}
  Global = gl
  Servers = {s1}
  SettingKeys = {"a", "b"}
  SettingValues = {"on", "off"}
  Default <- MCDefault
  AccessGroups = {G1}
  Admins = {ad}
  MaxRequests = 3
  MaxInterrupts = 1
  y1 = y1  y2 = y2  y3 = y3  y4 = y4  f1 = f1  f2 = f2  t1 = t1  z1 = z1  z2 = z2
  Posts = {y1, y2, y3, y4}
  RememberedPosts = {y1, y3, y4}
  HiddenPosts = {y3}
  Folk = {f1, f2}
  Newcomers = {f2}
  Titles = {t1}
  Addressed <- MCAddressed
  MentionLimit = 2
  SearchLimit = 1
  EventCap = 1
  TitleCap = 1
  FaultCap = 1
  LogKeys <- MCLogKeys
  Setups = {z1, z2}
  HandMade = {"messages"}
  ReportCap = 2
  RemovalCap = 1
  RefusalCap = 1
INVARIANTS UndoSound BackupsTrue MemorySound SettingsSound EventLogTrue ChannelsSound
PROPERTIES ResolvedStays CopyRemains
SYMMETRY MCSymmetry
CHECK_DEADLOCK FALSE
