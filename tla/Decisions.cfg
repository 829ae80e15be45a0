SPECIFICATION DecisionsSpec
CONSTANTS
  m1 = m1  m2 = m2  m3 = m3  u1 = u1  u2 = u2  t1 = t1  t2 = t2
  f1 = f1  f2 = f2  q1 = q1  q2 = q2  q3 = q3  k1 = k1  k2 = k2  r1 = r1  r2 = r2
  Msgs = {m1, m2, m3}
  Users = {u1, u2}
  Author <- MCAuthor
  Texts = {t1, t2}
  Text <- MCText
  Workers = {"a"}
  Interval = 1
  Ttl = 1
  Hour = 1
  Day = 2
  HourLimit = 1
  DayLimit = 1
  MaxPending = 1
  MaxNow = 4
  MaxReplies = 1
  FormMessages = {f1, f2}
  ClaimMemory = 1
  Complaints = {f1, f2}
  Authors = {u1}
  AuthorOf <- OneAuthor
  Decidable = {f1}
  Applications = {f1, f2}
  SquadRoles = {r1, r2}
  Reviewers = {k1, k2}
  Requests = {q1, q2, q3}
  Requesters = {u1, u2}
  Owner = u2
  RequesterOf <- OneRequester
  Presses = {k1, k2}
  RequestCooldown = 1
  ViewLifetime = 1
  MaxTime = 2
  Pressed = {q1}
  Members = {u1}
  PunishForms = {f1, f2}
INVARIANTS LimitsKept ComplaintSound ApplicationDecided ApprovalHonoured RecordTrue
PROPERTIES ReplacedNotDropped
CHECK_DEADLOCK FALSE
