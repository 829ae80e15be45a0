SPECIFICATION FairSpec
CONSTANTS
  m1 = m1
  m2 = m2
  m3 = m3
  u1 = u1
  u2 = u2
  t1 = t1
  t2 = t2
  Msgs = {m1, m2}
  Users = {u1}
  Author <- OneAuthor
  Texts = {t1, t2}
  Text <- MCTexts
  Workers = {"a", "b"}
  Interval = 1
  Ttl = 1
  Hour = 2
  Day = 3
  HourLimit = 2
  DayLimit = 2
  MaxPending = 2
  MaxNow = 3
  MaxReplies = 2
INVARIANTS PostedOnce AnswersTrue
PROPERTIES RepliesHandled
CHECK_DEADLOCK FALSE
