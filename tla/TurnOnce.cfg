SPECIFICATION FairSpec
CONSTANTS
  role = role
  undo = undo
  ask = ask
  read = read
  n1 = n1
  n2 = n2
  x1 = x1
  Tools = {role, undo, ask, read}
  Writes = {role, undo, ask}
  Cached = {role, undo}
  Approval = {ask}
  Undo = undo
  Unread = {undo}
  Raws = {n1, n2}
  Targets = {x1}
  MaxRounds = 3
  MaxActions = 2
  MaxLoaded = 2
  MaxRetries = 1
  MaxEdits = 1
  MaxGrants = 1
INVARIANTS EffectsSound RepliesTrue
PROPERTIES TurnEnds
CHECK_DEADLOCK FALSE
