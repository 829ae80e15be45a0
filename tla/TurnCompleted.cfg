SPECIFICATION Spec
CONSTANTS
  role = role
  undo = undo
  ask = ask
  read = read
  n1 = n1
  n2 = n2
  x1 = x1
  Tools = {role, undo}
  Writes = {role, undo}
  Cached = {role, undo}
  Approval = {}
  Undo = undo
  Unread = {undo}
  Raws = {n1, n2}
  Targets = {x1}
  MaxRounds = 3
  MaxActions = 2
  MaxLoaded = 2
  MaxRetries = 1
  MaxEdits = 0
  MaxGrants = 0
INVARIANTS CompletedTrue
CHECK_DEADLOCK FALSE
