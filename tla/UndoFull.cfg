SPECIFICATION Spec
CONSTANTS
  g1 = g1
  g2 = g2
  a1 = a1
  a2 = a2
  u1 = u1
  u2 = u2
  v1 = v1
  v2 = v2
  Groups = {g1}
  Attrs = {a1}
  Values = {v1, v2}
  Undos = {u1}
  MaxRows = 2
INVARIANTS FullMeansFull
