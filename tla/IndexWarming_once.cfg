SPECIFICATION LiveSpec
CONSTANTS
  c1 = c1
  c2 = c2
  c3 = c3
  top = top
  sub = sub
  leaf = leaf
  link = link
  other = other
  None = None
  Children = {c1, c2, c3}
  MaxGeneration = 2
  Roots <- OneRoot
  Dirs = {top}
  Sub <- Flat
  Plain = {}
  Enabled = {top}
  MaxVisited = 3
  MaxDepth = 1
  Faults = {}
PROPERTY CompletedOnce
CHECK_DEADLOCK FALSE
