SPECIFICATION MCSpec
CONSTANTS
  c1 = c1
  c2 = c2
  c3 = c3
  top = top
  sub = sub
  leaf = leaf
  link = link
  other = other
  f1 = f1
  f2 = f2
  None = None
  Children = {c1, c2}
  MaxGeneration = 2
  Roots <- Nested
  Dirs = {top, sub, leaf, link}
  Sub <- Deep
  Plain = {link}
  Enabled = {top, leaf}
  MaxVisited = 3
  MaxDepth = 1
  Faults = {"crash", "stop", "store", "throw", "vanish", "list"}
SYMMETRY MCSymmetry
INVARIANT OneWalker
PROPERTIES MarkersAreEarned SavesOverItsOwnLoad WholeScansSaved
