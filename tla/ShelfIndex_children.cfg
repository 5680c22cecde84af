SPECIFICATION Spec
CONSTANTS
  p1 = p1
  p2 = p2
  w1 = w1
  w2 = w2
  f1 = f1
  f2 = f2
  old = old
  new = new
  None = None
  Procs = {p1, p2}
  Workers = {w1, w2}
  ProcOf <- OnePerChild
  Warmers = {w1}
  Files = {f1}
  MaxVersion = 2
  Producer <- Reloaded
  Faults = {"store", "readdir", "probe", "corrupt", "stop", "crash"}
INVARIANTS IdentitiesTrue OwnRevision EntriesMatchScan
