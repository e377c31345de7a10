SPECIFICATION Spec
CONSTANTS
  Threads = {t1, t2, t3}
  Snapshots = {s0, s1, s2}
  First = s0
  None = None
  Policies = {p1}
  Requests = {"match", "add"}
  MaxLost = 1
  MaxFailures = 0
SYMMETRY Symmetry
CHECK_DEADLOCK FALSE
INVARIANT HandleCounts
