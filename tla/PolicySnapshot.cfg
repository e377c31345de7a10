SPECIFICATION Spec
CONSTANTS
  Threads = {t1, t2}
  Snapshots = {s0, s1, s2}
  First = s0
  None = None
  Policies = {p1, p2}
  Requests = {"match", "count", "add", "remove", "clear"}
  MaxLost = 1
  MaxFailures = 1
SYMMETRY Symmetry
CHECK_DEADLOCK FALSE
INVARIANT CurrentLive
INVARIANT UpdatesKept
INVARIANT CountedIsSafe
INVARIANT LeaksUnheld
PROPERTY ReadersUndisturbed
