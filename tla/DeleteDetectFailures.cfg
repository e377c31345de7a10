SPECIFICATION Spec
CONSTANTS
  Threads = {t1, t2}
  Handles = {h1, h2}
  Streams = {s1, s2}
  Contexts = {c1, c2, c3}
  NoHandle = NoHandle
  NoStream = NoStream
  NoContext = NoContext
  Classes = {"disposition", "rename"}
  DocOptions = {TRUE, FALSE}
  MaxFailures = 1
SYMMETRY Symmetry
ACTION_CONSTRAINT ActionsBound
INVARIANT Inv
PROPERTY PromiseKept
