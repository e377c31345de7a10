SPECIFICATION FairSpec
CONSTANTS
  Threads = {t1, t2}
  Handles = {h1, h2}
  Streams = {s1}
  Contexts = {c1, c2}
  NoHandle = NoHandle
  NoStream = NoStream
  NoContext = NoContext
  Classes = {"disposition"}
  DocOptions = {TRUE, FALSE}
  MaxFailures = 0
PROPERTY EventuallyReported
