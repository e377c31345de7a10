SPECIFICATION MCSpec
CONSTANTS
    Handles = {h1, h2, h3}
    Streams = {main, ads}
    Main = main
    ReFS = FALSE
    Transacted = FALSE
    InstanceGiven = TRUE
    Classes = {"disposition", "onClose"}
    MaxChanges = 3
    MaxFailures = 1
    Volumes = {v1, v2}
    Lettered = {v1, v2}
    Requests = {r1, r2}
    MaxOpens = 2
    MaxOwn = 2
    Procs = {p1, p2, p3}
    Pids = {i1, i2}
    Pid = {i1}
    Unborn = {p3}
    SystemPid = sys
    Threads = {t1, t2}
    NameSources = {"locate", "peb", "handle", "denied", "nohandle"}
    PebOfCurrent = FALSE
    Failures = {"memory", "lookup"}
    MaxDepth = 3
SYMMETRY Symmetry
CONSTRAINT Bound
INVARIANTS
    OncePerStream  InstancesAccounted NamesAccounted
CHECK_DEADLOCK FALSE
