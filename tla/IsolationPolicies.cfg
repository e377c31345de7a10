SPECIFICATION MCSpec
CONSTANTS
    Procs = {g1, g2}
    Pids = {7, 8}
    Masks = {m1}
    MaxRunning = 1
    MaxEntries = 1
    Threads = {t1, t2, t3}
    Snaps = {s0, s1, s2}
    First = s0
    None = None
    Calls = {"match", "change", "reset"}
    Clients = {k1, k2}
    Conns = {c1, c2, c3}
    Callbacks = {b1}
    MaxConn = 2
    SeedLimit = 2
    Changers = {w1, w2}
    one = one
    NoId = NoId
    NoPid = NoPid
    app = app
    f1 = f1
    f2 = f2
    Ids = {one, NoId}
    System = sys
    Users = {app}
    Files = {f1, f2}
    Wildcards = {{f1}, {f1, f2}}
    Selectors <- Select
    Events = {"CREATE", "DIRECTORY_CONTROL", "SET_INFORMATION"}
    Wanted = {"CREATE"}
    AllocFails = FALSE
    MaxChanges = 3
SYMMETRY Symmetry
INVARIANTS
     PolicyAsAsked SnapshotsCounted PortsExact
PROPERTIES
    OnlyControllerChanges LeaksOnlyUnheld
CHECK_DEADLOCK FALSE
