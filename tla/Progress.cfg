SPECIFICATION MCSpec
CONSTANTS
    Threads = {t1, t2}
    Streams = {s1, s2}
    MaxOpens = 3
    MaxFailures = 1
    Producers = {t1, t2}
    Collectors = {t3}
    Items = {i1, i2}
    ListHead = ListHead
    Lockers = {t1, t2}
    Clients = {k1}
    Conns = {n1, n2}
    Callbacks = {t1}
    Procs = {q1}
    Pids = {d1}
    sys = sys
    Searchers = {t1, t2}
CONSTRAINT Uncrossed
INVARIANTS
    NoticeOnce Settled
PROPERTIES
    EventuallyLeaves CommitNoticed EventuallyIdle SpinsOnEmptySlot
CHECK_DEADLOCK FALSE
