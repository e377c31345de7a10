SPECIFICATION MCSpec
CONSTANTS
    Threads = {t1, t2, t3}
    Jobs = {"read", "write", "sizes", "section", "lazy", "ahead", "mapped", "flush", "ccflush"}
    FlagsAtomic = TRUE
    MaxAhead = 2
    MaxJobs = 4
    Opens = {o1, o2, o3}
    None = None
    Answers = {"fails", "deny", "plain", "isolate"}
    Faults = {"memory", "ccb", "sfo", "oplock", "refuse", "mapped"}
    N = 4
    Page = 2
    Header = 0
    MaxOps = 3
    MaxFails = 1
    Ops = {"cachedWrite", "cachedRead", "directWrite", "directRead", "setEof", "setAlloc", "setVdl"}
SYMMETRY Symmetry
INVARIANTS
    LocksKept FlagsTruthful  
