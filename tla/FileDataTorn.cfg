SPECIFICATION DataSpec
CONSTANTS
    N = 4
    Page = 2
    Header = 0
    Ops = {"cachedWrite"}
    MaxOps = 2
    MaxFails = 0
INVARIANT NoTornSizes
