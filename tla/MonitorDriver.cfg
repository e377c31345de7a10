SPECIFICATION MCSpec
CONSTANTS
    Producers = {p1, p2}
    Collectors = {c1, c2}
    Items = {i1, i2}
    ListHead = ListHead
    MaxNotifyItemCount = 2
    Linkings = {{"allocate", "caller"}, {"caller"}}
    MaxFailures = 1
    MaxBelow = 1
    PacketSize = 1
    Sizes = {2, 3}
    Buffers = {2, 5}
    Programs = {g1}
    Pids = {7}
    Masks = {m1}
    Modulus = 4
    Ticks = 10
    MaxPolicies = 2
    MaxEvents = 1
    Threads = {u1, u2}
    Clients = {k1, k2, k3}
    Failures = TRUE
    Calls = {"WildcardMatch"}
    Texts <- WildTexts
    Patterns <- WildMasks
    Limit = 12
INVARIANTS
    QueueSound LoadedAndUnloaded CallsAnswer InBounds ResultIsMatch
PROPERTIES
    AnswersHonest Advances
CHECK_DEADLOCK FALSE
