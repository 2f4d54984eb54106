SPECIFICATION DaemonSpec
CONSTANTS
    Pid = {p1, p2, p3}
    NoPid = NoPid
    cache_max_k = 2
    AfterGc = 1
    MaxArrivals = 2
    MaxDays = 1
CHECK_DEADLOCK FALSE
INVARIANT DeafOnlyDuringGc
