SPECIFICATION FairSpec
CONSTANTS
    Child = {c1, c2}
    Name = {n1}
    NoCaching = {}
    Orig = Orig
    None = None
    OutputTimeout = 1
    LockTimeout = 1
    Config <- AnyConfig
    Pragma = {TRUE, FALSE}
    Lifetime = {2}
    LastAccept = 2
    MaxTime = 3
CONSTRAINT PlainTogether
CHECK_DEADLOCK FALSE
INVARIANTS
    LockExclusive
    StaleVerdict
    CachedCopiesComplete
PROPERTY RequestsEnd
