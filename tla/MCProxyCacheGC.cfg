SPECIFICATION GcSpec
CONSTANTS
    Child = {c1, c2}
    Name = {n1}
    NoCaching = {}
    Orig = Orig
    None = None
    OutputTimeout = 1
    LockTimeout = 1
    Config <- GcConfig
    Pragma = {FALSE}
    Lifetime = {2}
    LastAccept = 1
    MaxTime = 2
SYMMETRY ChildSymmetry
CHECK_DEADLOCK FALSE
VIEW GcView
CONSTRAINT OneRefreshes
INVARIANTS
    LocksAndCopies
    GcVerdict
PROPERTY ContractKept
