SPECIFICATION Spec
CONSTANTS
    Child = {c1, c2}
    Name = {n1}
    NoCaching = {}
    Orig = Orig
    None = None
    OutputTimeout = 1
    LockTimeout = 1
    Config <- UsualConfig
    Pragma = {TRUE, FALSE}
    Lifetime = {2}
    LastAccept = 1
    MaxTime = 2
CHECK_DEADLOCK FALSE
SYMMETRY ChildSymmetry
INVARIANT BackupKept
