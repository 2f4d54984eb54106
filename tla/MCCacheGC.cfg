SPECIFICATION CacheSpec
CONSTANTS
    Dir = {"http", "sub", "ftp"}
    Parent <- ParentOf
    None = "none"
    Http = "http"
    File = {1, 2, 3, 4}
    Place <- PlaceOf
    Attributes <- AttributesOf
    TABLE_SIZE = 20
    MemUsage = 2
    MaxK = 10
    Usage = {8, 14, 20}
    Child = {1, 2, 3}
    Url <- Urls
    Access <- UrlAccess
    HostName <- UrlHost
    LowerCase <- InLowerCase
    Path <- UrlPath
    Slash = {"a/"}
    Search = {"a?"}
    TooLong = {}
    NoCaching = {}
    CacheOnly = Absent
    Absent = Absent
    OldTree <- OldTrees
    Pid = {p1, p2, p3}
    NoPid = NoPid
    cache_max_k = 2
    AfterGc = 1
    MaxArrivals = 2
    MaxDays = 1
CONSTRAINT TwoAndOne
VIEW CacheView
CHECK_DEADLOCK FALSE
INVARIANTS
    Collected
    BooksAgree
    CopiesFound
    SingleGc
PROPERTIES
    NoMoreThanNeeded
    ZombiesReaped
