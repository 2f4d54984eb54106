SPECIFICATION Spec
CONSTANTS
    Address <- Addresses
    Route <- Routes
    HTMaxRedirections = 2
    MaxRetries = 1
    Host <- Hosts
    Homes <- Addrs
    HTConCacheSize = 2
    Times = {0, 60}
    MaxConnects = 3
INVARIANTS
    ClientAnswered
    SocketsClosed
    FTPInStep
    HostCacheBounded
PROPERTIES
    LoadEnds
    ConnectKept
