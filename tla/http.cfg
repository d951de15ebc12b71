\* A socket for IPv4 and one for IPv6, requests of every kind, failures on every path.
SPECIFICATION FairSpec
CONSTANTS
    c1 = c1
    c2 = c2
    t1 = t1
    t2 = t2
    b1 = b1
    b2 = b2
    b3 = b3
    ip4 = ip4
    ip6 = ip6
    None = None
    Sockets <- MCSockets
    Conns <- MCConns
    Threads <- MCThreads
    Blocks <- MCBlocks
    Requests <- MCRequests
    InCount = 1
    OutCount = 2
    AskPassword = TRUE
    FileOutput = TRUE
CHECK_DEADLOCK FALSE
INVARIANTS
    OneChildPerClient
PROPERTIES
    OneAnswer
    
