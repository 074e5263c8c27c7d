SPECIFICATION FairSpec
CONSTANTS
    NumIps = 3
    BaseIp = 3
    IpSpace = 8
    Callers = {c1, c2, c3, c4}
    NoIp = NoIp
INVARIANT TypeOK
INVARIANT Exclusive
INVARIANT BitsMatchHolders
PROPERTY ImplementsIpAmSpec
PROPERTY LockFree
