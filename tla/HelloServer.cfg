\* Four clients, two of which may be killed, on two threads and a short backlog.
CONSTANTS
    c1 = c1
    c2 = c2
    c3 = c3
    c4 = c4
    Clients = {c1, c2, c3, c4}
    Killable = {c1, c2}
    NumberOfThreads = 2
    Backlog = 2
    NoClient = NoClient
SPECIFICATION FairSpec
CHECK_DEADLOCK FALSE
INVARIANT TypeOK
INVARIANT ConnectionsAreOwn
INVARIANT DescriptorsBounded
INVARIANT ClientsDoNotStopServer
PROPERTY EverybodyGetsThrough
