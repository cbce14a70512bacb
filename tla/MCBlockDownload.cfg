\* Two peers, every order of announcements, requests, answers and departures.
SPECIFICATION FairSpecDownload
CONSTANTS
    g = g
    a1 = a1
    a2 = a2
    p1 = p1
    p2 = p2
    Block <- MCBlock
    Genesis = g
    Prev <- MCPrev
    Height <- MCHeight
    MaxOrphans = 2
    Peer <- MCPeer
    MaxInFlight = 1
    Timeout = 1
    Inactivity = 2
    Own = {a2}
INVARIANTS
    TypeOKDownload
    QueuesAgree
PROPERTIES
    HeldIsNotWanted
    QueuedIsServed
    InFlightIsReleased
