SPECIFICATION Spec
CONSTANTS
    p1 = p1
    p2 = p2
    p3 = p3
    NoPeer = NoPeer
    Peers = {p1, p2, p3}
    Capacity = 2
    IdleTimeout = 1
    PollFrames = 1
    SeqMod = 8
    RequestLength = 2
    ResponseLength = 2
    ServerSequence <- MCServerSequence
    ClientSequence <- MCClientSequence
    Requests <- MCRequests
    Persistent = {}
    MaxFaults = 1
CHECK_DEADLOCK FALSE
INVARIANTS OneEntryPerPeer ResponseIsAsked CleanRunsServed
PROPERTIES PeersIsolated
