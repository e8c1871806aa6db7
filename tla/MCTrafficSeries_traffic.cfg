\* Both charts: two overlapping polls beside the collector.
SPECIFICATION Spec
CONSTANTS
    p = p
    q = q
    poll1 = poll1
    poll2 = poll2
    Peers <- MCPeers
    Polls <- MCPolls
    HistorySize = 2
    MaxPoints = 2
    MetricsInterval = 2
    Windows = {0}
    MaxTime = 2
    MaxMoved = 1
    MaxChanges = 1
SYMMETRY Symmetry
INVARIANTS TrafficTypeOK GhostsBounded PeersExact
CHECK_DEADLOCK FALSE
