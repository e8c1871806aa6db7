\* A CreateClient and an UpdateServerConfig overlap, nothing fails.
SPECIFICATION Spec
CONSTANTS
    r1 = r1
    r2 = r2
    r3 = r3
    r4 = r4
    a = a
    b = b
    port = port
    other = other
    plain = plain
    tuned = tuned
    bad = bad
    blank = blank
    Reqs = {r1, r2}
    Names = {a, b}
    IPs = {2, 3}
    Ports = {port}
    Options = {plain, tuned}
    BadOptions = {}
    ListenPort = NoPort
    NoPort = NoPort
    AnyIP = AnyIP
    BlankNames = {}
    NoOp = NoOp
    InitSettings <- MCSettings
    Kinds = {"create", "update"}
    Faults = {}
    MaxCrashes = 0
    MaxInFlight = 2
    NoReq = NoReq
    NoFile = NoFile
    Empty = Empty
    NoDraft = NoDraft
    NoIface = NoIface
SYMMETRY Interchangeable
CHECK_DEADLOCK FALSE
INVARIANT
    FileHasPeers
