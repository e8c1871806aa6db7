\* Three requests of any kind one at a time, with failures and a crash anywhere.
SPECIFICATION Spec
CONSTANTS
    r1 = r1
    r2 = r2
    r3 = r3
    r4 = r4
    a = a
    b = b
    port = port
    other = other
    plain = plain
    tuned = tuned
    bad = bad
    blank = blank
    Reqs = {r1, r2, r3}
    Names = {a, b}
    IPs = {2, 3}
    Ports = {port}
    Options = {plain, tuned, bad}
    BadOptions = {bad}
    ListenPort = NoPort
    NoPort = NoPort
    AnyIP = AnyIP
    BlankNames = {blank}
    NoOp = NoOp
    InitSettings <- MCSettings
    Kinds = {"create", "delete", "update"}
    Faults = {"sql", "flush", "sync"}
    MaxCrashes = 1
    MaxInFlight = 1
    NoReq = NoReq
    NoFile = NoFile
    Empty = Empty
    NoDraft = NoDraft
    NoIface = NoIface
SYMMETRY Interchangeable
CHECK_DEADLOCK FALSE
INVARIANTS
    KeyKept
    FileHasPeers
    LiveFollowsDb
    ProfilesFollowDb
