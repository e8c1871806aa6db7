\* Two overlapping requests, everything that may fail and a crash; AWG_PORT is set.
SPECIFICATION LiveSpec
CONSTANTS
    r1 = r1
    r2 = r2
    r3 = r3
    r4 = r4
    a = a
    b = b
    port = port
    other = other
    plain = plain
    tuned = tuned
    bad = bad
    blank = blank
    Reqs = {r1, r2}
    Names = {a}
    IPs = {2, 3}
    Ports = {port, other}
    Options = {plain}
    BadOptions = {}
    ListenPort = port
    NoPort = NoPort
    AnyIP = AnyIP
    BlankNames = {}
    NoOp = NoOp
    InitSettings <- MCSettings
    Kinds = {"create", "delete", "update"}
    Faults = {"sql", "flush", "profile", "sync"}
    MaxCrashes = 1
    MaxInFlight = 2
    NoReq = NoReq
    NoFile = NoFile
    Empty = Empty
    NoDraft = NoDraft
    NoIface = NoIface
CHECK_DEADLOCK FALSE
INVARIANTS
    FileFollowsDb
PROPERTIES
    EveryRequestAnswered
