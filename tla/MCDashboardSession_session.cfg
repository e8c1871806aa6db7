\* One tab, a stored token or none, one mishap, one change, two tokens.
SPECIFICATION LiveSpec
CONSTANTS
    root = root
    old = old
    Users = {root}
    Passwords = {old}
    NoPassword = NoPassword
    Nobody = Nobody
    Elsewhere = 0
    Callers <- MCCallers
    TooShort = {}
    MaxTokens = 2
    Endpoints = {"clients"}
    MaxCalls = 2
    MaxChecks = 1
    MaxVersion = 1
    MaxMishaps = 1
INVARIANTS
    SessionTypeOK
    TokensHaveOwners
PROPERTIES
    EndsByExpiry
    ExpiredEnds
    PollsStop
    Converges
    SpinnerEnds
