\* Two first requests, with two names; no fault is needed.
SPECIFICATION AuthSpec
CONSTANTS
    root = root
    admin = admin
    strong = strong
    short = short
    Users = {root, admin}
    Passwords = {strong, short}
    NoPassword = NoPassword
    Callers = {1, 2}
    Nobody = Nobody
    TooShort <- MCTooShort
    MaxTokens = 2
INVARIANT OneAdmin
CHECK_DEADLOCK FALSE
