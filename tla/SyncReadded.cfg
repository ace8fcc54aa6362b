\* An issuer removed and added again before a pass.
SPECIFICATION Spec
CONSTANTS
    Credentials = {}
    Accounts = {a1}
    Named = {}
    Passes = {p1}
    Listening = FALSE
    StartBlocks = {}
    MaxBlock = 3
    MaxPerBlock = 1
    Restarts = 0
    Failures = 0
    Forced = 0
INVARIANTS AdditionsAreShown
