\* One pass at a time, restarted and forced.
SPECIFICATION FairSpec
CONSTANTS
    Credentials = {c1}
    Accounts = {a1}
    Named = {a1}
    Passes = {p1}
    Listening = FALSE
    StartBlocks = {0}
    MaxBlock = 3
    MaxPerBlock = 2
    Restarts = 1
    Failures = 0
    Forced = 1
INVARIANTS WithdrawalsAreShown
PROPERTIES RevocationsArrive
