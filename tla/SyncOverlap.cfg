\* Two passes and the listeners at once, one failed request.
SPECIFICATION Spec
CONSTANTS
    Credentials = {c1}
    Accounts = {a1}
    Named = {}
    Passes = {p1, p2}
    Listening = TRUE
    StartBlocks = {}
    MaxBlock = 3
    MaxPerBlock = 1
    Restarts = 0
    Failures = 1
    Forced = 0
SYMMETRY Symmetry
INVARIANTS SyncedIsIndexed SyncingIsTemporary
