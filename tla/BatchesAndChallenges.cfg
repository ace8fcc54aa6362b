\* Three presentations in batches of at most three, one challenge, two holders.
SPECIFICATION FairSpec
CONSTANTS
    VPs = {v1, v2, v3}
    Challenges = {c1}
    Holders = {h1, h2}
    None = None
    Ttl = 1
    MaxBatchSize = 3
    MaxTime = 2
INVARIANTS AcceptedOnce QueuedIsKept MappingIsTree ProofsVerify
PROPERTIES BatchedUnlessBlocked
