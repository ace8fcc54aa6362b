\* A presentation without a challenge, presented again after its batch.
SPECIFICATION FairSpec
CONSTANTS
    VPs = {v1, v2}
    Challenges = {}
    Holders = {h1}
    None = None
    Ttl = 1
    MaxBatchSize = 3
    MaxTime = 1
PROPERTIES EveryVPIsBatched
