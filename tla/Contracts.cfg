\* Two credentials, two accounts, batches of three and three block times; or
\* three addresses, the registry's arithmetic modulo 8, six events; or two services,
\* two starts of the chain and three diamonds on each.
SPECIFICATION MCSpec
CONSTANTS
    Hashes = {c1, c2}
    Accounts = {a1, a2}
    Nobody = Nobody
    MaxTime = 3
    MaxLog = 5
    MaxBatch = 3
    Addresses = {s1, s2, s3}
    NoAddress = NoAddress
    MaxUint = 7
    MaxEvents = 6
    Services = {issuer, verifier}
    NoDiamond = NoDiamond
    Torn = Torn
    Off = Off
    MaxBoots = 2
    DiamondAddresses = {d1, d2, d3}
SYMMETRY Symmetry
CHECK_DEADLOCK FALSE
INVARIANTS LogTellsStatus BatchIsTheLoop ListIsMapping LogTellsTrust PagesAreTheList
    PublishedIsComplete
PROPERTIES RevokedIsFrozen FollowsLifecycle
