\* One credential, two handlers in flight.
SPECIFICATION Spec
CONSTANTS
    Ids = {i1}
    Issuers = {s1, s2}
    Holders = {h1, h2}
    Reqs = {r1, r2}
    None = None
    StoreYields = TRUE
    OtpExpiry = 1
    MaxTime = 2
    MaxOtp = 3
SYMMETRY Symmetry
INVARIANTS IssuedIsStored ProofsAreAttested RecordedIsIssued ClaimedByMail
