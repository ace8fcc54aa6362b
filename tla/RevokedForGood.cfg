\* A mint waiting for the registry while the credential is revoked.
SPECIFICATION Spec
CONSTANTS
    Ids = {i1}
    Issuers = {s1}
    Holders = {h1}
    Reqs = {r1, r2}
    None = None
    StoreYields = FALSE
    OtpExpiry = 2
    MaxTime = 2
    MaxOtp = 3
SYMMETRY Symmetry
PROPERTY RevokedForGood
