\* Two issuers in three blocks; two credentials issued and revoked; one call of
\* start and one of refresh or resync at a time, over and over;
\* three writers of a file within three milliseconds.
SPECIFICATION Spec
CONSTANTS
    Issuers = {i1, i2}
    Passes = {boot, refresh}
    Starter = boot
    MaxBlocks = 3
    Signers = {i1}
    Nobody = Nobody
    Creds = {c1, c2}
    Syncs = {boot, resync}
    Boot = boot
    MaxHead = 3
    Writers = {w1, w2, w3}
    MaxMs = 2
    NoFile = NoFile
SYMMETRY Symmetry
INVARIANTS PassesAreComplete RecordsAreOnChain ValidIsTrusted IndexIsComplete
    TornOnlyIfShared
CHECK_DEADLOCK FALSE
