\* Two accounts, one of them the admin; two nonces, two tokens, one code; three seconds;
\* two codes refused, two showings of the page; two credentials, two pages of the snap;
\* two holders with a credential each, three calls of the wallet page; four calls of the database.
SPECIFICATION Spec
CONSTANTS
    MaxTime = 3
    Accounts = {a1, admin}
    Admin = admin
    Nonces = {n1, n2}
    NonceExpiry = 1
    Grace = 1
    JwtExpiry = 2
    MaxLogins = 2
    NoNonce = NoNonce
    Tokens = {t1, t2}
    ExpirySeconds = 2
    Skew = 1
    NoToken = NoToken
    Identifiers = {i1}
    MaxAttempts = 2
    WindowSeconds = 2
    BlockDuration = 3
    OtpExpiry = 2
    MaxTries = 4
    NoTime = NoTime
    MaxOtpAttempts = 2
    MaxMounts = 2
    MaxCalls = 2
    Credential = {c1, c2}
    Page = {p1, p2}
    h1 = h1
    h2 = h2
    v1 = v1
    v2 = v2
    HolderAccounts = {h1, h2}
    NoAccount = NoAccount
    Held = {v1, v2}
    HolderOf <- MCHolderOf
    MaxRequests = 3
    DbCalls = {d1, d2, d3, d4}
    Dated <- MCDated
INVARIANTS AccessTypeOK LoginsAreAsked RolesFadeOut TokensAreOnce GuessesAreBounded
    WrongCodesAreCounted AnsweredIsKept AnsweredIsServed OpensWithItsColumns
    SnapListIsCurrent
PROPERTIES OnlyAskedOrOverwritten
SYMMETRY Symmetry
CHECK_DEADLOCK FALSE
