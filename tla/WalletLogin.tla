---------------------------- MODULE WalletLogin -----------------------------
(***************************************************************************)
(* Sign-In with Alastria: nonces in the sql.js store (nonce.service.ts),   *)
(* the login that spends one (authController.ts), the role it gives by the *)
(* index of trusted issuers, and the sessions (auth.middleware.ts).        *)
(*                                                                         *)
(* The store answers within the turn that asked, so verifySIWA is atomic   *)
(* up to its only wait for the network: the sync that determineRole forces *)
(* for an address the index does not list.                                 *)
(***************************************************************************)
EXTENDS Clock, Sequences

CONSTANTS
    Accounts,
    Admin,          \* the address of the issuer's own private key
    Nonces,         \* random, so never drawn twice
    NonceExpiry,    \* seconds a nonce lives
    Grace,          \* seconds the garbage collector leaves it after that
    JwtExpiry,      \* seconds a session lives
    MaxLogins,      \* bound: logins accepted
    NoNonce

Roles == {"holder", "issuer", "admin"}
Row == [address : Accounts, expiresAt : Nat, createdAt : Nat, used : BOOLEAN]
Session == [wallet : Accounts, role : Roles, exp : Nat]
Challenge == [address : Accounts, at : Nat, issuedAt : Nat]
Login == [nonce : Nonces, wallet : Accounts, at : Nat]

ASSUME LoginAssumption ==
    /\ {NonceExpiry, Grace, JwtExpiry, MaxLogins} \subseteq Nat
    /\ NoNonce \notin Row \cup Challenge

VARIABLES
    nonces,     \* the table: a row or none
    challenged, \* history: nonces drawn, for whom and when, and the time that
                \* the answer told the page to sign
    waiting,    \* addresses of logins that wait for a forced sync, one per nonce
    logins,     \* history: logins accepted, in order
    sessions,   \* cookies in browsers
    trusted,    \* issuers on chain
    listed,     \* active issuers in the index
    unlisted    \* history: when each account was last listed

loginVars ==
    <<nonces, challenged, waiting, logins, sessions, trusted, listed, unlisted>>

LoginTypeOK ==
    /\ nonces \in [Nonces -> Row \cup {NoNonce}]
    /\ challenged \in [Nonces -> Challenge \cup {NoNonce}]
    /\ waiting \subseteq Nonces
    /\ logins \in Seq(Login)
    /\ sessions \subseteq Session
    /\ trusted \subseteq Accounts /\ listed \subseteq Accounts
    /\ unlisted \in [Accounts -> Nat]

\* An account listed now is last listed now.
Relist(accounts, time) ==
    /\ listed' = accounts
    /\ unlisted' = [a \in Accounts |->
           IF a \in listed \/ a \in accounts THEN time ELSE unlisted[a]]

Index == <<listed, unlisted>>

-----------------------------------------------------------------------------
(* Nonces. *)

\* The row holds the second of saveNonce; the answer the second of a later
\* Date.now(), which may be the next.
GenerateNonce(a, n) ==
    /\ challenged[n] = NoNonce
    /\ now' \in {now, now + 1} /\ now' =< MaxTime
    /\ nonces' = [nonces EXCEPT ![n] =
           [address |-> a, expiresAt |-> now + NonceExpiry, createdAt |-> now, used |-> FALSE]]
    /\ challenged' = [challenged EXCEPT ![n] = [address |-> a, at |-> now, issuedAt |-> now']]
    /\ UNCHANGED <<waiting, logins, sessions, trusted, Index>>

HasRow(a, n) == nonces[n] # NoNonce /\ nonces[n].address = a

ExpiredRow(row) == row.expiresAt < now

\* getNonce deletes an expired row.
GetExpiredNonce(a, n) ==
    /\ HasRow(a, n) /\ ExpiredRow(nonces[n])
    /\ nonces' = [nonces EXCEPT ![n] = NoNonce]
    /\ UNCHANGED <<now, challenged, waiting, logins, sessions, trusted, Index>>

\* Fault: getNonce answers used rows like others and the caller does not look.
UsedToo(a, n) == HasRow(a, n) /\ ~ ExpiredRow(nonces[n])

GetNonce(a, n) ==
    HasRow(a, n) /\ ~ ExpiredRow(nonces[n]) /\ ~ nonces[n].used

Collected(row) ==
    \/ row.expiresAt + Grace < now
    \/ row.used /\ row.createdAt + Grace < now

CleanupExpiredNonces ==
    /\ \E n \in Nonces : nonces[n] # NoNonce /\ Collected(nonces[n])
    /\ nonces' = [n \in Nonces |->
           IF nonces[n] # NoNonce /\ Collected(nonces[n]) THEN NoNonce ELSE nonces[n]]
    /\ UNCHANGED <<now, challenged, waiting, logins, sessions, trusted, Index>>

-----------------------------------------------------------------------------
(* Logins. *)

OpenSession(a, role) ==
    sessions' = sessions \cup {[wallet |-> a, role |-> role, exp |-> now + JwtExpiry]}

\* The message is rebuilt with the row's time: the signature recovers to the
\* address if the page was told the same.
SignatureMatches(n) == challenged[n].issuedAt = nonces[n].createdAt

VerifySIWA(a, n) ==
    /\ GetNonce(a, n) /\ SignatureMatches(n)
    /\ Len(logins) < MaxLogins
    /\ nonces' = [nonces EXCEPT ![n].used = TRUE]
    /\ logins' = Append(logins, [nonce |-> n, wallet |-> a, at |-> now])
    /\ IF a = Admin \/ a \in listed
       THEN /\ OpenSession(a, IF a = Admin THEN "admin" ELSE "issuer")
            /\ UNCHANGED waiting
       ELSE waiting' = waiting \cup {n} /\ UNCHANGED sessions
    /\ UNCHANGED <<now, challenged, trusted, Index>>

\* The forced sync stores what the chain says, or fails, or is skipped.
SyncedLogin(n) ==
    /\ n \in waiting
    /\ \E accounts \in {listed, trusted} : Relist(accounts, now)
    /\ LET a == challenged[n].address
       IN  OpenSession(a, IF a \in listed' THEN "issuer" ELSE "holder")
    /\ waiting' = waiting \ {n}
    /\ UNCHANGED <<now, nonces, challenged, logins, trusted>>

-----------------------------------------------------------------------------
(* Sessions. *)

\* Fault: the token is decoded, its expiry not looked at.
NeverExpired(s) == FALSE

ExpiredToken(s) == s.exp =< now

Admitted(s) == s \in sessions /\ ~ ExpiredToken(s)

\* authenticateJWT clears an expired cookie, logout any.
Clear(s) ==
    /\ s \in sessions
    /\ sessions' = sessions \ {s}
    /\ UNCHANGED <<now, nonces, challenged, waiting, logins, trusted, Index>>

-----------------------------------------------------------------------------
(* The chain, its index, and time. *)

TrustChanges(a) ==
    /\ trusted' = IF a \in trusted THEN trusted \ {a} ELSE trusted \cup {a}
    /\ UNCHANGED <<now, nonces, challenged, waiting, logins, sessions, Index>>

IndexSynced ==
    /\ listed # trusted /\ Relist(trusted, now)
    /\ UNCHANGED <<now, nonces, challenged, waiting, logins, sessions, trusted>>

LoginTick ==
    /\ Tick /\ Relist(listed, now')
    /\ UNCHANGED <<nonces, challenged, waiting, logins, sessions, trusted>>

LoginInit ==
    /\ ClockInit
    /\ nonces = [n \in Nonces |-> NoNonce]
    /\ challenged = [n \in Nonces |-> NoNonce]
    /\ waiting = {} /\ logins = <<>> /\ sessions = {}
    /\ trusted = {} /\ listed = {}
    /\ unlisted = [a \in Accounts |-> 0]

LoginNext ==
    \/ \E a \in Accounts, n \in Nonces :
          GenerateNonce(a, n) \/ GetExpiredNonce(a, n) \/ VerifySIWA(a, n)
    \/ \E n \in Nonces : SyncedLogin(n)
    \/ CleanupExpiredNonces
    \/ \E s \in sessions : Clear(s)
    \/ \E a \in Accounts : TrustChanges(a)
    \/ IndexSynced \/ LoginTick

LoginSpec == LoginInit /\ [][LoginNext]_<<now, loginVars>>

-----------------------------------------------------------------------------

\* A nonce lets one login in, of the wallet it was drawn for and within its
\* life, however requests, expiry and the garbage collector interleave.
LoginsAreAsked ==
    \A i \in DOMAIN logins :
        LET l == logins[i]
            c == challenged[l.nonce]
        IN  /\ c # NoNonce /\ c.address = l.wallet
            /\ l.at =< c.at + NonceExpiry
            /\ \A j \in DOMAIN logins : logins[j].nonce = l.nonce => i = j

\* The role in a token is not looked up again: an issuer that the index no
\* longer lists is admitted as one for the life of a token at most.
RolesFadeOut ==
    \A s \in sessions :
        Admitted(s) /\ s.role = "issuer" /\ s.wallet \notin listed =>
            now < unlisted[s.wallet] + JwtExpiry

=============================================================================
