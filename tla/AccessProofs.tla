---------------------------- MODULE AccessProofs ----------------------------
(***************************************************************************)
(* Proofs about wallet logins, secure tokens and codes, the claim page,    *)
(* the snap's store, the wallet page and the issuer's database, each for   *)
(* every value of its constants and without the bounds of the runs         *)
(* mattering; and about all of them side by side, as MCAccess runs them.   *)
(*                                                                         *)
(* A save of the database is made of one that holds all that was answered  *)
(* (SavesAll); that it still does after a second init opened a database of *)
(* its own rests on the order of the jobs: with a file, the file holds it, *)
(* and in memory nothing was answered yet (InitsFirst).                    *)
(***************************************************************************)
EXTENDS MCAccess, FiniteSetTheorems, TLAPS

-----------------------------------------------------------------------------
(* Sequences and bags. *)

\* A sequence after another keeps the places of both, in order.
LEMMA Joined ==
    ASSUME NEW S, NEW a \in Seq(S), NEW b \in Seq(S)
    PROVE  /\ a \o b \in Seq(S) /\ Len(a \o b) = Len(a) + Len(b)
           /\ \A j \in 1 .. Len(a) : (a \o b)[j] = a[j]
           /\ \A j \in 1 .. Len(b) : (a \o b)[Len(a) + j] = b[j]
  OBVIOUS

\* Without its i-th element, what came before stays where it was and the rest
\* moves up by one.
LEMMA Removed ==
    ASSUME NEW S, NEW seq \in Seq(S), NEW i \in DOMAIN seq
    PROVE  /\ RemoveAt(seq, i) \in Seq(S)
           /\ Len(seq) \in Nat \ {0} /\ DOMAIN RemoveAt(seq, i) = 1 .. Len(seq) - 1
           /\ \A j \in 1 .. Len(seq) - 1 :
                 RemoveAt(seq, i)[j] = seq[IF j < i THEN j ELSE j + 1]
  <1> DEFINE front == SubSeq(seq, 1, i - 1)
             back == SubSeq(seq, i + 1, Len(seq))
  <1>1. i \in 1 .. Len(seq) /\ Len(seq) \in Nat
    OBVIOUS
  <1>2. /\ front \in Seq(S) /\ Len(front) = i - 1
        /\ \A j \in 1 .. i - 1 : front[j] = seq[j]
    BY <1>1
  <1>3. /\ back \in Seq(S) /\ Len(back) = Len(seq) - i
        /\ \A j \in 1 .. Len(seq) - i : back[j] = seq[i + j]
    BY <1>1
  <1>4. RemoveAt(seq, i) = front \o back
    BY DEF RemoveAt
  <1> HIDE DEF front, back
  <1>5. /\ front \o back \in Seq(S) /\ Len(front \o back) = Len(front) + Len(back)
        /\ \A j \in 1 .. Len(front) : (front \o back)[j] = front[j]
        /\ \A j \in 1 .. Len(back) : (front \o back)[Len(front) + j] = back[j]
    <2>1. front \in Seq(S) /\ back \in Seq(S)
      BY <1>2, <1>3
    <2> QED
      BY <2>1, Joined
  <1>6. Len(front \o back) = Len(seq) - 1
    BY <1>1, <1>2, <1>3, <1>5
  <1>7. ASSUME NEW j \in 1 .. Len(seq) - 1
        PROVE  (front \o back)[j] = seq[IF j < i THEN j ELSE j + 1]
    <2>1. CASE j < i
      <3>1. j \in 1 .. i - 1
        BY <1>1, <2>1
      <3> QED
        BY <1>2, <1>5, <2>1, <3>1
    <2>2. CASE ~ (j < i)
      <3>1. PICK k \in 1 .. Len(seq) - i : (i - 1) + k = j /\ i + k = j + 1
        <4>1. /\ j - (i - 1) \in 1 .. Len(seq) - i
              /\ (i - 1) + (j - (i - 1)) = j /\ i + (j - (i - 1)) = j + 1
          BY <1>1, <2>2
        <4> QED
          BY <4>1
      <3>2. (front \o back)[j] = back[k]
        BY <1>2, <1>3, <1>5, <3>1
      <3> QED
        BY <1>3, <2>2, <3>1, <3>2
    <2> QED
      BY <2>1, <2>2
  <1>8. DOMAIN (front \o back) = 1 .. Len(front \o back)
    BY <1>5
  <1>9. Len(seq) \in Nat \ {0}
    BY <1>1
  <1> QED
    BY <1>4, <1>5, <1>6, <1>7, <1>8, <1>9

\* What is added to a bag is in it.
LEMMA BagAdded ==
    ASSUME NEW B, NEW C, IsABag(B), IsABag(C)
    PROVE  IsABag(B (+) C) /\ BagToSet(B (+) C) = BagToSet(B) \cup BagToSet(C)
  <1>1. /\ \A e \in DOMAIN B : B[e] \in Nat /\ B[e] > 0
        /\ \A e \in DOMAIN C : C[e] \in Nat /\ C[e] > 0
    BY DEF IsABag
  <1>2. DOMAIN (B (+) C) = (DOMAIN B) \cup (DOMAIN C)
    BY DEF (+)
  <1>3. \A e \in (DOMAIN B) \cup (DOMAIN C) : (B (+) C)[e] \in {n \in Nat : n > 0}
    BY <1>1 DEF (+)
  <1>4. B (+) C \in [DOMAIN (B (+) C) -> {n \in Nat : n > 0}]
    BY <1>2, <1>3 DEF (+)
  <1> QED
    BY <1>2, <1>4 DEF IsABag, BagToSet

\* Of the elements of a bag at most the one taken away is gone.
LEMMA BagWithout ==
    ASSUME NEW B, IsABag(B), NEW r
    PROVE  /\ IsABag(B (-) SetToBag({r}))
           /\ BagToSet(B (-) SetToBag({r})) \subseteq BagToSet(B)
           /\ BagToSet(B) \ {r} \subseteq BagToSet(B (-) SetToBag({r}))
  <1> DEFINE one == SetToBag({r})
             count == [e \in DOMAIN B |-> IF e \in DOMAIN one THEN B[e] - one[e] ELSE B[e]]
  <1>1. \A e \in DOMAIN B : B[e] \in Nat /\ B[e] > 0
    BY DEF IsABag
  <1>2. DOMAIN one = {r} /\ one[r] = 1
    BY DEF SetToBag
  <1> HIDE DEF one
  <1>3. B (-) one = [e \in {d \in DOMAIN count : count[d] > 0} |-> count[e]]
    BY DEF (-)
  <1>4. DOMAIN count = DOMAIN B /\ \A e \in DOMAIN B : count[e] = IF e = r THEN B[e] - 1 ELSE B[e]
    BY <1>2
  <1>5. \A e \in DOMAIN B : count[e] \in Nat /\ (e # r => count[e] > 0)
    BY <1>1, <1>4
  <1> HIDE DEF count
  <1>6. DOMAIN (B (-) one) = {d \in DOMAIN B : count[d] > 0}
    BY <1>3, <1>4
  <1>7. B (-) one \in [DOMAIN (B (-) one) -> {n \in Nat : n > 0}]
    BY <1>3, <1>4, <1>5
  <1> QED
    BY <1>5, <1>6, <1>7 DEF IsABag, BagToSet, one

-----------------------------------------------------------------------------
(* Tokens.  The timer forgets an accepted token only when it has expired,  *)
(* and an expired token is not accepted.                                   *)

AcceptedIsUsed ==
    \A t \in Tokens \ revoked : accepted[t] # 0 =>
        /\ accepted[t] = 1
        /\ claims[t] \in Claims
        /\ \/ usedTokens[t] = claims[t].exp
           \/ usedTokens[t] = NoToken /\ claims[t].exp < now

TokenInv == now \in Nat /\ TokenTypeOK /\ AcceptedIsUsed

\* No step of the service breaks its invariant.
LEMMA TokenStep ==
    ASSUME TokenInv, [TokenNext]_<<now, tokenVars>>
    PROVE  TokenInv'
  <1> USE TokenAssumption, MaxTimeAssumption
  <1> USE DEF TokenInv, TokenTypeOK
  <1>1. ASSUME NEW t \in Tokens, Issue(t) PROVE TokenInv'
    <2>1. PICK iat \in now .. MaxTime, exp \in {now + ExpirySeconds} \cup 0 .. MaxTime :
              claims' = [claims EXCEPT ![t] = [iat |-> iat, exp |-> exp]]
      BY <1>1 DEF Issue
    <2>2. [iat |-> iat, exp |-> exp] \in Claims
      BY DEF Claims
    <2>3. TokenTypeOK' /\ now' \in Nat
      BY <1>1, <2>1, <2>2 DEF Issue
    <2>4. claims[t] \notin Claims
      BY <1>1 DEF Issue
    <2>5. AcceptedIsUsed'
      BY <1>1, <2>1, <2>4 DEF Issue, AcceptedIsUsed
    <2> QED
      BY <2>3, <2>5
  <1>2. ASSUME NEW t \in Tokens, Verify(t) PROVE TokenInv'
    <2>1. claims[t] \in Claims /\ claims[t].exp \in Nat
      BY <1>2 DEF Verify, Claims
    <2>2. TokenTypeOK' /\ now' \in Nat
      BY <1>2, <2>1 DEF Verify
    <2>3. t \in revoked \/ accepted[t] = 0
      BY <1>2, <2>1 DEF Verify, IsTokenUsed, AcceptedIsUsed
    <2>4. AcceptedIsUsed'
      BY <1>2, <2>1, <2>3 DEF Verify, AcceptedIsUsed
    <2> QED
      BY <2>2, <2>4
  <1>3. ASSUME NEW t \in Tokens, Revoke(t) PROVE TokenInv'
    BY <1>3 DEF Revoke, AcceptedIsUsed
  <1>4. ASSUME CleanupExpiredTokens PROVE TokenInv'
    <2>1. TokenTypeOK' /\ now' \in Nat
      BY <1>4 DEF CleanupExpiredTokens
    <2>2. ASSUME NEW t \in Tokens, ToDelete(t), claims[t] \in Claims,
                 usedTokens[t] = claims[t].exp
          PROVE  claims[t].exp < now
      BY <2>2 DEF ToDelete
    <2>3. AcceptedIsUsed'
      BY <1>4, <2>2 DEF CleanupExpiredTokens, AcceptedIsUsed
    <2> QED
      BY <2>1, <2>3
  <1>5. ASSUME Tick, UNCHANGED tokenVars PROVE TokenInv'
    <2>1. now' = now + 1 /\ UNCHANGED <<claims, usedTokens, accepted, revoked>>
      BY <1>5 DEF Tick, tokenVars
    <2>2. \A t \in Tokens : claims[t] \in Claims => claims[t].exp \in Nat
      BY DEF Claims
    <2> QED
      BY <2>1, <2>2 DEF AcceptedIsUsed
  <1>6. CASE UNCHANGED <<now, tokenVars>>
    BY <1>6 DEF tokenVars, AcceptedIsUsed
  <1> QED
    BY <1>1, <1>2, <1>3, <1>4, <1>5, <1>6 DEF TokenNext

\* A token that nobody revoked is accepted at most once, however the timer,
\* expiry and verifications interleave.
THEOREM TokensAreUsedOnce == TokenSpec => []TokensAreOnce
  <1>1. TokenInit => TokenInv
    BY TokenAssumption DEF TokenInit, ClockInit, TokenInv, TokenTypeOK, AcceptedIsUsed
  <1>2. TokenInv => TokensAreOnce
    BY DEF TokenInv, TokenTypeOK, AcceptedIsUsed, TokensAreOnce
  <1> QED
    BY <1>1, <1>2, TokenStep, PTL DEF TokenSpec

-----------------------------------------------------------------------------
(* Logins.  A row tells what the challenge said, a nonce that let a login  *)
(* in has a row marked used or none, and none is ever made again.          *)

RowsAreChallenges ==
    \A n \in Nonces : nonces[n] # NoNonce =>
        /\ challenged[n] # NoNonce
        /\ nonces[n].address = challenged[n].address
        /\ nonces[n].expiresAt = challenged[n].at + NonceExpiry

LoginsAreSpent ==
    \A i \in DOMAIN logins :
        nonces[logins[i].nonce] # NoNonce => nonces[logins[i].nonce].used

LoginInv ==
    /\ now \in Nat
    /\ LoginTypeOK
    /\ \A n \in waiting : challenged[n] # NoNonce
    /\ RowsAreChallenges
    /\ LoginsAreSpent
    /\ LoginsAreAsked

\* Accepted logins are logins.
LEMMA LoginsTyped ==
    ASSUME LoginTypeOK
    PROVE  /\ logins \in Seq(Login)
           /\ \A i \in DOMAIN logins : logins[i] \in Login /\ logins[i].nonce \in Nonces
  <1>1. logins \in Seq(Login)
    BY DEF LoginTypeOK
  <1>2. \A i \in DOMAIN logins : logins[i] \in Login
    BY <1>1
  <1> QED
    BY <1>1, <1>2 DEF Login

\* Nothing of this moves when a row goes, or time.
LEMMA LoginsKept ==
    ASSUME LoginInv, now' \in Nat,
           UNCHANGED <<challenged, logins>>,
           nonces' \in [Nonces -> Row \cup {NoNonce}],
           \A n \in Nonces : nonces'[n] \in {nonces[n], NoNonce}
    PROVE  RowsAreChallenges' /\ LoginsAreSpent' /\ LoginsAreAsked'
  <1>1. \A i \in DOMAIN logins : logins[i].nonce \in Nonces
    BY LoginsTyped DEF LoginInv
  <1>2. RowsAreChallenges'
    BY DEF LoginInv, RowsAreChallenges
  <1>3. LoginsAreSpent'
    BY <1>1 DEF LoginInv, LoginsAreSpent
  <1>4. LoginsAreAsked'
    BY DEF LoginInv, LoginsAreAsked
  <1> QED
    BY <1>2, <1>3, <1>4

\* A login that is accepted opens one session.
LEMMA SessionOpened ==
    ASSUME LoginTypeOK, now \in Nat, NEW a \in Accounts, NEW role \in Roles,
           OpenSession(a, role)
    PROVE  sessions' \subseteq Session
  BY LoginAssumption DEF LoginTypeOK, OpenSession, Session

\* A new list of issuers keeps the types.
LEMMA RelistType ==
    ASSUME LoginTypeOK, NEW accounts \in SUBSET Accounts, NEW time \in Nat,
           Relist(accounts, time)
    PROVE  listed' \subseteq Accounts /\ unlisted' \in [Accounts -> Nat]
  BY DEF LoginTypeOK, Relist

\* The last index of a list that has one element more.
LEMMA LastIndex ==
    ASSUME NEW n \in Nat
    PROVE  \A i \in 1 .. n + 1 : i \in 1 .. n \/ (i = n + 1 /\ i \notin 1 .. n)
  OBVIOUS

\* No step of the login breaks its invariant.
LEMMA LoginStep ==
    ASSUME LoginInv, [LoginNext]_<<now, loginVars>>
    PROVE  LoginInv'
  <1> USE LoginAssumption, MaxTimeAssumption
  <1>0. LoginTypeOK /\ now \in Nat /\ RowsAreChallenges /\ LoginsAreSpent /\ LoginsAreAsked
    BY DEF LoginInv
  <1>rows. /\ \A n \in Nonces : nonces[n] # NoNonce => nonces[n] \in Row
         /\ \A n \in Nonces : challenged[n] # NoNonce => challenged[n] \in Challenge
         /\ logins \in Seq(Login)
         /\ \A i \in DOMAIN logins : logins[i] \in Login /\ logins[i].nonce \in Nonces
    BY <1>0, LoginsTyped DEF LoginTypeOK
  <1>1. ASSUME NEW a \in Accounts, NEW n \in Nonces, GenerateNonce(a, n) PROVE LoginInv'
    <2> DEFINE row == [address |-> a, expiresAt |-> now + NonceExpiry,
                       createdAt |-> now, used |-> FALSE]
               c == [address |-> a, at |-> now, issuedAt |-> now']
    <2>1. now' \in Nat /\ row \in Row /\ c \in Challenge
      BY <1>0, <1>1 DEF GenerateNonce, Row, Challenge
    <2>2. row # NoNonce /\ c # NoNonce /\ challenged[n] = NoNonce
      BY <1>1, <2>1 DEF GenerateNonce
    <2>3. /\ nonces' = [nonces EXCEPT ![n] = row]
          /\ challenged' = [challenged EXCEPT ![n] = c]
          /\ UNCHANGED <<waiting, logins, sessions, trusted, listed, unlisted>>
      BY <1>1 DEF GenerateNonce, Index
    <2>4. row.address = a /\ row.expiresAt = now + NonceExpiry /\ c.address = a /\ c.at = now
      OBVIOUS
    <2> HIDE DEF row, c
    <2>5. LoginTypeOK'
      BY <1>0, <2>1, <2>3 DEF LoginTypeOK
    <2>6. \A m \in waiting' : challenged'[m] # NoNonce
      BY <2>2, <2>3 DEF LoginInv, LoginTypeOK
    <2>7. RowsAreChallenges'
      BY <1>0, <2>2, <2>3, <2>4 DEF RowsAreChallenges, LoginTypeOK
    <2>8. \A i \in DOMAIN logins : logins[i].nonce # n
      BY <1>0, <2>2 DEF LoginsAreAsked
    <2>9. LoginsAreSpent'
      BY <1>0, <1>rows, <2>3, <2>8 DEF LoginsAreSpent, LoginTypeOK
    <2>10. LoginsAreAsked'
      BY <1>0, <1>rows, <2>3, <2>8 DEF LoginsAreAsked, LoginTypeOK
    <2> QED
      BY <2>1, <2>5, <2>6, <2>7, <2>9, <2>10 DEF LoginInv
  <1>2. ASSUME NEW a \in Accounts, NEW n \in Nonces, GetExpiredNonce(a, n) PROVE LoginInv'
    <2>1. /\ nonces' = [nonces EXCEPT ![n] = NoNonce]
          /\ UNCHANGED <<now, challenged, waiting, logins, sessions, trusted, listed, unlisted>>
      BY <1>2 DEF GetExpiredNonce, Index
    <2>2. LoginTypeOK' /\ \A m \in Nonces : nonces'[m] \in {nonces[m], NoNonce}
      BY <1>0, <2>1 DEF LoginTypeOK
    <2> QED
      BY <1>0, <2>1, <2>2, LoginsKept DEF LoginInv, LoginTypeOK
  <1>3. ASSUME NEW a \in Accounts, NEW n \in Nonces, VerifySIWA(a, n) PROVE LoginInv'
    <2> DEFINE row == [nonces[n] EXCEPT !.used = TRUE]
               l == [nonce |-> n, wallet |-> a, at |-> now]
    <2>1. /\ nonces[n] \in Row /\ nonces[n].address = a /\ ~ nonces[n].used
          /\ ~ (nonces[n].expiresAt < now)
      BY <1>rows, <1>3 DEF VerifySIWA, GetNonce, HasRow, ExpiredRow
    <2>2. row \in Row /\ l \in Login
      BY <1>0, <2>1 DEF Row, Login
    <2>3. row.used /\ row.address = a /\ row.expiresAt = nonces[n].expiresAt
      BY <2>1 DEF Row
    <2>4. l.nonce = n /\ l.wallet = a /\ l.at = now
      OBVIOUS
    <2>5. /\ nonces' = [nonces EXCEPT ![n] = row] /\ logins' = Append(logins, l)
          /\ UNCHANGED <<now, challenged, trusted, listed, unlisted>>
          /\ waiting' \subseteq waiting \cup {n}
      BY <1>3 DEF VerifySIWA, Index
    <2>6. sessions' \subseteq Session
      <3>1. CASE a = Admin \/ a \in listed
        <4>1. PICK role \in Roles : OpenSession(a, role)
          BY <1>3, <3>1 DEF VerifySIWA, Roles
        <4> QED
          BY <1>0, <4>1, SessionOpened
      <3>2. CASE ~ (a = Admin \/ a \in listed)
        BY <1>0, <1>3, <3>2 DEF VerifySIWA, LoginTypeOK
      <3> QED
        BY <3>1, <3>2
    <2>7. /\ challenged[n] # NoNonce /\ challenged[n].address = a
          /\ nonces[n].expiresAt = challenged[n].at + NonceExpiry
          /\ nonces[n] # NoNonce
      BY <1>0, <2>1 DEF RowsAreChallenges
    <2>8. now =< challenged[n].at + NonceExpiry
      <3>1. challenged[n].at \in Nat
        BY <1>rows, <2>7 DEF Challenge
      <3> QED
        BY <1>0, <2>1, <2>7, <3>1
    <2>9. \A i \in DOMAIN logins : logins[i].nonce # n
      BY <1>0, <2>1, <2>7 DEF LoginsAreSpent
    <2> HIDE DEF row, l
    <2>10. LoginTypeOK'
      BY <1>0, <2>2, <2>5, <2>6 DEF LoginTypeOK
    <2>11. \A m \in waiting' : challenged'[m] # NoNonce
      BY <2>5, <2>7 DEF LoginInv
    <2>12. RowsAreChallenges'
      BY <1>0, <2>3, <2>5, <2>7 DEF RowsAreChallenges, LoginTypeOK
    <2>13. /\ DOMAIN logins = 1 .. Len(logins) /\ Len(logins) \in Nat
           /\ DOMAIN logins' = 1 .. Len(logins) + 1
           /\ \A i \in DOMAIN logins : logins'[i] = logins[i]
           /\ logins'[Len(logins) + 1] = l
      BY <1>rows, <2>2, <2>5
    <2>14. \A i \in DOMAIN logins' :
              i \in DOMAIN logins \/ (i = Len(logins) + 1 /\ i \notin DOMAIN logins)
      <3>1. PICK count \in Nat : count = Len(logins)
        BY <2>13
      <3>2. DOMAIN logins = 1 .. count /\ DOMAIN logins' = 1 .. count + 1
        BY <2>13, <3>1
      <3>3. \A i \in 1 .. count + 1 :
               i \in 1 .. count \/ (i = count + 1 /\ i \notin 1 .. count)
        BY LastIndex
      <3> QED
        BY <3>1, <3>2, <3>3
    <2>15. LoginsAreSpent'
      BY <1>0, <1>rows, <2>3, <2>4, <2>5, <2>13, <2>14 DEF LoginsAreSpent, LoginTypeOK
    <2>16. \A i \in DOMAIN logins' : /\ challenged[logins'[i].nonce] # NoNonce
                                     /\ challenged[logins'[i].nonce].address = logins'[i].wallet
                                     /\ logins'[i].at =< challenged[logins'[i].nonce].at + NonceExpiry
      BY <1>0, <2>4, <2>7, <2>8, <2>13, <2>14 DEF LoginsAreAsked
    <2>17. \A i, j \in DOMAIN logins' : logins'[j].nonce = logins'[i].nonce => i = j
      BY <1>0, <2>4, <2>9, <2>13, <2>14 DEF LoginsAreAsked
    <2>18. LoginsAreAsked'
      BY <2>5, <2>16, <2>17 DEF LoginsAreAsked
    <2> QED
      BY <1>0, <2>5, <2>10, <2>11, <2>12, <2>15, <2>18 DEF LoginInv
  <1>4. ASSUME NEW n \in Nonces, SyncedLogin(n) PROVE LoginInv'
    <2>1. /\ n \in waiting /\ waiting' = waiting \ {n}
          /\ UNCHANGED <<now, nonces, challenged, logins, trusted>>
      BY <1>4 DEF SyncedLogin
    <2>2. PICK accounts \in SUBSET Accounts : Relist(accounts, now)
      BY <1>0, <1>4 DEF SyncedLogin, LoginTypeOK
    <2>3. challenged[n] \in Challenge
      BY <1>rows, <2>1 DEF LoginInv
    <2>4. PICK role \in Roles : OpenSession(challenged[n].address, role)
      BY <1>4 DEF SyncedLogin, Roles
    <2>5. sessions' \subseteq Session
      BY <1>0, <2>3, <2>4, SessionOpened DEF Challenge
    <2>6. listed' \subseteq Accounts /\ unlisted' \in [Accounts -> Nat]
      BY <1>0, <2>2, RelistType
    <2>7. LoginTypeOK'
      BY <1>0, <2>1, <2>5, <2>6 DEF LoginTypeOK
    <2> QED
      BY <1>0, <2>1, <2>7, LoginsKept DEF LoginInv, LoginTypeOK
  <1>5. ASSUME CleanupExpiredNonces PROVE LoginInv'
    <2>1. /\ \A n \in Nonces : nonces'[n] \in {nonces[n], NoNonce}
          /\ nonces' \in [Nonces -> Row \cup {NoNonce}]
      BY <1>0, <1>5 DEF CleanupExpiredNonces, LoginTypeOK
    <2>2. UNCHANGED <<now, challenged, waiting, logins, sessions, trusted, listed, unlisted>>
      BY <1>5 DEF CleanupExpiredNonces, Index
    <2> QED
      BY <1>0, <2>1, <2>2, LoginsKept DEF LoginInv, LoginTypeOK
  <1>6. ASSUME NEW s \in sessions, Clear(s) PROVE LoginInv'
    <2>1. /\ sessions' \subseteq sessions
          /\ UNCHANGED <<now, nonces, challenged, waiting, logins, trusted, listed, unlisted>>
      BY <1>6 DEF Clear, Index
    <2> QED
      BY <1>0, <2>1, LoginsKept DEF LoginInv, LoginTypeOK
  <1>7. ASSUME NEW a \in Accounts, TrustChanges(a) PROVE LoginInv'
    <2>1. /\ trusted' \subseteq Accounts
          /\ UNCHANGED <<now, nonces, challenged, waiting, logins, sessions, listed, unlisted>>
      BY <1>0, <1>7 DEF TrustChanges, Index, LoginTypeOK
    <2> QED
      BY <1>0, <2>1, LoginsKept DEF LoginInv, LoginTypeOK
  <1>8. ASSUME IndexSynced PROVE LoginInv'
    <2>1. /\ Relist(trusted, now) /\ trusted \in SUBSET Accounts
          /\ UNCHANGED <<now, nonces, challenged, waiting, logins, sessions, trusted>>
      BY <1>0, <1>8 DEF IndexSynced, LoginTypeOK
    <2>2. listed' \subseteq Accounts /\ unlisted' \in [Accounts -> Nat]
      BY <1>0, <2>1, RelistType
    <2> QED
      BY <1>0, <2>1, <2>2, LoginsKept DEF LoginInv, LoginTypeOK
  <1>9. ASSUME LoginTick PROVE LoginInv'
    <2>1. /\ now' \in Nat /\ Relist(listed, now') /\ listed \in SUBSET Accounts
          /\ UNCHANGED <<nonces, challenged, waiting, logins, sessions, trusted>>
      BY <1>0, <1>9 DEF LoginTick, Tick, LoginTypeOK
    <2>2. listed' \subseteq Accounts /\ unlisted' \in [Accounts -> Nat]
      BY <1>0, <2>1, RelistType
    <2> QED
      BY <1>0, <2>1, <2>2, LoginsKept DEF LoginInv, LoginTypeOK
  <1>10. CASE UNCHANGED <<now, loginVars>>
    <2>1. UNCHANGED <<now, nonces, challenged, waiting, logins, sessions, trusted, listed, unlisted>>
      BY <1>10 DEF loginVars
    <2> QED
      BY <1>0, <2>1, LoginsKept DEF LoginInv, LoginTypeOK
  <1> QED
    BY <1>1, <1>2, <1>3, <1>4, <1>5, <1>6, <1>7, <1>8, <1>9, <1>10 DEF LoginNext

\* At first nothing was drawn.
LEMMA LoginInitial == LoginInit => LoginInv
  BY LoginAssumption
  DEF LoginInit, ClockInit, LoginInv, LoginTypeOK, RowsAreChallenges, LoginsAreSpent,
      LoginsAreAsked

\* A nonce lets one login in, of the wallet it was drawn for and within its
\* life, for any number of wallets, nonces and requests.
THEOREM NoncesAreSpentOnce == LoginSpec => []LoginsAreAsked
  <1>1. LoginInv => LoginsAreAsked
    BY DEF LoginInv
  <1> QED
    BY <1>1, LoginInitial, LoginStep, PTL DEF LoginSpec

-----------------------------------------------------------------------------
(* Roles.  A role is looked up in the index when the session is opened, so *)
(* a session outlives the entry that gave it by no more than its own life. *)

\* A session that says issuer ends within its life of the last time its wallet
\* was listed, which is now for one that is.
LastListed(a) == IF a \in listed THEN now ELSE unlisted[a]

SessionsFade ==
    /\ \A a \in Accounts : unlisted[a] =< now
    /\ \A s \in sessions : s.role = "issuer" => s.exp =< LastListed(s.wallet) + JwtExpiry

\* A session that is not new and a list that is not touched stay within the bound.
LEMMA FadeKept ==
    ASSUME LoginInv, LoginInv', SessionsFade, now =< now',
           \/ UNCHANGED <<listed, unlisted>>
           \/ \E accounts \in SUBSET Accounts : Relist(accounts, now'),
           \A s \in sessions' \ sessions : s.role = "issuer" =>
               s.wallet \in listed' /\ s.exp =< now + JwtExpiry
    PROVE  SessionsFade'
  <1> USE LoginAssumption
  <1>1. /\ now \in Nat /\ now' \in Nat /\ JwtExpiry \in Nat
        /\ unlisted \in [Accounts -> Nat] /\ unlisted' \in [Accounts -> Nat]
        /\ \A s \in sessions' : s.wallet \in Accounts /\ s.exp \in Nat
    BY DEF LoginInv, LoginTypeOK, Session
  <1>2. ASSUME NEW a \in Accounts PROVE unlisted'[a] =< now' /\ LastListed(a) =< LastListed(a)'
    <2>1. unlisted[a] \in Nat /\ unlisted[a] =< now
      BY <1>1 DEF SessionsFade
    <2>2. CASE UNCHANGED <<listed, unlisted>>
      BY <1>1, <2>1, <2>2 DEF LastListed
    <2>3. CASE \E accounts \in SUBSET Accounts : Relist(accounts, now')
      <3>1. unlisted'[a] \in {unlisted[a], now'} /\ (a \in listed => unlisted'[a] = now')
        BY <2>3 DEF Relist
      <3>2. a \in listed \/ unlisted'[a] = now' \/ (a \notin listed' /\ unlisted'[a] = unlisted[a])
        BY <2>3 DEF Relist
      <3> QED
        BY <1>1, <2>1, <3>1, <3>2 DEF LastListed
    <2> QED
      BY <2>2, <2>3
  <1>3. ASSUME NEW s \in sessions', s.role = "issuer"
        PROVE  s.exp =< (IF s.wallet \in listed' THEN now' ELSE unlisted'[s.wallet]) + JwtExpiry
    <2>1. s.wallet \in Accounts /\ s.exp \in Nat
      BY <1>1
    <2>2. CASE s \in sessions
      <3>1. s.exp =< LastListed(s.wallet) + JwtExpiry
        BY <1>3, <2>2 DEF SessionsFade
      <3>2. PICK a \in Accounts : a = s.wallet
        BY <2>1
      <3>3. LastListed(a) =< (IF a \in listed' THEN now' ELSE unlisted'[a])
        BY <1>2 DEF LastListed
      <3>4. LastListed(a) \in Nat /\ (IF a \in listed' THEN now' ELSE unlisted'[a]) \in Nat
        BY <1>1 DEF LastListed
      <3> QED
        BY <1>1, <2>1, <3>1, <3>2, <3>3, <3>4
    <2>3. CASE s \notin sessions
      BY <1>1, <1>3, <2>1, <2>3
    <2> QED
      BY <2>2, <2>3
  <1> QED
    BY <1>2, <1>3 DEF SessionsFade, LastListed

\* No login, expiry or change of the list makes a session last longer.
LEMMA FadeStep ==
    ASSUME LoginInv, LoginInv', SessionsFade, [LoginNext]_<<now, loginVars>>
    PROVE  SessionsFade'
  <1> USE LoginAssumption, MaxTimeAssumption
  <1>0. now \in Nat /\ now' \in Nat /\ listed \subseteq Accounts /\ trusted \subseteq Accounts
    BY DEF LoginInv, LoginTypeOK
  <1>1. CASE UNCHANGED <<sessions, listed, unlisted>> /\ now =< now'
    BY <1>1, FadeKept
  <1>2. ASSUME NEW a \in Accounts, NEW n \in Nonces, VerifySIWA(a, n) PROVE SessionsFade'
    <2>1. UNCHANGED <<now, listed, unlisted>>
      BY <1>2 DEF VerifySIWA, Index
    <2>2. \A s \in sessions' \ sessions :
             s.role = "issuer" => s.wallet \in listed' /\ s.exp =< now + JwtExpiry
      BY <1>0, <1>2, <2>1 DEF VerifySIWA, OpenSession
    <2> QED
      BY <1>0, <2>1, <2>2, FadeKept
  <1>3. ASSUME NEW n \in Nonces, SyncedLogin(n) PROVE SessionsFade'
    <2>1. now' = now /\ \E accounts \in SUBSET Accounts : Relist(accounts, now')
      BY <1>0, <1>3 DEF SyncedLogin
    <2>2. \A s \in sessions' \ sessions :
             s.role = "issuer" => s.wallet \in listed' /\ s.exp =< now + JwtExpiry
      BY <1>0, <1>3 DEF SyncedLogin, OpenSession
    <2> QED
      BY <1>0, <2>1, <2>2, FadeKept
  <1>4. ASSUME NEW s \in sessions, Clear(s) PROVE SessionsFade'
    <2>1. UNCHANGED <<now, listed, unlisted>> /\ sessions' \subseteq sessions
      BY <1>4 DEF Clear, Index
    <2> QED
      BY <1>0, <2>1, FadeKept
  <1>5. ASSUME IndexSynced \/ LoginTick PROVE SessionsFade'
    <2>1. /\ UNCHANGED sessions /\ now =< now'
          /\ \E accounts \in SUBSET Accounts : Relist(accounts, now')
      BY <1>0, <1>5 DEF IndexSynced, LoginTick, Tick
    <2> QED
      BY <2>1, FadeKept
  <1> QED
    BY <1>0, <1>1, <1>2, <1>3, <1>4, <1>5
    DEF LoginNext, loginVars, GenerateNonce, GetExpiredNonce, CleanupExpiredNonces, TrustChanges,
        Index

\* A role that the index no longer bears out lasts no longer than a token that
\* was issued as the wallet was listed, for any number of wallets and logins.
THEOREM RolesEnd == LoginSpec => []RolesFadeOut
  <1>1. LoginInit => LoginInv /\ SessionsFade
    BY LoginInitial DEF LoginInit, ClockInit, SessionsFade
  <1>2. LoginInv /\ SessionsFade => RolesFadeOut
    <2> SUFFICES ASSUME LoginInv, SessionsFade, NEW s \in sessions, Admitted(s),
                        s.role = "issuer", s.wallet \notin listed
                 PROVE  now < unlisted[s.wallet] + JwtExpiry
      BY DEF RolesFadeOut
    <2>1. /\ now \in Nat /\ s.exp \in Nat /\ unlisted[s.wallet] \in Nat /\ JwtExpiry \in Nat
      BY LoginAssumption DEF LoginInv, LoginTypeOK, Session
    <2> QED
      BY <2>1 DEF Admitted, ExpiredToken, SessionsFade, LastListed
  <1>3. (LoginInv /\ SessionsFade) /\ [LoginNext]_<<now, loginVars>> => (LoginInv /\ SessionsFade)'
    BY LoginStep, FadeStep
  <1> QED
    BY <1>1, <1>2, <1>3, PTL DEF LoginSpec

-----------------------------------------------------------------------------
(* Codes.  A wrong code is recorded as an attempt, and the record of a     *)
(* block is dropped only when the block ends, after its window.            *)

InWindow(times, t) == {k \in DOMAIN times : t < times[k] + WindowSeconds}

\* In every window from now on, an identifier has at least as many attempts on
\* record as codes compared; while it is blocked the record is to be deleted,
\* but no earlier than its codes have left the window.
GuessesAreCounted(i) ==
    /\ \A k \in DOMAIN guesses[i] : guesses[i][k] =< now
    /\ IF IsBlocked(i)
       THEN \A k \in DOMAIN guesses[i] : guesses[i][k] + WindowSeconds =< unblockAt[i]
       ELSE \A t \in Nat : now =< t =>
               Cardinality(InWindow(guesses[i], t)) =< Cardinality(InWindow(attempts[i], t))

OtpInv ==
    /\ now \in Nat /\ OtpTypeOK
    /\ \A i \in Identifiers : GuessesAreCounted(i) /\ Recent(guesses[i]) =< MaxAttempts

\* The attempts in a window can be counted.
LEMMA WindowFinite ==
    ASSUME NEW times \in Seq(Nat), NEW t \in Nat
    PROVE  /\ IsFiniteSet(InWindow(times, t))
           /\ Cardinality(InWindow(times, t)) \in Nat
  <1>1. IsFiniteSet(1 .. Len(times))
    BY FS_Interval
  <1>2. InWindow(times, t) \in SUBSET (1 .. Len(times))
    BY DEF InWindow
  <1> QED
    BY <1>1, <1>2, FS_Subset, FS_CardinalityType

\* Time takes attempts out of the window and brings none in.
LEMMA WindowNarrows ==
    ASSUME NEW times \in Seq(Nat), NEW t \in Nat, NEW u \in Nat, t =< u
    PROVE  Cardinality(InWindow(times, u)) =< Cardinality(InWindow(times, t))
  <1>1. InWindow(times, u) \in SUBSET InWindow(times, t)
    <2> SUFFICES ASSUME NEW k \in DOMAIN times, u < times[k] + WindowSeconds
                 PROVE  t < times[k] + WindowSeconds
      BY DEF InWindow
    <2>1. times[k] \in Nat
      OBVIOUS
    <2> QED
      BY <2>1, OtpAssumption
  <1> QED
    BY <1>1, WindowFinite, FS_Subset

\* One more attempt is one more in its window.
LEMMA WindowGrows ==
    ASSUME NEW times \in Seq(Nat), NEW x \in Nat, NEW t \in Nat
    PROVE  Cardinality(InWindow(Append(times, x), t)) =
              IF t < x + WindowSeconds THEN Cardinality(InWindow(times, t)) + 1
                                       ELSE Cardinality(InWindow(times, t))
  <1> DEFINE new == Len(times) + 1
  <1>1. /\ DOMAIN Append(times, x) = (DOMAIN times) \cup {new} /\ new \notin DOMAIN times
        /\ Append(times, x)[new] = x
        /\ \A k \in DOMAIN times : Append(times, x)[k] = times[k]
    OBVIOUS
  <1> HIDE DEF new
  <1>2. CASE t < x + WindowSeconds
    <2>1. InWindow(Append(times, x), t) = InWindow(times, t) \cup {new}
      BY <1>1, <1>2 DEF InWindow
    <2>2. new \notin InWindow(times, t)
      BY <1>1 DEF InWindow
    <2> QED
      BY <1>2, <2>1, <2>2, WindowFinite, FS_AddElement
  <1>3. CASE ~ (t < x + WindowSeconds)
    <2>1. InWindow(Append(times, x), t) = InWindow(times, t)
      BY <1>1, <1>3 DEF InWindow
    <2> QED
      BY <1>3, <2>1
  <1> QED
    BY <1>2, <1>3

\* A record without a recent attempt counts none.
LEMMA NothingInWindow ==
    ASSUME NEW times, NEW t, \A k \in DOMAIN times : ~ (t < times[k] + WindowSeconds)
    PROVE  Cardinality(InWindow(times, t)) = 0
  <1>1. InWindow(times, t) = {}
    BY DEF InWindow
  <1> QED
    BY <1>1, FS_EmptySet

\* The code's count of recent attempts is the size of the window.
LEMMA RecentIsInWindow ==
    \A times : Recent(times) = Cardinality(InWindow(times, now))
  BY DEF Recent, InWindow

\* Time only takes guesses out of the window.
LEMMA OtpKept ==
    ASSUME OtpInv, NEW i \in Identifiers, now =< now', now' \in Nat,
           attempts'[i] = attempts[i], unblockAt'[i] = unblockAt[i], guesses'[i] = guesses[i]
    PROVE  GuessesAreCounted(i)' /\ Recent(guesses[i])' =< MaxAttempts
  <1> USE OtpAssumption
  <1>1. /\ now \in Nat /\ guesses[i] \in Seq(Nat) /\ attempts[i] \in Seq(Nat)
        /\ GuessesAreCounted(i) /\ Recent(guesses[i]) =< MaxAttempts
    BY DEF OtpInv, OtpTypeOK
  <1>2. Cardinality(InWindow(guesses[i], now')) =< Cardinality(InWindow(guesses[i], now))
    BY <1>1, WindowNarrows
  <1>3. Recent(guesses[i])' =< MaxAttempts
    <2>1. Cardinality(InWindow(guesses[i], now)) =< MaxAttempts
      BY <1>1, RecentIsInWindow
    <2>2. Recent(guesses[i])' = Cardinality(InWindow(guesses[i], now'))
      BY DEF Recent, InWindow
    <2>3. Cardinality(InWindow(guesses[i], now)) \in Nat /\ Cardinality(InWindow(guesses[i], now')) \in Nat
      BY <1>1, WindowFinite
    <2> QED
      BY <1>2, <2>1, <2>2, <2>3
  <1>4. GuessesAreCounted(i)'
    <2>1. \A k \in DOMAIN guesses[i] : guesses[i][k] \in Nat
      BY <1>1
    <2>2. \A t \in Nat : now' =< t => now =< t
      BY <1>1
    <2>3. \A k \in DOMAIN guesses[i] : guesses[i][k] =< now'
      BY <1>1, <2>1 DEF GuessesAreCounted
    <2> QED
      BY <1>1, <2>2, <2>3 DEF GuessesAreCounted, IsBlocked, InWindow
  <1> QED
    BY <1>3, <1>4

\* An action of one identifier.
LEMMA OtpStepOf ==
    ASSUME OtpInv, NEW i \in Identifiers,
           \/ Generate(i) \/ BadFormat(i) \/ Blocks(i)
           \/ WrongCode(i) \/ RightCode(i) \/ BlockEnds(i)
    PROVE  GuessesAreCounted(i)' /\ Recent(guesses[i])' =< MaxAttempts
  <1> USE OtpAssumption
  <1>1. /\ now \in Nat /\ now' = now /\ guesses[i] \in Seq(Nat) /\ attempts[i] \in Seq(Nat)
        /\ GuessesAreCounted(i) /\ Recent(guesses[i]) =< MaxAttempts
        /\ attempts \in [Identifiers -> Seq(Nat)] /\ guesses \in [Identifiers -> Seq(Nat)]
        /\ unblockAt \in [Identifiers -> Nat \cup {NoTime}]
    BY DEF OtpInv, OtpTypeOK, Generate, BadFormat, Blocks, WrongCode, RightCode, BlockEnds
  <1>2. \A k \in DOMAIN guesses[i] : guesses[i][k] \in Nat /\ guesses[i][k] =< now
    BY <1>1 DEF GuessesAreCounted
  <1>3. \A times : /\ Recent(times)' = Cardinality(InWindow(times', now))
                   /\ Recent(times) = Cardinality(InWindow(times, now))
    BY <1>1 DEF Recent, InWindow
  <1>4. CASE Generate(i)
    BY <1>1, <1>4, OtpKept DEF Generate
  <1>5. CASE BadFormat(i)
    <2>1. attempts'[i] = Append(attempts[i], now) /\ guesses' = guesses /\ unblockAt' = unblockAt
          /\ unblockAt[i] = NoTime
      BY <1>1, <1>5 DEF BadFormat, RecordAttempt, Tries, IsBlocked
    <2>2. ASSUME NEW t \in Nat, now =< t
          PROVE  Cardinality(InWindow(guesses[i], t)) =< Cardinality(InWindow(attempts'[i], t))
      <3>1. Cardinality(InWindow(guesses[i], t)) =< Cardinality(InWindow(attempts[i], t))
        BY <1>1, <2>1, <2>2 DEF GuessesAreCounted, IsBlocked
      <3>2. /\ Cardinality(InWindow(guesses[i], t)) \in Nat
            /\ Cardinality(InWindow(attempts[i], t)) \in Nat
        BY <1>1, WindowFinite
      <3>3. Cardinality(InWindow(Append(attempts[i], now), t)) =
                IF t < now + WindowSeconds THEN Cardinality(InWindow(attempts[i], t)) + 1
                                           ELSE Cardinality(InWindow(attempts[i], t))
        BY <1>1, WindowGrows
      <3> QED
        BY <2>1, <3>1, <3>2, <3>3
    <2> QED
      BY <1>1, <1>2, <2>1, <2>2 DEF GuessesAreCounted, IsBlocked, Recent, InWindow
  <1>6. CASE Blocks(i)
    <2>1. unblockAt'[i] = now + BlockDuration /\ guesses' = guesses
      BY <1>1, <1>6 DEF Blocks
    <2>2. unblockAt'[i] # NoTime
      BY <1>1, <2>1
    <2>3. \A k \in DOMAIN guesses[i] : guesses[i][k] + WindowSeconds =< unblockAt'[i]
      BY <1>1, <1>2, <2>1
    <2> QED
      BY <1>1, <1>2, <2>1, <2>2, <2>3 DEF GuessesAreCounted, IsBlocked, Recent
  <1>7. CASE WrongCode(i)
    <2>1. /\ attempts'[i] = Append(attempts[i], now) /\ guesses'[i] = Append(guesses[i], now)
          /\ unblockAt' = unblockAt /\ unblockAt[i] = NoTime
          /\ ~ (Recent(attempts[i]) >= MaxAttempts)
      BY <1>1, <1>7 DEF WrongCode, RecordAttempt, Tries, IsBlocked, RateLimited
    <2>2. ASSUME NEW t \in Nat, now =< t
          PROVE  /\ Cardinality(InWindow(guesses[i], t)) =< Cardinality(InWindow(attempts[i], t))
                 /\ Cardinality(InWindow(guesses'[i], t)) =< Cardinality(InWindow(attempts'[i], t))
                 /\ Cardinality(InWindow(guesses'[i], t)) =< Cardinality(InWindow(guesses[i], t)) + 1
      <3>1. Cardinality(InWindow(guesses[i], t)) =< Cardinality(InWindow(attempts[i], t))
        BY <1>1, <2>1, <2>2 DEF GuessesAreCounted, IsBlocked
      <3>2. /\ Cardinality(InWindow(guesses[i], t)) \in Nat
            /\ Cardinality(InWindow(attempts[i], t)) \in Nat
        BY <1>1, WindowFinite
      <3>3. /\ Cardinality(InWindow(Append(guesses[i], now), t)) =
                  IF t < now + WindowSeconds THEN Cardinality(InWindow(guesses[i], t)) + 1
                                             ELSE Cardinality(InWindow(guesses[i], t))
            /\ Cardinality(InWindow(Append(attempts[i], now), t)) =
                  IF t < now + WindowSeconds THEN Cardinality(InWindow(attempts[i], t)) + 1
                                             ELSE Cardinality(InWindow(attempts[i], t))
        BY <1>1, WindowGrows
      <3> QED
        BY <2>1, <3>1, <3>2, <3>3
    <2>3. Recent(guesses[i])' =< MaxAttempts
      <3>1. /\ Recent(guesses[i])' = Cardinality(InWindow(guesses'[i], now))
            /\ Recent(attempts[i]) = Cardinality(InWindow(attempts[i], now))
        BY <1>1 DEF Recent, InWindow
      <3>2. /\ Cardinality(InWindow(guesses[i], now)) =< Cardinality(InWindow(attempts[i], now))
            /\ Cardinality(InWindow(guesses'[i], now)) =< Cardinality(InWindow(guesses[i], now)) + 1
        <4>1. now \in Nat /\ now =< now
          BY <1>1
        <4> QED
          BY <2>2, <4>1
      <3>3. guesses'[i] \in Seq(Nat)
        BY <1>1, <2>1
      <3>4. /\ Cardinality(InWindow(guesses[i], now)) \in Nat
            /\ Cardinality(InWindow(guesses'[i], now)) \in Nat
            /\ Cardinality(InWindow(attempts[i], now)) \in Nat
        BY <1>1, <3>3, WindowFinite
      <3> QED
        BY <2>1, <3>1, <3>2, <3>4
    <2>4. \A k \in DOMAIN guesses'[i] : guesses'[i][k] =< now
      <3>1. /\ DOMAIN guesses'[i] = 1 .. Len(guesses[i]) + 1 /\ Len(guesses[i]) \in Nat
            /\ guesses'[i][Len(guesses[i]) + 1] = now
            /\ \A k \in 1 .. Len(guesses[i]) : guesses'[i][k] = guesses[i][k]
        <4>1. /\ DOMAIN Append(guesses[i], now) = 1 .. Len(guesses[i]) + 1
              /\ Len(guesses[i]) \in Nat
              /\ Append(guesses[i], now)[Len(guesses[i]) + 1] = now
              /\ \A k \in 1 .. Len(guesses[i]) : Append(guesses[i], now)[k] = guesses[i][k]
          BY <1>1
        <4> QED
          BY <2>1, <4>1
      <3>2. DOMAIN guesses[i] = 1 .. Len(guesses[i])
        BY <1>1
      <3>3. \A k \in 1 .. Len(guesses[i]) + 1 : k \in 1 .. Len(guesses[i]) \/ k = Len(guesses[i]) + 1
        BY <3>1
      <3>4. \A k \in 1 .. Len(guesses[i]) : guesses'[i][k] =< now
        BY <1>2, <3>1, <3>2
      <3>5. now =< now
        BY <1>1
      <3> QED
        BY <3>1, <3>3, <3>4, <3>5
    <2> QED
      BY <1>1, <2>1, <2>2, <2>3, <2>4 DEF GuessesAreCounted, IsBlocked
  <1>8. CASE RightCode(i)
    <2>1. /\ attempts'[i] = <<>> /\ guesses'[i] = <<>> /\ unblockAt' = unblockAt
          /\ unblockAt[i] = NoTime
      BY <1>1, <1>8 DEF RightCode, Tries, IsBlocked
    <2>2. \A t : Cardinality(InWindow(guesses'[i], t)) = 0 /\ Cardinality(InWindow(attempts'[i], t)) = 0
      BY <2>1, NothingInWindow
    <2>3. Recent(guesses[i])' = Cardinality(InWindow(guesses'[i], now))
      BY <1>1 DEF Recent, InWindow
    <2> QED
      BY <2>1, <2>2, <2>3 DEF GuessesAreCounted, IsBlocked
  <1>9. CASE BlockEnds(i)
    <2>1. /\ attempts'[i] = <<>> /\ unblockAt'[i] = NoTime /\ guesses' = guesses
          /\ unblockAt[i] # NoTime /\ unblockAt[i] =< now
      BY <1>1, <1>9 DEF BlockEnds, IsBlocked
    <2>2. \A k \in DOMAIN guesses[i] : guesses[i][k] + WindowSeconds =< now
      <3>1. unblockAt[i] \in Nat
        BY <1>1, <2>1
      <3> QED
        BY <1>1, <1>2, <2>1, <3>1 DEF GuessesAreCounted, IsBlocked
    <2>3. ASSUME NEW t \in Nat, now =< t
          PROVE  Cardinality(InWindow(guesses[i], t)) =< Cardinality(InWindow(attempts'[i], t))
      <3>1. \A k \in DOMAIN guesses[i] : ~ (t < guesses[i][k] + WindowSeconds)
        BY <1>1, <1>2, <2>2, <2>3
      <3>2. Cardinality(InWindow(guesses[i], t)) = 0 /\ Cardinality(InWindow(attempts'[i], t)) = 0
        BY <2>1, <3>1, NothingInWindow
      <3> QED
        BY <3>2
    <2> QED
      BY <1>1, <1>2, <2>1, <2>3 DEF GuessesAreCounted, IsBlocked, Recent
  <1> QED
    BY <1>4, <1>5, <1>6, <1>7, <1>8, <1>9

\* Types of attempts, blocks and codes.
LEMMA OtpTypes ==
    ASSUME OtpInv, [OtpNext]_<<now, otpVars>>
    PROVE  now' \in Nat /\ OtpTypeOK'
  <1> USE OtpAssumption, MaxTimeAssumption
  <1>1. /\ now \in Nat /\ attempts \in [Identifiers -> Seq(Nat)]
        /\ guesses \in [Identifiers -> Seq(Nat)]
        /\ unblockAt \in [Identifiers -> Nat \cup {NoTime}]
        /\ expiresAt \in [Identifiers -> Nat \cup {NoTime}]
    BY DEF OtpInv, OtpTypeOK
  <1>2. \A i \in Identifiers : Append(attempts[i], now) \in Seq(Nat)
                               /\ Append(guesses[i], now) \in Seq(Nat)
    BY <1>1
  <1>3. <<>> \in Seq(Nat)
    OBVIOUS
  <1>4. now + OtpExpiry \in Nat /\ now + BlockDuration \in Nat
    BY <1>1
  <1>5. ASSUME NEW i \in Identifiers,
               \/ Generate(i) \/ BadFormat(i) \/ Blocks(i)
               \/ WrongCode(i) \/ RightCode(i) \/ BlockEnds(i)
        PROVE  now' \in Nat /\ OtpTypeOK'
    BY <1>1, <1>2, <1>3, <1>4, <1>5
    DEF OtpTypeOK, Generate, BadFormat, Blocks, WrongCode, RightCode, BlockEnds, RecordAttempt
  <1>6. CASE Cleanup
    BY <1>1, <1>3, <1>6 DEF OtpTypeOK, Cleanup
  <1>7. CASE (Tick /\ UNCHANGED otpVars) \/ UNCHANGED <<now, otpVars>>
    BY <1>1, <1>7 DEF OtpTypeOK, Tick, otpVars
  <1> QED
    BY <1>5, <1>6, <1>7 DEF OtpNext

\* A record that goes has nothing in the window, and so nothing in a later one.
LEMMA CleanupStep ==
    ASSUME OtpInv, Cleanup, NEW i \in Identifiers
    PROVE  GuessesAreCounted(i)' /\ Recent(guesses[i])' =< MaxAttempts
  <1> USE OtpAssumption
  <1>1. /\ now \in Nat /\ guesses[i] \in Seq(Nat) /\ attempts[i] \in Seq(Nat)
        /\ GuessesAreCounted(i) /\ Recent(guesses[i]) =< MaxAttempts
        /\ UNCHANGED <<now, unblockAt, guesses>>
    BY DEF OtpInv, OtpTypeOK, Cleanup
  <1>2. CASE ~ Forgettable(i)
    <2>1. attempts'[i] = attempts[i]
      BY <1>2 DEF Cleanup
    <2>2. now =< now'
      BY <1>1
    <2> QED
      BY <1>1, <2>1, <2>2, OtpKept
  <1>3. CASE Forgettable(i)
    <2>1. attempts'[i] = <<>> /\ ~ IsBlocked(i) /\ Recent(attempts[i]) = 0
      BY <1>3 DEF Cleanup, Forgettable
    <2>2. ASSUME NEW t \in Nat, now =< t
          PROVE  Cardinality(InWindow(guesses[i], t)) =< Cardinality(InWindow(attempts'[i], t))
      <3>1. Cardinality(InWindow(guesses[i], t)) =< Cardinality(InWindow(attempts[i], t))
        BY <1>1, <2>1, <2>2 DEF GuessesAreCounted
      <3>2. Cardinality(InWindow(attempts[i], t)) =< Cardinality(InWindow(attempts[i], now))
        BY <1>1, <2>2, WindowNarrows
      <3>3. Cardinality(InWindow(attempts[i], now)) = 0
        BY <2>1, RecentIsInWindow
      <3>4. Cardinality(InWindow(attempts'[i], t)) = 0
        BY <2>1, NothingInWindow
      <3>5. /\ Cardinality(InWindow(guesses[i], t)) \in Nat
            /\ Cardinality(InWindow(attempts[i], t)) \in Nat
        BY <1>1, WindowFinite
      <3> QED
        BY <3>1, <3>2, <3>3, <3>4, <3>5
    <2>3. Recent(guesses[i])' = Recent(guesses[i])
      BY <1>1 DEF Recent
    <2> QED
      BY <1>1, <2>1, <2>2, <2>3 DEF GuessesAreCounted, IsBlocked
  <1> QED
    BY <1>2, <1>3

\* No attempt, block or clean-up breaks the count.
LEMMA OtpStep ==
    ASSUME OtpInv, [OtpNext]_<<now, otpVars>>
    PROVE  OtpInv'
  <1>1. now \in Nat /\ now' \in Nat /\ OtpTypeOK /\ OtpTypeOK'
    BY OtpTypes DEF OtpInv
  <1> SUFFICES ASSUME NEW i \in Identifiers
               PROVE  GuessesAreCounted(i)' /\ Recent(guesses[i])' =< MaxAttempts
    BY <1>1 DEF OtpInv
  <1>2. ASSUME NEW j \in Identifiers,
               \/ Generate(j) \/ BadFormat(j) \/ Blocks(j)
               \/ WrongCode(j) \/ RightCode(j) \/ BlockEnds(j)
        PROVE  GuessesAreCounted(i)' /\ Recent(guesses[i])' =< MaxAttempts
    <2>1. CASE i = j
      BY <1>2, <2>1, OtpStepOf
    <2>2. CASE i # j
      <3>1. /\ attempts'[i] = attempts[i] /\ unblockAt'[i] = unblockAt[i]
            /\ guesses'[i] = guesses[i] /\ now' = now
        BY <1>1, <1>2, <2>2
        DEF OtpTypeOK, Generate, BadFormat, Blocks, WrongCode, RightCode, BlockEnds, RecordAttempt
      <3>2. now =< now'
        BY <1>1, <3>1
      <3> QED
        BY <1>1, <3>1, <3>2, OtpKept
    <2> QED
      BY <2>1, <2>2
  <1>3. CASE Cleanup
    BY <1>3, CleanupStep
  <1>4. CASE (Tick /\ UNCHANGED otpVars) \/ UNCHANGED <<now, otpVars>>
    <2>1. UNCHANGED <<attempts, unblockAt, guesses>> /\ now =< now'
      BY <1>1, <1>4 DEF Tick, otpVars
    <2> QED
      BY <1>1, <2>1, OtpKept
  <1> QED
    BY <1>2, <1>3, <1>4 DEF OtpNext

\* No attempts, no guesses.
LEMMA OtpInitial == OtpInit => OtpInv
  <1> SUFFICES ASSUME OtpInit PROVE OtpInv
    OBVIOUS
  <1>1. now \in Nat /\ OtpTypeOK
    BY OtpAssumption DEF OtpInit, ClockInit, OtpTypeOK
  <1>2. ASSUME NEW i \in Identifiers
        PROVE  GuessesAreCounted(i) /\ Recent(guesses[i]) =< MaxAttempts
    <2>1. guesses[i] = <<>> /\ attempts[i] = <<>> /\ unblockAt[i] = NoTime
      BY DEF OtpInit
    <2>2. \A t : Cardinality(InWindow(guesses[i], t)) = 0 /\ Cardinality(InWindow(attempts[i], t)) = 0
      BY <2>1, NothingInWindow
    <2> QED
      BY <2>1, <2>2, RecentIsInWindow, OtpAssumption DEF GuessesAreCounted, IsBlocked
  <1> QED
    BY <1>1, <1>2 DEF OtpInv

\* No window has more wrong codes compared than the limit, for any number of
\* identifiers, any limit and any window that is no longer than a block.
THEOREM GuessingIsSlow == OtpSpec => []GuessesAreBounded
  <1>1. OtpInv => GuessesAreBounded
    BY DEF OtpInv, GuessesAreBounded
  <1> QED
    BY <1>1, OtpInitial, OtpStep, PTL DEF OtpSpec

-----------------------------------------------------------------------------
(* The claim page.  A refusal is counted when it comes back; until then    *)
(* what it will count is a claim under way.                                *)

PendingOf(kind) == {i \in DOMAIN calls : calls[i].kind = kind}

\* Each claim under way is counted: as one that may yet be refused, which the
\* attempts left allow for, or as overlapped.  A page about to send one while
\* none is under way has an attempt left for it.
CodesAreCounted ==
    /\ wrong + Pending("finalize") =< MaxOtpAttempts + overlapped
    /\ step = "sign" /\ Pending("finalize") = 0 => wrong < MaxOtpAttempts + overlapped
    /\ otpAttempts < MaxOtpAttempts => wrong =< otpAttempts
    /\ step = "sign" \/ Pending("finalize") > 0 => MaxOtpAttempts > 0

ClaimInv == ClaimTypeOK /\ CodesAreCounted

\* Calls without an answer can be counted.
LEMMA PendingFinite ==
    ASSUME calls \in Seq(Call), NEW kind
    PROVE  IsFiniteSet(PendingOf(kind)) /\ Pending(kind) = Cardinality(PendingOf(kind))
           /\ Pending(kind) \in Nat
  <1>1. IsFiniteSet(1 .. Len(calls))
    BY FS_Interval
  <1>2. PendingOf(kind) \in SUBSET (1 .. Len(calls))
    BY DEF PendingOf
  <1>3. IsFiniteSet(PendingOf(kind)) /\ Cardinality(PendingOf(kind)) \in Nat
    BY <1>1, <1>2, FS_Subset, FS_CardinalityType
  <1> QED
    BY <1>3 DEF Pending, PendingOf

\* A call that is sent is one more of its kind.
LEMMA CallSent ==
    ASSUME calls \in Seq(Call), NEW c \in Call, calls' = Append(calls, c), NEW kind
    PROVE  /\ calls' \in Seq(Call)
           /\ Pending(kind)' = IF c.kind = kind THEN Pending(kind) + 1 ELSE Pending(kind)
  <1> DEFINE last == Len(calls) + 1
  <1>1. calls' \in Seq(Call)
    OBVIOUS
  <1>2. /\ DOMAIN calls' = (DOMAIN calls) \cup {last} /\ last \notin DOMAIN calls
        /\ calls'[last] = c /\ \A i \in DOMAIN calls : calls'[i] = calls[i]
    OBVIOUS
  <1> HIDE DEF last
  <1>3. PendingOf(kind)' = IF c.kind = kind THEN PendingOf(kind) \cup {last} ELSE PendingOf(kind)
    BY <1>2 DEF PendingOf
  <1>4. last \notin PendingOf(kind)
    BY <1>2 DEF PendingOf
  <1>5. Pending(kind)' = Cardinality(PendingOf(kind)')
    BY DEF Pending, PendingOf
  <1>6. IsFiniteSet(PendingOf(kind)) /\ Pending(kind) = Cardinality(PendingOf(kind))
    BY PendingFinite
  <1>7. Cardinality(PendingOf(kind) \cup {last}) = Cardinality(PendingOf(kind)) + 1
    BY <1>4, <1>6, FS_AddElement
  <1> QED
    BY <1>1, <1>3, <1>5, <1>6, <1>7

\* A call that is answered is one fewer of its kind.
LEMMA CallAnswered ==
    ASSUME calls \in Seq(Call), NEW i, NEW kind, Answers(i, kind), NEW other
    PROVE  /\ calls' \in Seq(Call) /\ calls[i] \in Call
           /\ Pending(other)' = IF other = kind THEN Pending(other) - 1 ELSE Pending(other)
           /\ Pending(kind) > 0
  <1>1. /\ i \in DOMAIN calls /\ calls[i].kind = kind /\ calls' = RemoveAt(calls, i)
        /\ calls[i] \in Call
    BY DEF Answers
  <1>2. /\ calls' \in Seq(Call)
        /\ Len(calls) \in Nat \ {0} /\ DOMAIN calls' = 1 .. Len(calls) - 1
        /\ \A j \in 1 .. Len(calls) - 1 : calls'[j] = calls[IF j < i THEN j ELSE j + 1]
    BY <1>1, Removed
  <1> DEFINE rest == PendingOf(other) \ {i}
             move == [j \in PendingOf(other)' |-> IF j < i THEN j ELSE j + 1]
  <1>3. i \in 1 .. Len(calls) /\ DOMAIN calls = 1 .. Len(calls)
    BY <1>1
  <1>4. move \in Bijection(PendingOf(other)', rest)
    <2>1. ASSUME NEW j \in PendingOf(other)' PROVE move[j] \in rest
      <3>1. j \in 1 .. Len(calls) - 1 /\ calls'[j].kind = other
        BY <1>2, <2>1 DEF PendingOf
      <3>2. move[j] \in 1 .. Len(calls) /\ move[j] # i /\ calls'[j] = calls[move[j]]
        BY <1>2, <1>3, <2>1, <3>1
      <3> QED
        BY <1>3, <3>1, <3>2 DEF PendingOf
    <2>2. ASSUME NEW j \in PendingOf(other)', NEW k \in PendingOf(other)', move[j] = move[k]
          PROVE  j = k
      <3>1. j \in Nat /\ k \in Nat
        BY <1>2, <2>2 DEF PendingOf
      <3> QED
        BY <1>3, <2>2, <3>1
    <2>3. ASSUME NEW j \in rest PROVE \E k \in PendingOf(other)' : move[k] = j
      <3> DEFINE k == IF j < i THEN j ELSE j - 1
      <3>1. j \in 1 .. Len(calls) /\ j # i /\ calls[j].kind = other
        BY <1>3, <2>3 DEF PendingOf
      <3>2. k \in 1 .. Len(calls) - 1 /\ (IF k < i THEN k ELSE k + 1) = j
        BY <1>2, <1>3, <3>1
      <3>3. k \in PendingOf(other)'
        BY <1>2, <3>1, <3>2 DEF PendingOf
      <3> QED
        BY <3>2, <3>3
    <2> HIDE DEF move, rest
    <2>4. DOMAIN move = PendingOf(other)'
      BY DEF move
    <2>5. move \in [PendingOf(other)' -> rest]
      BY <2>1, <2>4 DEF move
    <2> QED
      BY <2>2, <2>3, <2>4, <2>5 DEF Bijection, Injection, Surjection, IsInjective
  <1>5. /\ IsFiniteSet(PendingOf(other)) /\ Pending(other) = Cardinality(PendingOf(other))
        /\ Pending(other)' = Cardinality(PendingOf(other)') /\ IsFiniteSet(PendingOf(other)')
    <2>1. Pending(other)' = Cardinality(PendingOf(other)')
      BY DEF Pending, PendingOf
    <2>2. IsFiniteSet(1 .. Len(calls) - 1) /\ PendingOf(other)' \in SUBSET (1 .. Len(calls) - 1)
      BY <1>2, FS_Interval DEF PendingOf
    <2> QED
      BY <2>1, <2>2, PendingFinite, FS_Subset
  <1>6. Cardinality(rest) = Pending(other)'
    BY <1>4, <1>5, FS_Bijection DEF ExistsBijection
  <1>7. i \in PendingOf(other) <=> other = kind
    BY <1>1 DEF PendingOf
  <1>8. Pending(other)' = IF other = kind THEN Pending(other) - 1 ELSE Pending(other)
    BY <1>5, <1>6, <1>7, FS_RemoveElement
  <1>9. Pending(kind) > 0
    <2>1. PendingOf(kind) # {}
      BY <1>1 DEF PendingOf
    <2> QED
      BY <2>1, PendingFinite, FS_EmptySet
  <1> QED
    BY <1>1, <1>2, <1>8, <1>9

\* A boolean is one of the two, whatever set it is said to be in.
LEMMA ClaimTypes ==
    ASSUME ClaimTypeOK, [ClaimNext]_claimVars
    PROVE  ClaimTypeOK'
  <1> USE ClaimAssumption
  <1>1. /\ step \in Steps /\ otp \in Otps /\ otpAttempts \in 0 .. MaxOtpAttempts
        /\ isLoading \in BOOLEAN /\ isAuthenticating \in BOOLEAN /\ isAuthenticated \in BOOLEAN
        /\ claimed \in BOOLEAN /\ expired \in BOOLEAN
        /\ address \in Wallets /\ calls \in Seq(Call)
        /\ mount \in Nat /\ wrong \in Nat /\ overlapped \in Nat
    BY DEF ClaimTypeOK
  <1>2. MaxOtpAttempts \in Nat
    OBVIOUS
  <1>2a. Pending("finalize") \in Nat
    BY <1>1, PendingFinite
  <1>3. calls' \in Seq(Call)
    <2>1. \A m \in Nat, k \in {"tokenInfo", "signIn", "resend", "finalize"}, o \in Otps, w \in Wallets :
             [mount |-> m, kind |-> k, otp |-> o, signer |-> w] \in Call
      BY DEF Call
    <2>2. ASSUME NEW kind \in {"tokenInfo", "signIn", "resend", "finalize"},
                 NEW code \in Otps, NEW signer \in Wallets, Calling(kind, code, signer)
          PROVE  calls' \in Seq(Call)
      <3>1. PICK c \in Call : calls' = Append(calls, c)
        BY <1>1, <2>1, <2>2 DEF Calling
      <3> QED
        BY <1>1, <3>1
    <2>3. ASSUME NEW i, NEW kind, Answers(i, kind) PROVE calls' \in Seq(Call)
      BY <1>1, <2>3, Removed DEF Answers
    <2>4. "none" \in Otps /\ "none" \in Wallets
      BY DEF Otps, Wallets
    <2>5. CASE Reload
      BY <2>1, <2>4, <2>5 DEF Reload
    <2>6. CASE Remount
      <3>1. PICK c \in Call : calls' = Append(calls, c)
        BY <1>1, <2>1, <2>4, <2>6 DEF Remount
      <3> QED
        BY <1>1, <3>1
    <2>7. CASE UNCHANGED calls
      BY <1>1, <2>7
    <2> QED
      BY <1>1, <2>2, <2>3, <2>4, <2>5, <2>6, <2>7
      DEF ClaimNext, claimVars, AccountChanges, Authenticate, EnterOtp, ResendOtp, Expires,
          TimerEnds, HandleSign, TokenInfoAnswered, SignInAnswered, Resent, FinalizeFails,
          FinalizeAnswered
  <1>4. /\ step' \in Steps /\ otp' \in Otps /\ otpAttempts' \in 0 .. MaxOtpAttempts
    BY <1>1, <1>2
    DEF ClaimNext, claimVars, store, Reload, Remount, AccountChanges, Authenticate, EnterOtp,
        ResendOtp, Expires, TimerEnds, HandleSign, TokenInfoAnswered, SignInAnswered, Resent,
        FinalizeFails, FinalizeAnswered, BackToValidate, BackToSign, Steps, Otps
  <1>5. isLoading' \in BOOLEAN /\ isAuthenticating' \in BOOLEAN
    BY <1>1
    DEF ClaimNext, claimVars, store, showing, Reload, Remount, AccountChanges, Authenticate,
        EnterOtp, ResendOtp, Expires, TimerEnds, HandleSign, TokenInfoAnswered, SignInAnswered,
        Resent, FinalizeFails, FinalizeAnswered
  <1>6. isAuthenticated' \in BOOLEAN
    BY <1>1
    DEF ClaimNext, claimVars, store, showing, Reload, Remount, AccountChanges, Authenticate,
        EnterOtp, ResendOtp, Expires, TimerEnds, HandleSign, TokenInfoAnswered, SignInAnswered,
        Resent, FinalizeFails, FinalizeAnswered
  <1>7. claimed' \in BOOLEAN /\ expired' \in BOOLEAN
    BY <1>1
    DEF ClaimNext, claimVars, Reload, Remount, AccountChanges, Authenticate,
        EnterOtp, ResendOtp, Expires, TimerEnds, HandleSign, TokenInfoAnswered, SignInAnswered,
        Resent, FinalizeFails, FinalizeAnswered
  <1>8. address' \in Wallets
    BY <1>1
    DEF ClaimNext, claimVars, Reload, Remount, AccountChanges, Authenticate,
        EnterOtp, ResendOtp, Expires, TimerEnds, HandleSign, TokenInfoAnswered, SignInAnswered,
        Resent, FinalizeFails, FinalizeAnswered
  <1>9. mount' \in Nat /\ wrong' \in Nat /\ overlapped' \in Nat
    BY <1>1, <1>2a
    DEF ClaimNext, claimVars, showing, ghosts, Reload, Remount, AccountChanges, Authenticate,
        EnterOtp, ResendOtp, Expires, TimerEnds, HandleSign, TokenInfoAnswered, SignInAnswered,
        Resent, FinalizeFails, FinalizeAnswered
  <1> QED
    BY <1>3, <1>4, <1>5, <1>6, <1>7, <1>8, <1>9 DEF ClaimTypeOK

\* No step of the page takes a claim uncounted.
LEMMA ClaimCounts ==
    ASSUME ClaimInv, [ClaimNext]_claimVars
    PROVE  CodesAreCounted'
  <1> USE ClaimAssumption
  <1>1. /\ MaxOtpAttempts \in Nat /\ otpAttempts \in 0 .. MaxOtpAttempts
        /\ calls \in Seq(Call) /\ wrong \in Nat /\ overlapped \in Nat /\ mount \in Nat
        /\ otp \in Otps /\ address \in Wallets
    BY DEF ClaimInv, ClaimTypeOK
  <1> DEFINE p == Pending("finalize")
  <1>2. p \in Nat
    BY <1>1, PendingFinite
  <1>3. /\ wrong + p =< MaxOtpAttempts + overlapped
        /\ step = "sign" /\ p = 0 => wrong < MaxOtpAttempts + overlapped
        /\ otpAttempts < MaxOtpAttempts => wrong =< otpAttempts
        /\ step = "sign" \/ p > 0 => MaxOtpAttempts > 0
    BY DEF ClaimInv, CodesAreCounted
  <1>4. ASSUME UNCHANGED calls PROVE p' = p
    BY <1>4 DEF Pending
  <1>5. ASSUME NEW c \in Call, calls' = Append(calls, c)
        PROVE  p' = IF c.kind = "finalize" THEN p + 1 ELSE p
    BY <1>1, <1>5, CallSent
  <1>6. ASSUME NEW i, NEW kind, Answers(i, kind)
        PROVE  p' = IF kind = "finalize" THEN p - 1 ELSE p
    BY <1>1, <1>6, CallAnswered
  <1>7. ASSUME NEW i, Answers(i, "finalize") PROVE p' = p - 1 /\ p > 0
    BY <1>1, <1>7, CallAnswered
  <1> HIDE DEF p
  <1>8. CASE Reload
    <2>1. \A i \in DOMAIN calls' : calls'[i].kind # "finalize"
      BY <1>8 DEF Reload
    <2>2. {i \in DOMAIN calls' : calls'[i].kind = "finalize"} = {}
      BY <2>1
    <2>3. p' = 0
      BY <2>2, FS_EmptySet DEF p, Pending
    <2> QED
      BY <1>1, <1>8, <2>3 DEF Reload, CodesAreCounted, p
  <1>9. ASSUME p' = p, UNCHANGED <<otpAttempts, wrong, overlapped>>, step' # "sign" \/ step' = step
        PROVE  CodesAreCounted'
    BY <1>3, <1>9 DEF CodesAreCounted, p
  <1>10. CASE Remount
    <2>1. PICK c \in Call : calls' = Append(calls, c) /\ c.kind = "tokenInfo"
      BY <1>1, <1>10 DEF Remount, Call, Otps, Wallets
    <2>2. UNCHANGED <<otpAttempts, wrong, overlapped>> /\ (step' # "sign" \/ step' = step)
      BY <1>10 DEF Remount, ghosts
    <2>3. p' = p
      BY <1>5, <2>1
    <2> QED
      BY <1>9, <2>2, <2>3
  <1>11. CASE Authenticate \/ ResendOtp
    <2>1. PICK c \in Call : calls' = Append(calls, c) /\ c.kind # "finalize"
      BY <1>1, <1>11 DEF Authenticate, ResendOtp, Calling, Call, Otps, Wallets
    <2>2. UNCHANGED <<otpAttempts, wrong, overlapped>> /\ (step' # "sign" \/ step' = step)
      BY <1>11 DEF Authenticate, ResendOtp, ghosts
    <2>3. p' = p
      BY <1>5, <2>1
    <2> QED
      BY <1>9, <2>2, <2>3
  <1>12. ASSUME NEW a \in Wallets, AccountChanges(a) PROVE CodesAreCounted'
    BY <1>4, <1>9, <1>12 DEF AccountChanges, store, ghosts
  <1>13. CASE Expires \/ TimerEnds
    <2>1. UNCHANGED <<calls, otpAttempts, wrong, overlapped>> /\ (step' # "sign" \/ step' = step)
      BY <1>13 DEF Expires, TimerEnds, store, ghosts
    <2> QED
      BY <1>4, <1>9, <2>1
  <1>14. ASSUME NEW i, TokenInfoAnswered(i) \/ SignInAnswered(i) PROVE CodesAreCounted'
    <2>1. p' = p
      BY <1>6, <1>14 DEF TokenInfoAnswered, SignInAnswered
    <2>2. UNCHANGED <<otpAttempts, wrong, overlapped>> /\ (step' # "sign" \/ step' = step)
      BY <1>14 DEF TokenInfoAnswered, SignInAnswered, ghosts
    <2> QED
      BY <1>9, <2>1, <2>2
  <1>15. CASE \E code \in {"wrong", "right"} : EnterOtp(code)
    <2>1. /\ p' = p /\ UNCHANGED <<otpAttempts, wrong, overlapped>>
          /\ step' # "sign" \/ otpAttempts < MaxOtpAttempts
      BY <1>4, <1>15 DEF EnterOtp, ghosts
    <2> QED
      BY <1>1, <1>2, <1>3, <2>1 DEF CodesAreCounted, p
  <1>16. CASE HandleSign
    <2>1. PICK c \in Call : calls' = Append(calls, c) /\ c.kind = "finalize"
      BY <1>1, <1>16 DEF HandleSign, Calling, Call
    <2>2. /\ p' = p + 1 /\ UNCHANGED <<otpAttempts, wrong>>
          /\ overlapped' = overlapped + (IF p = 0 THEN 0 ELSE 1)
          /\ step = "sign" /\ step' = "claiming"
      BY <1>5, <1>16, <2>1 DEF HandleSign, p
    <2> QED
      BY <1>1, <1>2, <1>3, <2>2 DEF CodesAreCounted, p
  <1>17. ASSUME NEW i, Resent(i) PROVE CodesAreCounted'
    <2>1. /\ p' = p /\ overlapped' = p /\ wrong' = 0 /\ otpAttempts' = 0 /\ step' = step
      BY <1>6, <1>17 DEF Resent, p
    <2>2. step' = "sign" /\ p' = 0 => wrong' < MaxOtpAttempts + overlapped'
      BY <1>1, <1>2, <1>3, <2>1
    <2>3. step' = "sign" \/ p' > 0 => MaxOtpAttempts > 0
      BY <1>3, <2>1
    <2>4. wrong' + p' =< MaxOtpAttempts + overlapped'
      BY <1>1, <1>2, <2>1
    <2>5. otpAttempts' < MaxOtpAttempts => wrong' =< otpAttempts'
      BY <2>1
    <2> QED
      BY <2>2, <2>3, <2>4, <2>5 DEF CodesAreCounted, p
  <1>18. ASSUME NEW i, FinalizeFails(i) PROVE CodesAreCounted'
    <2>1. p' = p - 1 /\ p > 0 /\ UNCHANGED <<otpAttempts, wrong, overlapped>>
      BY <1>7, <1>18 DEF FinalizeFails, BackToSign, ghosts
    <2> QED
      BY <1>1, <1>2, <1>3, <2>1 DEF CodesAreCounted, p
  <1>19. ASSUME NEW i, FinalizeAnswered(i) PROVE CodesAreCounted'
    <2>1. p' = p - 1 /\ p > 0 /\ UNCHANGED overlapped
      BY <1>7, <1>19 DEF FinalizeAnswered
    <2>2. \/ BackToValidate /\ wrong' \in {wrong, wrong + 1}
          \/ UNCHANGED <<otpAttempts, wrong>>
      BY <1>19 DEF FinalizeAnswered, BackToSign
    <2>3. CASE BackToValidate /\ wrong' \in {wrong, wrong + 1}
      <3>1. /\ step' = "validate"
            /\ otpAttempts' = IF otpAttempts < MaxOtpAttempts THEN otpAttempts + 1 ELSE otpAttempts
        BY <2>3 DEF BackToValidate
      <3> QED
        BY <1>1, <1>2, <1>3, <2>1, <2>3, <3>1 DEF CodesAreCounted, p
    <2>4. CASE UNCHANGED <<otpAttempts, wrong>>
      BY <1>1, <1>2, <1>3, <2>1, <2>4 DEF CodesAreCounted, p
    <2> QED
      BY <2>2, <2>3, <2>4
  <1>20. CASE UNCHANGED claimVars
    BY <1>4, <1>9, <1>20 DEF claimVars, store, ghosts
  <1> QED
    BY <1>8, <1>10, <1>11, <1>12, <1>13, <1>14, <1>15, <1>16, <1>17, <1>18, <1>19, <1>20
    DEF ClaimNext

\* A page that opens has claimed nothing.
LEMMA ClaimInitial == ClaimInit => ClaimInv
  <1> USE ClaimAssumption
  <1> SUFFICES ASSUME ClaimInit PROVE ClaimInv
    OBVIOUS
  <1>1. [mount |-> 1, kind |-> "tokenInfo", otp |-> "none", signer |-> "none"] \in Call
    BY DEF Call, Otps, Wallets
  <1>2. ClaimTypeOK
    <2>1. calls \in Seq(Call)
      BY <1>1 DEF ClaimInit
    <2>2. 0 \in 0 .. MaxOtpAttempts
      OBVIOUS
    <2>3. step \in Steps /\ otp \in Otps /\ address \in Wallets /\ otpAttempts \in 0 .. MaxOtpAttempts
      BY <2>2 DEF ClaimInit, Steps, Otps, Wallets
    <2>4. {isLoading, isAuthenticating, isAuthenticated, claimed, expired} \subseteq BOOLEAN
      BY DEF ClaimInit
    <2>5. {mount, wrong, overlapped} \subseteq Nat
      BY DEF ClaimInit
    <2> QED
      BY <2>1, <2>3, <2>4, <2>5 DEF ClaimTypeOK
  <1>3. {i \in DOMAIN calls : calls[i].kind = "finalize"} = {}
    BY DEF ClaimInit
  <1>4. Pending("finalize") = 0
    BY <1>3, FS_EmptySet DEF Pending
  <1> QED
    BY <1>2, <1>4 DEF ClaimInit, ClaimInv, CodesAreCounted

\* However often the page is left, shown again, reloaded or sent a new code, and
\* whatever answers come late, every wrong code refused is counted, for any limit.
THEOREM WrongCodesAreFew == ClaimSpec => []WrongCodesAreCounted
  <1> USE ClaimAssumption
  <1>1. ClaimInv => WrongCodesAreCounted
    <2> SUFFICES ASSUME ClaimInv PROVE WrongCodesAreCounted
      OBVIOUS
    <2>1. Pending("finalize") \in Nat /\ wrong \in Nat /\ overlapped \in Nat
      BY PendingFinite DEF ClaimInv, ClaimTypeOK
    <2> QED
      BY <2>1 DEF ClaimInv, CodesAreCounted, WrongCodesAreCounted
  <1>2. ClaimInv /\ [ClaimNext]_claimVars => ClaimInv'
    BY ClaimTypes, ClaimCounts DEF ClaimInv
  <1> QED
    BY <1>1, <1>2, ClaimInitial, PTL DEF ClaimSpec

-----------------------------------------------------------------------------
(* The snap.  A call writes back the whole state it read, so what another  *)
(* wrote since is lost; what a call has read is compared with the snap.    *)

Distinct(state) == \A i, j \in DOMAIN state : state[i].id = state[j].id => i = j

\* What a call will write is made of what it read, and that tells, of every
\* credential nobody wrote since, what the snap has.  A save in its dialog has
\* not read, and a call that clears does not look.
Reads(call) == call.method # "clear_all" /\ ~ (call.method = "save_vc" /\ call.phase = "dialog")

ReadStands(call, state) ==
    /\ Distinct(call.read)
    /\ call.method \in {"delete_vc", "update_vc"} => FindIndex(call.read, call.vcId) # {}
    /\ Reads(call) => \A c \in Credential \ call.changed : Entries(call.read, c) = Entries(state, c)

SnapInv ==
    /\ SnapTypeOK
    /\ \A p \in Page : running[p] # <<>> => ReadStands(running[p][1], vcs)

\* A page that runs a call runs one.
LEMMA OneCall ==
    ASSUME SnapTypeOK, NEW p \in Page, running[p] # <<>>
    PROVE  running[p] = <<running[p][1]>> /\ running[p][1] \in Running
  <1>1. running[p] \in Seq(Running) /\ Len(running[p]) =< 1
    BY DEF SnapTypeOK
  <1>2. Len(running[p]) = 1
    <2>1. \A seq \in Seq(Running) : Len(seq) = 0 => seq = <<>>
      OBVIOUS
    <2>2. Len(running[p]) # 0
      BY <1>1, <2>1
    <2>3. Len(running[p]) \in Nat
      BY <1>1
    <2>4. \A k \in Nat : k # 0 /\ k =< 1 => k = 1
      OBVIOUS
    <2> QED
      BY <1>1, <2>2, <2>3, <2>4
  <1> QED
    BY <1>1, <1>2

\* The fields of a call under way.
LEMMA CallTyped ==
    ASSUME NEW call \in Running
    PROVE  /\ call.method \in Method /\ call.vcId \in Credential /\ call.favorite \in BOOLEAN
           /\ call.phase \in {"dialog", "write"} /\ call.read \in Seq(StoredVC)
           /\ call.changed \in SUBSET Credential
  BY DEF Running

\* An appended credential is the only one that differs.
LEMMA AppendedEntries ==
    ASSUME NEW state \in Seq(StoredVC), NEW vcId \in Credential, FindIndex(state, vcId) = {},
           Distinct(state), NEW vc \in StoredVC, vc.id = vcId, NEW c
    PROVE  /\ Append(state, vc) \in Seq(StoredVC) /\ Distinct(Append(state, vc))
           /\ c # vcId => Entries(Append(state, vc), c) = Entries(state, c)
  <1> DEFINE new == Append(state, vc)
             last == Len(state) + 1
  <1>1. vc \in StoredVC /\ vc.id = vcId
    OBVIOUS
  <1>2. /\ new \in Seq(StoredVC) /\ DOMAIN new = (DOMAIN state) \cup {last} /\ last \notin DOMAIN state
        /\ new[last] = vc /\ \A i \in DOMAIN state : new[i] = state[i]
    BY <1>1
  <1> HIDE DEF new, last
  <1>3. \A i \in DOMAIN state : state[i].id # vcId
    BY DEF FindIndex
  <1>4. Distinct(new)
    BY <1>1, <1>2, <1>3 DEF Distinct
  <1>5. c # vcId => FindIndex(new, c) = FindIndex(state, c)
    BY <1>1, <1>2 DEF FindIndex
  <1>6. c # vcId => Entries(new, c) = Entries(state, c)
    BY <1>2, <1>5 DEF Entries, FindIndex
  <1> QED
    BY <1>2, <1>4, <1>6 DEF new

\* An update in place changes no other credential.
LEMMA UpdatedEntries ==
    ASSUME NEW call \in Running, Distinct(call.read), NEW c
    PROVE  /\ Updated(call) \in Seq(StoredVC) /\ Distinct(Updated(call))
           /\ c # call.vcId => Entries(Updated(call), c) = Entries(call.read, c)
  <1>1. call.read \in Seq(StoredVC) /\ call.favorite \in BOOLEAN
    BY CallTyped
  <1>2. /\ DOMAIN Updated(call) = DOMAIN call.read
        /\ \A i \in DOMAIN call.read :
              /\ Updated(call)[i] \in StoredVC /\ Updated(call)[i].id = call.read[i].id
              /\ call.read[i].id # call.vcId => Updated(call)[i] = call.read[i]
    <2>1. \A i \in DOMAIN call.read : call.read[i] \in StoredVC
      BY <1>1
    <2> QED
      BY <1>1, <2>1 DEF Updated, StoredVC
  <1>3. Updated(call) \in Seq(StoredVC)
    <2>1. DOMAIN call.read = 1 .. Len(call.read) /\ Len(call.read) \in Nat
      BY <1>1
    <2>2. Updated(call) \in [1 .. Len(call.read) -> StoredVC]
      BY <1>2, <2>1 DEF Updated
    <2> QED
      BY <2>1, <2>2
  <1>4. Distinct(Updated(call))
    BY <1>2 DEF Distinct
  <1>5. c # call.vcId => FindIndex(Updated(call), c) = FindIndex(call.read, c)
    BY <1>2 DEF FindIndex
  <1>6. c # call.vcId => Entries(Updated(call), c) = Entries(call.read, c)
    BY <1>2, <1>5 DEF Entries, FindIndex
  <1> QED
    BY <1>3, <1>4, <1>6

\* A removal changes no other credential.
LEMMA DeletedEntries ==
    ASSUME NEW call \in Running, Distinct(call.read), FindIndex(call.read, call.vcId) # {},
           NEW c
    PROVE  /\ Deleted(call) \in Seq(StoredVC) /\ Distinct(Deleted(call))
           /\ c # call.vcId => Entries(Deleted(call), c) = Entries(call.read, c)
  <1> DEFINE i == CHOOSE i \in FindIndex(call.read, call.vcId) : TRUE
             new == Deleted(call)
             n == Len(call.read)
  <1>1. call.read \in Seq(StoredVC) /\ i \in DOMAIN call.read /\ call.read[i].id = call.vcId
    <2>1. i \in FindIndex(call.read, call.vcId)
      OBVIOUS
    <2> QED
      BY <2>1, CallTyped DEF FindIndex
  <1>2. new = RemoveAt(call.read, i)
    BY DEF Deleted
  <1> HIDE DEF i, new
  <1>3. /\ new \in Seq(StoredVC) /\ n \in Nat \ {0} /\ DOMAIN new = 1 .. n - 1
        /\ \A j \in 1 .. n - 1 : new[j] = call.read[IF j < i THEN j ELSE j + 1]
    BY <1>1, <1>2, Removed
  <1>4. DOMAIN call.read = 1 .. n /\ i \in 1 .. n
    BY <1>1
  <1> HIDE DEF n
  <1>5. Distinct(new)
    <2> SUFFICES ASSUME NEW j \in DOMAIN new, NEW k \in DOMAIN new, new[j].id = new[k].id
                 PROVE  j = k
      BY DEF Distinct
    <2> DEFINE J == IF j < i THEN j ELSE j + 1
               K == IF k < i THEN k ELSE k + 1
    <2>1. J \in 1 .. n /\ K \in 1 .. n /\ new[j] = call.read[J] /\ new[k] = call.read[K]
      BY <1>3, <1>4
    <2>2. J = K
      BY <1>4, <2>1 DEF Distinct
    <2> QED
      BY <1>3, <1>4, <2>2
  <1>6. ASSUME c # call.vcId, NEW e PROVE e \in Entries(new, c) <=> e \in Entries(call.read, c)
    <2>1. ASSUME NEW j \in 1 .. n - 1, new[j].id = c
          PROVE  \E k \in 1 .. n : call.read[k] = new[j]
      <3>1. (IF j < i THEN j ELSE j + 1) \in 1 .. n
        BY <1>3, <1>4
      <3> QED
        BY <1>3, <3>1
    <2>2. ASSUME NEW k \in 1 .. n, call.read[k].id = c
          PROVE  \E j \in 1 .. n - 1 : new[j] = call.read[k]
      <3> DEFINE j == IF k < i THEN k ELSE k - 1
      <3>1. k # i
        BY <1>1, <1>6, <2>2
      <3>2. j \in 1 .. n - 1 /\ (IF j < i THEN j ELSE j + 1) = k
        BY <1>3, <1>4, <3>1
      <3> HIDE DEF j
      <3>3. new[j] = call.read[k]
        BY <1>3, <3>2
      <3> QED
        BY <3>2, <3>3
    <2>3. /\ e \in Entries(new, c) <=> \E j \in 1 .. n - 1 : new[j].id = c /\ e = new[j]
          /\ e \in Entries(call.read, c) <=> \E k \in 1 .. n : call.read[k].id = c /\ e = call.read[k]
      BY <1>3, <1>4 DEF Entries, FindIndex
    <2>4. ASSUME e \in Entries(new, c) PROVE e \in Entries(call.read, c)
      BY <2>1, <2>3, <2>4
    <2>5. ASSUME e \in Entries(call.read, c) PROVE e \in Entries(new, c)
      BY <2>2, <2>3, <2>5
    <2> QED
      BY <2>4, <2>5
  <1>7. c # call.vcId => Entries(new, c) = Entries(call.read, c)
    BY <1>6
  <1> QED
    BY <1>3, <1>5, <1>7 DEF new

\* What a call writes is sound, and beyond its own credential as it read it,
\* unless it clears the snap.
LEMMA WrittenEntries ==
    ASSUME NEW call \in Running, NEW state, ReadStands(call, state), call.phase = "write", NEW c \in Credential
    PROVE  /\ NewState(call) \in Seq(StoredVC) /\ Distinct(NewState(call))
           /\ \/ call.method = "clear_all" \/ c = call.vcId
              \/ /\ Reads(call)
                 /\ Entries(NewState(call), c) = Entries(call.read, c)
  <1>1. call.read \in Seq(StoredVC) /\ call.method \in Method /\ call.vcId \in Credential
        /\ Distinct(call.read)
    BY CallTyped DEF ReadStands
  <1>2. CASE call.method = "clear_all"
    BY <1>2 DEF NewState, Distinct
  <1>3. CASE call.method = "update_vc"
    <2>1. NewState(call) = Updated(call) /\ Reads(call)
      BY <1>3 DEF NewState, Reads
    <2> QED
      BY <1>1, <2>1, UpdatedEntries
  <1>4. CASE call.method = "delete_vc"
    <2>1. NewState(call) = Deleted(call) /\ Reads(call)
      BY <1>4 DEF NewState, Reads
    <2>2. FindIndex(call.read, call.vcId) # {}
      BY <1>4 DEF ReadStands
    <2> QED
      BY <1>1, <2>1, <2>2, DeletedEntries
  <1>5. CASE call.method = "save_vc"
    <2>1. NewState(call) = Saved(call) /\ Reads(call)
      BY <1>5 DEF NewState, Reads
    <2>2. CASE FindIndex(call.read, call.vcId) # {}
      BY <1>1, <2>1, <2>2 DEF Saved
    <2>3. CASE FindIndex(call.read, call.vcId) = {}
      <3> DEFINE vc == [id |-> call.vcId, favorite |-> FALSE]
      <3>1. vc \in StoredVC /\ vc.id = call.vcId /\ Saved(call) = Append(call.read, vc)
        BY <1>1, <2>3 DEF Saved, StoredVC
      <3> HIDE DEF vc
      <3>2. /\ Append(call.read, vc) \in Seq(StoredVC) /\ Distinct(Append(call.read, vc))
            /\ c # call.vcId => Entries(Append(call.read, vc), c) = Entries(call.read, c)
        BY <1>1, <2>3, <3>1, AppendedEntries
      <3> QED
        BY <2>1, <3>1, <3>2
    <2> QED
      BY <2>2, <2>3
  <1> QED
    BY <1>1, <1>2, <1>3, <1>4, <1>5 DEF Method

\* A page whose call reads, waits, is refused or goes on leaves the snap as it is.
LEMMA PageGoesOn ==
    ASSUME SnapInv, NEW p \in Page, UNCHANGED vcs, NEW next,
           running' = [running EXCEPT ![p] = next],
           \/ next = <<>>
           \/ \E call \in Running : next = <<call>> /\ ReadStands(call, vcs)
    PROVE  SnapInv'
  <1>1. SnapTypeOK
    BY DEF SnapInv
  <1>2. next \in {<<>>} \cup Seq(Running) /\ Len(next) =< 1
    <2>1. \A call \in Running : <<call>> \in Seq(Running) /\ Len(<<call>>) = 1
      OBVIOUS
    <2>2. CASE next = <<>>
      BY <2>2
    <2>3. CASE \E call \in Running : next = <<call>>
      <3>1. PICK call \in Running : next = <<call>>
        BY <2>3
      <3> QED
        BY <2>1, <3>1
    <2> QED
      BY <2>2, <2>3
  <1>3. /\ running \in [Page -> {<<>>} \cup Seq(Running)]
        /\ \A q \in Page : running'[q] = IF q = p THEN next ELSE running[q]
    BY <1>1 DEF SnapTypeOK
  <1>4. SnapTypeOK'
    BY <1>1, <1>2, <1>3 DEF SnapTypeOK
  <1>6. ASSUME NEW q \in Page, running'[q] # <<>> PROVE ReadStands(running'[q][1], vcs')
    <2>1. CASE q = p
      <3>1. running'[q] = next
        BY <1>3, <2>1
      <3>2. PICK call \in Running : next = <<call>> /\ ReadStands(call, vcs)
        BY <1>6, <3>1
      <3>3. running'[q][1] = call
        BY <3>1, <3>2
      <3> QED
        BY <3>2, <3>3
    <2>2. CASE q # p
      <3>1. running'[q] = running[q]
        BY <1>3, <2>2
      <3> QED
        BY <1>6, <3>1 DEF SnapInv
    <2> QED
      BY <2>1, <2>2
  <1> QED
    BY <1>4, <1>6 DEF SnapInv

\* A call that reads what the snap has as it starts to write.
LEMMA FreshRead ==
    ASSUME SnapInv, NEW method \in Method, NEW vcId \in Credential, NEW favorite \in BOOLEAN,
           NEW phase \in {"dialog", "write"}, NEW read \in {vcs, <<>>},
           read = <<>> => method = "clear_all" \/ (method = "save_vc" /\ phase = "dialog") \/ vcs = <<>>,
           method \in {"delete_vc", "update_vc"} => FindIndex(read, vcId) # {}
    PROVE  \E call \in Running : /\ Calls(method, vcId, favorite, phase, read) = <<call>>
                                 /\ ReadStands(call, vcs)
  <1> DEFINE call == [method |-> method, vcId |-> vcId, favorite |-> favorite,
                      phase |-> phase, read |-> read, changed |-> {}]
  <1>1. vcs \in Seq(StoredVC) /\ Distinct(vcs) /\ Distinct(<<>>)
    BY DEF SnapInv, SnapTypeOK, Distinct
  <1>2. call \in Running
    <2>1. <<>> \in Seq(StoredVC)
      OBVIOUS
    <2>2. read = vcs \/ read = <<>>
      OBVIOUS
    <2>3. read \in Seq(StoredVC)
      BY <1>1, <2>1, <2>2
    <2> QED
      BY <2>3 DEF Running
  <1>3. ReadStands(call, vcs)
    BY <1>1 DEF ReadStands, Reads
  <1> QED
    BY <1>2, <1>3 DEF Calls

\* A write is known to every call that has read, as a change to its credential.
LEMMA WriteKeeps ==
    ASSUME SnapInv, NEW p \in Page, Write(p)
    PROVE  SnapInv'
  <1>1. SnapTypeOK /\ running \in [Page -> {<<>>} \cup Seq(Running)]
    BY DEF SnapInv, SnapTypeOK
  <1> DEFINE call == running[p][1]
             wrote == {c \in Credential : Entries(vcs, c) # Entries(vcs', c)}
  <1>2. call \in Running /\ ReadStands(call, vcs) /\ call.phase = "write" /\ vcs' = NewState(call)
    BY <1>1, OneCall DEF Write, SnapInv
  <1>3. vcs' \in Seq(StoredVC) /\ Distinct(vcs')
    BY <1>2, WrittenEntries, CallTyped
  <1>4. \A q \in Page : running'[q] = IF q = p \/ running[q] = <<>> THEN <<>>
            ELSE <<[running[q][1] EXCEPT !.changed = @ \cup wrote]>>
    BY DEF Write
  <1> HIDE DEF call
  <1>5. ASSUME NEW q \in Page, q # p, running[q] # <<>>
        PROVE  \E new \in Running : running'[q] = <<new>> /\ ReadStands(new, vcs')
    <2> DEFINE old == running[q][1]
               new == [old EXCEPT !.changed = @ \cup wrote]
    <2>1. old \in Running /\ ReadStands(old, vcs)
      BY <1>1, <1>5, OneCall DEF SnapInv
    <2>2. wrote \subseteq Credential
      OBVIOUS
    <2> HIDE DEF old, wrote
    <2>3. /\ new \in Running
          /\ new.read = old.read /\ new.method = old.method /\ new.phase = old.phase
          /\ new.vcId = old.vcId /\ new.changed = old.changed \cup wrote
      BY <2>1, <2>2 DEF Running
    <2> HIDE DEF new
    <2>4. \A c \in Credential \ wrote : Entries(vcs, c) = Entries(vcs', c)
      BY DEF wrote
    <2>5. ReadStands(new, vcs')
      BY <2>1, <2>3, <2>4 DEF ReadStands, Reads
    <2>6. running'[q] = <<new>>
      BY <1>4, <1>5 DEF new, old
    <2> QED
      BY <2>3, <2>5, <2>6
  <1>6. ASSUME NEW q \in Page
        PROVE  /\ running'[q] \in {<<>>} \cup Seq(Running) /\ Len(running'[q]) =< 1
               /\ running'[q] # <<>> => ReadStands(running'[q][1], vcs')
    <2>1. CASE q = p \/ running[q] = <<>>
      <3>1. running'[q] = <<>> /\ Len(<<>>) = 0
        BY <1>4, <2>1
      <3> QED
        BY <3>1
    <2>2. CASE q # p /\ running[q] # <<>>
      <3>1. PICK new \in Running : running'[q] = <<new>> /\ ReadStands(new, vcs')
        BY <1>5, <2>2
      <3>2. <<new>> \in Seq(Running) /\ Len(<<new>>) = 1 /\ <<new>>[1] = new
        OBVIOUS
      <3> QED
        BY <3>1, <3>2
    <2> QED
      BY <2>1, <2>2
  <1>7. running' \in [Page -> {<<>>} \cup Seq(Running)]
    BY <1>6 DEF Write
  <1> QED
    BY <1>3, <1>6, <1>7 DEF SnapInv, SnapTypeOK, Distinct

\* No call breaks the invariant.
LEMMA SnapStep ==
    ASSUME SnapInv, [SnapNext]_snapVars
    PROVE  SnapInv'
  <1>1. SnapTypeOK
    BY DEF SnapInv
  <1>2. \A vcId \in Credential : FindIndex(<<>>, vcId) = {}
    BY DEF FindIndex
  <1>3. ASSUME NEW p \in Page, NEW vcId \in Credential, AskToSave(p, vcId) PROVE SnapInv'
    <2>1. \E call \in Running : /\ Calls("save_vc", vcId, FALSE, "dialog", <<>>) = <<call>>
                                /\ ReadStands(call, vcs)
      BY FreshRead DEF Method
    <2> QED
      BY <1>3, <2>1, PageGoesOn DEF AskToSave
  <1>4. ASSUME NEW p \in Page, NEW vcId \in Credential, AskToDelete(p, vcId) PROVE SnapInv'
    <2>1. FindIndex(vcs, vcId) # {}
      BY <1>4 DEF AskToDelete
    <2>2. \E call \in Running : /\ Calls("delete_vc", vcId, FALSE, "dialog", vcs) = <<call>>
                                /\ ReadStands(call, vcs)
      BY <2>1, FreshRead DEF Method
    <2> QED
      BY <1>4, <2>2, PageGoesOn DEF AskToDelete
  <1>5. ASSUME NEW p \in Page, NEW vcId \in Credential, NEW favorite \in BOOLEAN,
               ReadToUpdate(p, vcId, favorite)
        PROVE  SnapInv'
    <2>1. FindIndex(vcs, vcId) # {}
      BY <1>5 DEF ReadToUpdate
    <2>2. \E call \in Running : /\ Calls("update_vc", vcId, favorite, "write", vcs) = <<call>>
                                /\ ReadStands(call, vcs)
      BY <2>1, FreshRead DEF Method
    <2> QED
      BY <1>5, <2>2, PageGoesOn DEF ReadToUpdate
  <1>6. ASSUME NEW p \in Page, ReadToClear(p) PROVE SnapInv'
    <2> DEFINE vcId == CHOOSE c \in Credential : TRUE
    <2>1. vcId \in Credential
      BY SnapAssumption
    <2>2. running' = [running EXCEPT ![p] = Calls("clear_all", vcId, FALSE, "write", <<>>)]
          /\ UNCHANGED vcs
      BY <1>6 DEF ReadToClear
    <2> HIDE DEF vcId
    <2>3. \E call \in Running : /\ Calls("clear_all", vcId, FALSE, "write", <<>>) = <<call>>
                                /\ ReadStands(call, vcs)
      BY <2>1, FreshRead DEF Method
    <2> QED
      BY <2>2, <2>3, PageGoesOn
  <1>7. ASSUME NEW p \in Page, Refuse(p) PROVE SnapInv'
    BY <1>7, PageGoesOn DEF Refuse
  <1>8. ASSUME NEW p \in Page, Confirm(p) PROVE SnapInv'
    <2> DEFINE call == running[p][1]
    <2>1. /\ call \in Running /\ ReadStands(call, vcs) /\ call.phase = "dialog" /\ UNCHANGED vcs
          /\ running \in [Page -> {<<>>} \cup Seq(Running)]
      BY <1>1, <1>8, OneCall DEF Confirm, SnapInv, SnapTypeOK
    <2>2. CASE call.method = "save_vc"
      <3>1. running' = [running EXCEPT ![p] = Calls("save_vc", call.vcId, FALSE, "write", vcs)]
        BY <1>8, <2>1, <2>2 DEF Confirm
      <3>2. call.vcId \in Credential
        BY <2>1, CallTyped
      <3> HIDE DEF call
      <3>3. \E new \in Running : /\ Calls("save_vc", call.vcId, FALSE, "write", vcs) = <<new>>
                                 /\ ReadStands(new, vcs)
        BY <3>2, FreshRead DEF Method
      <3> QED
        BY <2>1, <3>1, <3>3, PageGoesOn
    <2>3. CASE call.method # "save_vc"
      <3> DEFINE new == [call EXCEPT !.phase = "write"]
      <3>1. running' = [running EXCEPT ![p] = <<new>>]
        BY <1>8, <2>1, <2>3 DEF Confirm
      <3> HIDE DEF call
      <3>2. /\ new \in Running /\ new.read = call.read /\ new.method = call.method
            /\ new.vcId = call.vcId /\ new.changed = call.changed
        BY <2>1 DEF Running
      <3> HIDE DEF new
      <3>3. ReadStands(new, vcs)
        BY <2>1, <2>3, <3>2 DEF ReadStands, Reads
      <3> QED
        BY <2>1, <3>1, <3>2, <3>3, PageGoesOn
    <2> QED
      BY <2>2, <2>3
  <1>9. CASE UNCHANGED snapVars
    BY <1>1, <1>9 DEF snapVars, SnapInv, SnapTypeOK, ReadStands
  <1> QED
    BY <1>3, <1>4, <1>5, <1>6, <1>7, <1>8, <1>9, WriteKeeps DEF SnapNext

\* A write puts back what was written meanwhile, and touches nothing else, for
\* any number of pages, of credentials and of calls that overlap.
THEOREM WritesAreExplained == SnapSpec => OnlyAskedOrOverwritten
  <1>1. SnapInit => SnapInv
    BY DEF SnapInit, SnapInv, SnapTypeOK
  <1> DEFINE Explained ==
        \A c \in Credential :
           Entries(vcs, c) # Entries(vcs', c) =>
              \E p \in Page :
                 /\ running[p] # <<>> /\ running'[p] = <<>>
                 /\ \/ running[p][1].method = "clear_all"
                    \/ running[p][1].vcId = c
                    \/ c \in running[p][1].changed
  <1>2. SnapInv /\ [SnapNext]_snapVars => [Explained]_snapVars
    <2> SUFFICES ASSUME SnapInv, SnapNext, NEW c \in Credential, Entries(vcs, c) # Entries(vcs', c)
                 PROVE  \E p \in Page :
                           /\ running[p] # <<>> /\ running'[p] = <<>>
                           /\ \/ running[p][1].method = "clear_all"
                              \/ running[p][1].vcId = c
                              \/ c \in running[p][1].changed
      OBVIOUS
    <2>1. vcs' # vcs
      OBVIOUS
    <2>2. PICK p \in Page : Write(p)
      BY <2>1 DEF SnapNext, ReadToClear, AskToSave, AskToDelete, ReadToUpdate, Refuse, Confirm
    <2> DEFINE call == running[p][1]
    <2>3. /\ running[p] # <<>> /\ running'[p] = <<>> /\ vcs' = NewState(call)
          /\ call.phase = "write"
      BY <2>2 DEF Write
    <2>4. call \in Running /\ ReadStands(call, vcs)
      BY <2>3, OneCall DEF SnapInv
    <2> HIDE DEF call
    <2>5. \/ call.method = "clear_all" \/ c = call.vcId
          \/ Reads(call) /\ Entries(NewState(call), c) = Entries(call.read, c)
      BY <2>3, <2>4, WrittenEntries
    <2>6. CASE Reads(call) /\ Entries(NewState(call), c) = Entries(call.read, c)
      <3>1. c \in call.changed
        BY <2>3, <2>4, <2>6 DEF ReadStands
      <3> QED
        BY <2>3, <3>1 DEF call
    <2> QED
      BY <2>3, <2>5, <2>6 DEF call
  <1> QED
    BY <1>1, <1>2, SnapStep, PTL DEF SnapSpec, OnlyAskedOrOverwritten

-----------------------------------------------------------------------------
(* The wallet page.  Whatever makes its list of the snap out of date also  *)
(* asks for it again.                                                      *)

Waiting(kind) == \E r \in BagToSet(requests) : r.kind = kind

\* A list that is neither current nor known to be behind is being loaded.
CurrentOrLoading ==
    (~ behind /\ isInstalled /\ account # NoAccount)
        => \/ snapCredentials = snapVCs \cap Of(account)
           \/ Waiting("get_vcs")

WalletInv == WalletPageTypeOK /\ CurrentOrLoading

\* A bag of requests of the page.
Requests(bag) == IsABag(bag) /\ BagToSet(bag) \subseteq Request

\* The bag of one element.
LEMMA Alone ==
    ASSUME NEW q
    PROVE  IsABag(SetToBag({q})) /\ BagToSet(SetToBag({q})) = {q}
  BY DEF SetToBag, IsABag, BagToSet

\* The empty bag.
LEMMA Nothing == Requests(EmptyBag) /\ BagToSet(EmptyBag) = {}
  BY DEF Requests, IsABag, BagToSet, EmptyBag, SetToBag

\* A request the page makes.
LEMMA OneRequest ==
    ASSUME NEW kind \in {"wallet_getSnaps", "install", "get_vcs", "getMyCredentials",
                         "getCredential", "save_vc", "clear_all"},
           NEW who \in Connected, NEW saw \in BOOLEAN, NEW vc \in SUBSET Held
    PROVE  /\ Requests(One(kind, who, saw, vc))
           /\ \A q \in BagToSet(One(kind, who, saw, vc)) : q.kind = kind
           /\ BagToSet(One(kind, who, saw, vc)) # {}
  <1> DEFINE q == [kind |-> kind, account |-> who, sawSnap |-> saw, vc |-> vc]
  <1>1. q \in Request /\ q.kind = kind
    BY DEF Request
  <1> HIDE DEF q
  <1>2. One(kind, who, saw, vc) = SetToBag({q})
    BY DEF One, q
  <1>3. IsABag(SetToBag({q})) /\ BagToSet(SetToBag({q})) = {q}
    BY Alone
  <1> QED
    BY <1>1, <1>2, <1>3 DEF Requests

\* A request that goes on with what its closure saw.
LEMMA ThenRequest ==
    ASSUME NEW r \in Request, NEW kind \in {"get_vcs", "getCredential", "save_vc"}
    PROVE  /\ Requests(Then(r, kind))
           /\ \A q \in BagToSet(Then(r, kind)) : q.kind = kind
           /\ BagToSet(Then(r, kind)) # {}
  <1> DEFINE q == [r EXCEPT !.kind = kind]
  <1>1. q \in Request /\ q.kind = kind
    BY DEF Request
  <1> HIDE DEF q
  <1>2. Then(r, kind) = SetToBag({q})
    BY DEF Then, q
  <1>3. IsABag(SetToBag({q})) /\ BagToSet(SetToBag({q})) = {q}
    BY Alone
  <1> QED
    BY <1>1, <1>2, <1>3 DEF Requests

\* Two bags of requests together.
LEMMA BothAre ==
    ASSUME NEW B, NEW C, Requests(B), Requests(C)
    PROVE  Requests(B (+) C) /\ BagToSet(B (+) C) = BagToSet(B) \cup BagToSet(C)
  BY BagAdded DEF Requests

\* The loads of an account ask the snap when there is one.
LEMMA TheLoads ==
    ASSUME NEW who \in Connected, NEW saw \in BOOLEAN
    PROVE  /\ Requests(Loads(who, saw))
           /\ saw => \E q \in BagToSet(Loads(who, saw)) : q.kind = "get_vcs"
  <1>1. Requests(Plain("getMyCredentials"))
    BY OneRequest DEF Plain, Connected
  <1>2. CASE saw
    <2>1. /\ Requests(One("get_vcs", who, saw, {}))
          /\ \E q \in BagToSet(One("get_vcs", who, saw, {})) : q.kind = "get_vcs"
      BY OneRequest
    <2>2. Loads(who, saw) = Plain("getMyCredentials") (+) One("get_vcs", who, saw, {})
      BY <1>2 DEF Loads
    <2> QED
      BY <1>1, <2>1, <2>2, BothAre
  <1>3. CASE ~ saw
    <2>1. Loads(who, saw) = Plain("getMyCredentials") (+) EmptyBag
      BY <1>3 DEF Loads
    <2> QED
      BY <1>1, <1>3, <2>1, Nothing, BothAre
  <1> QED
    BY <1>2, <1>3

\* What is sent joins what waits.
LEMMA SentJoins ==
    ASSUME WalletPageTypeOK, NEW more, Requests(more), Sent(more)
    PROVE  /\ Requests(requests')
           /\ BagToSet(requests') = BagToSet(requests) \cup BagToSet(more)
  <1>1. requests' = requests (+) more /\ Requests(requests)
    BY DEF Sent, WalletPageTypeOK, Requests
  <1> QED
    BY <1>1, BothAre

\* An answer takes one request away and may bring others.
LEMMA AnswerTakes ==
    ASSUME WalletPageTypeOK, NEW r, NEW kind, NEW more, Requests(more),
           Answer(r, kind, more)
    PROVE  /\ Requests(requests') /\ r.kind = kind
           /\ BagToSet(more) \subseteq BagToSet(requests')
           /\ BagToSet(requests) \ {r} \subseteq BagToSet(requests')
  <1> DEFINE rest == requests (-) SetToBag({r})
  <1>1. requests' = rest (+) more /\ r.kind = kind
    BY DEF Answer
  <1>2. Requests(rest) /\ BagToSet(requests) \ {r} \subseteq BagToSet(rest)
    BY BagWithout DEF WalletPageTypeOK, Requests
  <1> HIDE DEF rest
  <1> QED
    BY <1>1, <1>2, BothAre

\* Another answer leaves a load of the snap's list waiting.
LEMMA WaitsStill ==
    ASSUME WalletPageTypeOK, NEW r, NEW kind, NEW more, Requests(more),
           Answer(r, kind, more), kind # "get_vcs"
    PROVE  Waiting("get_vcs") => Waiting("get_vcs")'
  BY AnswerTakes DEF Waiting

\* So does a request that is sent.
LEMMA WaitsToo ==
    ASSUME WalletPageTypeOK, NEW more, Requests(more), Sent(more)
    PROVE  Waiting("get_vcs") => Waiting("get_vcs")'
  BY SentJoins DEF Waiting

\* A page that learns of the snap asks it for its list.
LEMMA LearnedAsks ==
    ASSUME WalletPageTypeOK, NEW r, NEW kind, NEW found \in BOOLEAN, NEW more,
           Requests(more), Learned(r, kind, found, more), kind # "get_vcs"
    PROVE  /\ Requests(requests') /\ r.kind = kind
           /\ {isInstalled, loadingSnap, loadingBackend}' \subseteq BOOLEAN
           /\ Waiting("get_vcs") => Waiting("get_vcs")'
           /\ isInstalled' /\ ~ isInstalled /\ account # NoAccount => Waiting("get_vcs")'
  <1> DEFINE fresh == found /\ ~ isInstalled /\ account # NoAccount
             loads == IF fresh THEN Loads(account, TRUE) ELSE EmptyBag
  <1>1. Answer(r, kind, more (+) loads)
    BY DEF Learned
  <1>2. /\ Requests(loads)
        /\ fresh => \E q \in BagToSet(loads) : q.kind = "get_vcs"
    <2>1. account \in Connected /\ TRUE \in BOOLEAN
      BY DEF WalletPageTypeOK
    <2> QED
      BY <2>1, TheLoads, Nothing
  <1>3. isInstalled' = (isInstalled \/ found)
    BY DEF Learned
  <1>4. {isInstalled, loadingSnap, loadingBackend}' \subseteq BOOLEAN
    BY DEF Learned, WalletPageTypeOK
  <1>5. isInstalled' /\ ~ isInstalled /\ account # NoAccount => fresh
    BY <1>3
  <1> HIDE DEF fresh, loads
  <1>6. Requests(more (+) loads) /\ BagToSet(loads) \subseteq BagToSet(more (+) loads)
    BY <1>2, BothAre
  <1>7. /\ Requests(requests') /\ r.kind = kind
        /\ BagToSet(more (+) loads) \subseteq BagToSet(requests')
    BY <1>1, <1>6, AnswerTakes
  <1>8. Waiting("get_vcs") => Waiting("get_vcs")'
    BY <1>1, <1>6, WaitsStill
  <1>9. fresh => Waiting("get_vcs")'
    BY <1>2, <1>6, <1>7 DEF Waiting
  <1> QED
    BY <1>4, <1>5, <1>7, <1>8, <1>9

\* A step after which nothing is shown that was not, and what waited waits.
LEMMA StillCurrent ==
    ASSUME CurrentOrLoading, Waiting("get_vcs") => Waiting("get_vcs")',
           behind' = behind, account' = account, snapVCs' = snapVCs,
           snapCredentials' = snapCredentials,
           isInstalled' /\ ~ isInstalled /\ account # NoAccount => Waiting("get_vcs")'
    PROVE  CurrentOrLoading'
  BY DEF CurrentOrLoading, Of

\* The page's own steps send one request, or start the loads of an account.
LEMMA SendingKeeps ==
    ASSUME WalletInv,
           \/ \E who \in Connected : AccountsChanged(who)
           \/ HandleInstallSnap \/ RefreshSnap \/ RefreshBackend \/ HandleClearSnap
           \/ \E c \in Held : HandleSaveToSnap(c)
    PROVE  WalletInv'
  <1> USE WalletPageAssumption DEF WalletInv
  <1>1. account \in Connected /\ NoAccount \in Connected
    BY DEF WalletPageTypeOK, Connected
  <1>2. TRUE \in BOOLEAN /\ FALSE \in BOOLEAN /\ isInstalled \in BOOLEAN
        /\ {} \in SUBSET Held
    BY DEF WalletPageTypeOK
  <1>3. ASSUME NEW more, Requests(more), Sent(more), WalletPageTypeOK,
               UNCHANGED <<account, snapInstalled, isInstalled, snapVCs, snapCredentials,
                           backendCredentials, behind>>,
               {loadingSnap, loadingBackend, snapLoading}' \subseteq BOOLEAN,
               savingToSnapId' \subseteq Held
        PROVE  WalletInv'
    <2>1. Requests(requests')
      BY <1>3, SentJoins
    <2>2. WalletPageTypeOK'
      BY <1>3, <2>1 DEF WalletPageTypeOK, Requests
    <2>3. CurrentOrLoading'
      BY <1>3, WaitsToo, StillCurrent
    <2> QED
      BY <2>2, <2>3
  <1>4. ASSUME NEW who \in Connected, AccountsChanged(who) PROVE WalletInv'
    <2>1. CASE who = NoAccount
      <3>1. WalletPageTypeOK'
        BY <1>4, <2>1 DEF AccountsChanged, WalletPageTypeOK
      <3>2. account' = NoAccount
        BY <1>4, <2>1 DEF AccountsChanged
      <3> QED
        BY <3>1, <3>2 DEF CurrentOrLoading
    <2>2. CASE who # NoAccount
      <3>1. /\ Sent(Loads(who, isInstalled)) /\ account' = who
            /\ UNCHANGED <<snapInstalled, isInstalled, snapVCs, snapCredentials,
                           backendCredentials, behind, snapLoading, savingToSnapId>>
            /\ loadingBackend' = TRUE /\ loadingSnap' = (isInstalled \/ loadingSnap)
        BY <1>4, <2>2 DEF AccountsChanged
      <3>2. /\ Requests(Loads(who, isInstalled))
            /\ isInstalled => \E q \in BagToSet(Loads(who, isInstalled)) : q.kind = "get_vcs"
        BY <1>2, TheLoads
      <3>3. /\ Requests(requests')
            /\ BagToSet(Loads(who, isInstalled)) \subseteq BagToSet(requests')
        BY <3>1, <3>2, SentJoins
      <3>4. WalletPageTypeOK'
        BY <3>1, <3>3 DEF WalletPageTypeOK, Requests
      <3>5. isInstalled' => Waiting("get_vcs")'
        BY <3>1, <3>2, <3>3 DEF Waiting
      <3> QED
        BY <3>4, <3>5 DEF CurrentOrLoading
    <2> QED
      BY <2>1, <2>2
  <1>5. CASE HandleInstallSnap
    <2>1. Requests(One("install", account, FALSE, {}))
      BY <1>1, <1>2, OneRequest
    <2> QED
      BY <1>3, <1>5, <2>1 DEF HandleInstallSnap, WalletPageTypeOK
  <1>6. CASE RefreshSnap
    <2>1. Requests(One("get_vcs", account, TRUE, {}))
      BY <1>1, <1>2, OneRequest
    <2> QED
      BY <1>3, <1>6, <2>1 DEF RefreshSnap, WalletPageTypeOK
  <1>7. CASE RefreshBackend
    <2>1. Requests(Plain("getMyCredentials"))
      BY <1>1, <1>2, OneRequest DEF Plain
    <2> QED
      BY <1>3, <1>7, <2>1 DEF RefreshBackend, WalletPageTypeOK
  <1>8. CASE HandleClearSnap
    <2>1. Requests(Plain("clear_all"))
      BY <1>1, <1>2, OneRequest DEF Plain
    <2> QED
      BY <1>3, <1>8, <2>1 DEF HandleClearSnap, WalletPageTypeOK, flags
  <1>9. ASSUME NEW c \in Held, HandleSaveToSnap(c) PROVE WalletInv'
    <2> DEFINE kind == IF isInstalled THEN "getCredential" ELSE "install"
    <2>1. {c} \in SUBSET Held
      OBVIOUS
    <2>2. Requests(One(kind, account, isInstalled, {c}))
      BY <1>1, <1>2, <2>1, OneRequest
    <2>3. Sent(One(kind, account, isInstalled, {c}))
      BY <1>9 DEF HandleSaveToSnap
    <2> HIDE DEF kind
    <2> QED
      BY <1>3, <1>9, <2>2, <2>3 DEF HandleSaveToSnap, WalletPageTypeOK
  <1> QED
    BY <1>4, <1>5, <1>6, <1>7, <1>8, <1>9

\* An answer brings the page up to date, leaves it as it was, or shows nothing
\* and knows that it does.
LEMMA AnswersKeep ==
    ASSUME WalletInv, NEW r \in BagToSet(requests),
           \/ SnapChecked(r) \/ Installed(r) \/ SnapLoaded(r) \/ BackendLoaded(r)
           \/ FullVCFetched(r) \/ SavedToSnap(r) \/ SnapCleared(r)
    PROVE  WalletInv'
  <1> USE WalletPageAssumption DEF WalletInv
  <1>1. r \in Request /\ r.vc \in SUBSET Held
    BY DEF WalletPageTypeOK, Request
  <1>2. TRUE \in BOOLEAN /\ FALSE \in BOOLEAN
    OBVIOUS
  <1>3. Requests(EmptyBag)
    BY Nothing
  <1>4. Ends(r) => savingToSnapId' \subseteq Held
    BY DEF Ends, WalletPageTypeOK
  <1>5. CASE SnapChecked(r)
    <2>1. PICK found \in {FALSE, snapInstalled} :
              Learned(r, "wallet_getSnaps", found, EmptyBag)
      BY <1>5 DEF SnapChecked
    <2>2. found \in BOOLEAN
      BY <1>2 DEF WalletPageTypeOK
    <2>3. /\ Requests(requests')
          /\ {isInstalled, loadingSnap, loadingBackend}' \subseteq BOOLEAN
          /\ Waiting("get_vcs") => Waiting("get_vcs")'
          /\ isInstalled' /\ ~ isInstalled /\ account # NoAccount => Waiting("get_vcs")'
      BY <1>3, <2>1, <2>2, LearnedAsks
    <2>4. WalletPageTypeOK'
      BY <1>5, <2>3 DEF SnapChecked, WalletPageTypeOK, Requests
    <2>5. CurrentOrLoading'
      BY <1>5, <2>3, StillCurrent DEF SnapChecked
    <2> QED
      BY <2>4, <2>5
  <1>6. CASE Installed(r)
    <2>1. ASSUME NEW found \in BOOLEAN, NEW more, Requests(more),
                 Learned(r, "install", found, more),
                 UNCHANGED <<account, snapVCs, backendCredentials>>, snapLoading' = FALSE,
                 snapInstalled' \in BOOLEAN, savingToSnapId' \subseteq Held,
                 \/ UNCHANGED <<snapCredentials, behind>>
                 \/ snapCredentials' = {} /\ behind' = TRUE
          PROVE  WalletInv'
      <3>1. /\ Requests(requests')
            /\ {isInstalled, loadingSnap, loadingBackend}' \subseteq BOOLEAN
            /\ Waiting("get_vcs") => Waiting("get_vcs")'
            /\ isInstalled' /\ ~ isInstalled /\ account # NoAccount => Waiting("get_vcs")'
        BY <2>1, LearnedAsks
      <3>2. WalletPageTypeOK'
        BY <2>1, <3>1 DEF WalletPageTypeOK, Requests
      <3>3. CurrentOrLoading'
        <4>1. CASE behind' = TRUE
          BY <4>1 DEF CurrentOrLoading
        <4>2. CASE UNCHANGED <<snapCredentials, behind>>
          BY <2>1, <3>1, <4>2, StillCurrent
        <4> QED
          BY <2>1, <4>1, <4>2
      <3> QED
        BY <3>2, <3>3
    <2>2. Requests(Then(r, "getCredential"))
      BY <1>1, ThenRequest
    <2>3. UNCHANGED <<account, snapVCs, backendCredentials>> /\ snapLoading' = FALSE
      BY <1>6 DEF Installed
    <2>4. CASE /\ Learned(r, "install", FALSE, EmptyBag) /\ Ends(r)
               /\ UNCHANGED <<snapInstalled, snapCredentials, behind>>
      <3>1. snapInstalled' \in BOOLEAN /\ savingToSnapId' \subseteq Held
        BY <1>4, <2>4 DEF WalletPageTypeOK
      <3> QED
        BY <1>2, <1>3, <2>1, <2>3, <2>4, <3>1
    <2>5. CASE /\ Learned(r, "install", TRUE, EmptyBag)
               /\ snapInstalled' = TRUE /\ snapCredentials' = {} /\ behind' = TRUE
               /\ UNCHANGED savingToSnapId
      <3>1. snapInstalled' \in BOOLEAN /\ savingToSnapId' \subseteq Held
        BY <1>2, <2>5 DEF WalletPageTypeOK
      <3> QED
        BY <1>2, <1>3, <2>1, <2>3, <2>5, <3>1
    <2>6. CASE /\ Learned(r, "install", TRUE, Then(r, "getCredential"))
               /\ snapInstalled' = TRUE
               /\ UNCHANGED <<snapCredentials, savingToSnapId, behind>>
      <3>1. snapInstalled' \in BOOLEAN /\ savingToSnapId' \subseteq Held
        BY <1>2, <2>6 DEF WalletPageTypeOK
      <3> QED
        BY <1>2, <2>1, <2>2, <2>3, <2>6, <3>1
    <2> QED
      BY <1>6, <2>4, <2>5, <2>6 DEF Installed
  <1>7. CASE SnapLoaded(r)
    <2>1. Requests(requests')
      BY <1>3, <1>7, AnswerTakes DEF SnapLoaded
    <2>2. PICK ok \in BOOLEAN :
              /\ snapCredentials' = IF ok THEN snapVCs \cap Of(r.account) ELSE {}
              /\ behind' = ~ (ok /\ r.account = account)
      BY <1>7 DEF SnapLoaded
    <2>3. behind' \in BOOLEAN /\ snapCredentials' \in SUBSET Held
      BY <2>2 DEF Of
    <2>4. WalletPageTypeOK'
      BY <1>4, <1>7, <2>1, <2>3 DEF SnapLoaded, WalletPageTypeOK, Requests
    <2>5. CurrentOrLoading'
      BY <1>7, <2>2 DEF SnapLoaded, CurrentOrLoading, Of
    <2> QED
      BY <2>4, <2>5
  <1>8. CASE BackendLoaded(r)
    <2>1. Requests(requests') /\ (Waiting("get_vcs") => Waiting("get_vcs")')
      BY <1>3, <1>8, AnswerTakes, WaitsStill DEF BackendLoaded
    <2>2. backendCredentials' \in SUBSET Held
      BY <1>8 DEF BackendLoaded, Of, WalletPageTypeOK
    <2>3. WalletPageTypeOK'
      BY <1>8, <2>1, <2>2 DEF BackendLoaded, WalletPageTypeOK, Requests
    <2>4. CurrentOrLoading'
      BY <1>8, <2>1, StillCurrent DEF BackendLoaded
    <2> QED
      BY <2>3, <2>4
  <1>9. CASE FullVCFetched(r)
    <2>1. Requests(Then(r, "save_vc"))
      BY <1>1, ThenRequest
    <2>2. Requests(requests') /\ (Waiting("get_vcs") => Waiting("get_vcs")')
      BY <1>3, <1>9, <2>1, AnswerTakes, WaitsStill DEF FullVCFetched
    <2>3. savingToSnapId' \subseteq Held
      BY <1>4, <1>9 DEF FullVCFetched, WalletPageTypeOK
    <2>4. WalletPageTypeOK'
      BY <1>9, <2>2, <2>3 DEF FullVCFetched, WalletPageTypeOK, Requests
    <2>5. CurrentOrLoading'
      BY <1>9, <2>2, StillCurrent DEF FullVCFetched
    <2> QED
      BY <2>4, <2>5
  <1>10. CASE SavedToSnap(r)
    <2>1. /\ Requests(Then(r, "get_vcs"))
          /\ \E q \in BagToSet(Then(r, "get_vcs")) : q.kind = "get_vcs"
      BY <1>1, ThenRequest
    <2>2. UNCHANGED <<account, snapInstalled, isInstalled, backendCredentials,
                      loadingBackend, snapLoading>>
      BY <1>10 DEF SavedToSnap
    <2>3. CASE /\ Answer(r, "save_vc", EmptyBag) /\ Ends(r)
               /\ UNCHANGED <<snapVCs, snapCredentials, loadingSnap, behind>>
      <3>1. Requests(requests') /\ (Waiting("get_vcs") => Waiting("get_vcs")')
        BY <1>3, <2>3, AnswerTakes, WaitsStill
      <3>2. WalletPageTypeOK'
        BY <1>4, <2>2, <2>3, <3>1 DEF WalletPageTypeOK, Requests
      <3>3. CurrentOrLoading'
        BY <2>2, <2>3, <3>1, StillCurrent
      <3> QED
        BY <3>2, <3>3
    <2>4. CASE /\ r.sawSnap
               /\ Answer(r, "save_vc", Then(r, "get_vcs"))
               /\ snapVCs' = snapVCs \cup r.vc /\ loadingSnap' = TRUE
               /\ UNCHANGED <<snapCredentials, savingToSnapId, behind>>
      <3>1. Requests(requests') /\ BagToSet(Then(r, "get_vcs")) \subseteq BagToSet(requests')
        BY <2>1, <2>4, AnswerTakes
      <3>2. WalletPageTypeOK'
        BY <1>1, <2>2, <2>4, <3>1 DEF WalletPageTypeOK, Requests
      <3>3. Waiting("get_vcs")'
        BY <2>1, <3>1 DEF Waiting
      <3> QED
        BY <3>2, <3>3 DEF CurrentOrLoading
    <2>5. CASE /\ ~ r.sawSnap
               /\ Answer(r, "save_vc", EmptyBag) /\ Ends(r)
               /\ snapVCs' = snapVCs \cup r.vc
               /\ snapCredentials' = {} /\ behind' = TRUE
               /\ UNCHANGED loadingSnap
      <3>1. Requests(requests')
        BY <1>3, <2>5, AnswerTakes
      <3>2. WalletPageTypeOK'
        BY <1>1, <1>4, <2>2, <2>5, <3>1 DEF WalletPageTypeOK, Requests
      <3> QED
        BY <2>5, <3>2 DEF CurrentOrLoading
    <2> QED
      BY <1>10, <2>3, <2>4, <2>5 DEF SavedToSnap
  <1>11. CASE SnapCleared(r)
    <2>1. Requests(requests') /\ (Waiting("get_vcs") => Waiting("get_vcs")')
      BY <1>3, <1>11, AnswerTakes, WaitsStill DEF SnapCleared
    <2>2. WalletPageTypeOK'
      BY <1>11, <2>1 DEF SnapCleared, WalletPageTypeOK, Requests, flags
    <2>3. CASE snapVCs' = {} /\ snapCredentials' = {}
      BY <2>2, <2>3 DEF CurrentOrLoading
    <2>4. CASE UNCHANGED <<snapVCs, snapCredentials, behind>>
      BY <1>11, <2>1, <2>2, <2>4, StillCurrent DEF SnapCleared
    <2> QED
      BY <1>11, <2>3, <2>4 DEF SnapCleared
  <1> QED
    BY <1>5, <1>6, <1>7, <1>8, <1>9, <1>10, <1>11

\* No step of the page breaks its invariant.
LEMMA WalletStep ==
    ASSUME WalletInv, [WalletPageNext]_pageVars
    PROVE  WalletInv'
  <1>1. CASE UNCHANGED pageVars
    BY <1>1 DEF pageVars, flags, WalletInv, WalletPageTypeOK, CurrentOrLoading, Waiting, Of
  <1>2. CASE WalletPageNext
    BY <1>2, SendingKeeps, AnswersKeep DEF WalletPageNext
  <1> QED
    BY <1>1, <1>2

\* A page that opens has no list and no snap.
LEMMA WalletStarts ==
    ASSUME WalletPageInit
    PROVE  WalletInv
  <1> USE WalletPageAssumption
  <1>1. account \in Connected /\ NoAccount \in Connected
    BY DEF WalletPageInit, Connected
  <1>2. TRUE \in BOOLEAN /\ FALSE \in BOOLEAN /\ {} \in SUBSET Held
    OBVIOUS
  <1>3. Requests(Plain("wallet_getSnaps"))
    BY <1>1, <1>2, OneRequest DEF Plain
  <1>4. Requests(Loads(account, FALSE)) /\ Requests(EmptyBag)
    BY <1>1, <1>2, TheLoads, Nothing
  <1>5. Requests(IF account = NoAccount THEN EmptyBag ELSE Loads(account, FALSE))
    BY <1>4
  <1>6. Requests(requests)
    BY <1>3, <1>5, BothAre DEF WalletPageInit
  <1>7. WalletPageTypeOK
    BY <1>1, <1>2, <1>6 DEF WalletPageInit, WalletPageTypeOK, Requests
  <1>8. CurrentOrLoading
    BY DEF WalletPageInit, CurrentOrLoading
  <1> QED
    BY <1>7, <1>8 DEF WalletInv

\* The wallet page shows a list of what the snap holds for its account, loads it,
\* or knows that it does not have it (app/wallet/page.tsx).
THEOREM WalletInductive == WalletPageSpec => []WalletInv
  <1>1. WalletInv /\ [WalletPageNext]_pageVars => WalletInv'
    BY WalletStep
  <1> QED
    BY <1>1, WalletStarts, PTL DEF WalletPageSpec

\* A page that waits for nothing shows what the snap holds for the account connected,
\* unless its last load failed or came too late (loadSnapCredentials of
\* app/wallet/page.tsx).
THEOREM ListsAreCurrent == WalletPageSpec => []SnapListIsCurrent
  <1>1. WalletInv => SnapListIsCurrent
    BY Nothing DEF WalletInv, CurrentOrLoading, SnapListIsCurrent, Waiting
  <1> QED
    BY <1>1, WalletInductive, PTL

-----------------------------------------------------------------------------
(* The issuer's database.                                                  *)

\* A save is that of the first job and has emptied the file.
SavesAll ==
    saving =>
        /\ jobs # << >>
        /\ db.state = "whole" /\ answered \subseteq db.done
        /\ Head(jobs).step = "call" => Head(jobs).call \in db.done
        /\ ~memory => file = Blank("empty")

\* Calls that wait for init come before those that went past it, all of them
\* do before the first init ends, and in memory none is left once a call was
\* answered.
InitsFirst ==
    /\ \A i, j \in DOMAIN jobs : i < j /\ jobs[j].step = "init" => jobs[i].step = "init"
    /\ ~ready => \A i \in DOMAIN jobs : jobs[i].step = "init"
    /\ memory /\ answered # {} => ready /\ \A i \in DOMAIN jobs : jobs[i].step = "call"

\* Nothing was answered from no file, and none is written for ':memory:'.
NoFileYet ==
    /\ memory => file.state = "absent"
    /\ ~memory /\ file.state = "absent" => answered = {}

\* The columns of a database that was opened, initialized or not.
ColumnsAdded ==
    db.state = "whole" /\ db.cols # Columns
        => db.issuances /\ ~({"created_at", "updated_at"} \subseteq db.cols)

DbInv ==
    /\ DbTypeOK /\ AnsweredIsKept /\ AnsweredIsServed
    /\ SavesAll /\ InitsFirst /\ NoFileYet /\ ColumnsAdded

LEMMA BlankType == \A s \in {"absent", "empty", "torn", "whole"} :
    Blank(s) \in Image /\ Blank(s).state = s /\ Blank(s).done = {}
  BY DEF Blank, Image

LEMMA FreshType == Fresh \in Image /\ Fresh.state = "whole" /\ Fresh.done = {} /\ Fresh.cols = Columns
  BY DEF Fresh, Blank, Image

\* The columns by name.
LEMMA ColumnNames ==
    /\ DOMAIN AddedColumns = 1 .. 9
    /\ Columns = {"vc_data", "vc_holder", "data", "status", "created_at", "updated_at",
                  "holder_address", "name", "email"}
    /\ AddedColumns[5] = "created_at" /\ AddedColumns[6] = "updated_at"
    /\ \A i \in 1 .. 9 : /\ AddedColumns[i] = "created_at" => i = 5
                         /\ AddedColumns[i] = "updated_at" => i = 6
  BY DEF AddedColumns, Columns

\* The migration keeps the rows, and adds every column or stops at one that
\* issuances, having rows, cannot take.
LEMMA Migration ==
    ASSUME NEW image \in Image
    PROVE  LET new == Migrated(image) IN
           /\ new \in Image /\ new.state = image.state /\ new.done = image.done
           /\ image.cols \subseteq new.cols
           /\ new.cols # Columns
                 => new.issuances /\ ~({"created_at", "updated_at"} \subseteq new.cols)
  <1> DEFINE added == {i \in DOMAIN AddedColumns :
                          \A j \in 1 .. i : ~Refused(image, AddedColumns[j])}
             names == {AddedColumns[i] : i \in added}
             new == Migrated(image)
  <1>1. names \subseteq Columns
    BY DEF Columns
  <1>2. new = [image EXCEPT !.cols = @ \cup names]
    BY DEF Migrated
  <1>3. /\ new \in Image /\ new.state = image.state /\ new.done = image.done
        /\ new.issuances = image.issuances /\ new.cols = image.cols \cup names
    <2> HIDE DEF names, new
    <2> QED
      BY <1>1, <1>2 DEF Image
  <1>4. ASSUME new.cols # Columns
        PROVE  new.issuances /\ ~({"created_at", "updated_at"} \subseteq new.cols)
    <2>1. names # Columns
      <3> HIDE DEF names, new
      <3> QED
        BY <1>1, <1>3, <1>4 DEF Image
    <2>2. PICK i \in DOMAIN AddedColumns : AddedColumns[i] \notin names
      BY <1>1, <2>1 DEF Columns
    <2>3. PICK j \in 1 .. i : Refused(image, AddedColumns[j])
      BY <2>2
    <2>4. j \in 1 .. 9
      BY <2>2, <2>3, ColumnNames
    <2>5. /\ image.issuances
          /\ AddedColumns[j] \in {"created_at", "updated_at"} /\ AddedColumns[j] \notin image.cols
      BY <2>3 DEF Refused
    <2>6. AddedColumns[j] \notin names
      <3> SUFFICES ASSUME NEW k \in added, AddedColumns[k] = AddedColumns[j]
                   PROVE  FALSE
        OBVIOUS
      <3>1. k \in 1 .. 9
        BY ColumnNames
      <3>2. k = j
        BY <2>4, <2>5, <3>1, ColumnNames
      <3>3. j \in 1 .. j
        BY <2>4
      <3> QED
        BY <2>3, <3>2, <3>3
    <2> HIDE DEF names, new, added
    <2> QED
      BY <1>3, <2>5, <2>6
  <1> QED
    BY <1>3, <1>4

LEMMA DbInitial == DbInit => DbInv
  <1> SUFFICES ASSUME DbInit PROVE DbInv
    OBVIOUS
  <1>1. file \in Image /\ file.done = {} /\ (memory => file.state = "absent")
    <2>1. CASE file = Blank("absent")
      BY <2>1, BlankType
    <2>2. CASE file \in [state : {"whole"}, cols : {Columns \ d : d \in Dated},
                         issuances : BOOLEAN, done : {{}}]
      BY <2>2 DEF DbInit, Image
    <2> QED
      BY <2>1, <2>2 DEF DbInit
  <1>2. /\ memory \in BOOLEAN /\ ready = FALSE /\ loaded = FALSE /\ saving = FALSE
        /\ db = Blank("absent") /\ jobs = << >> /\ uncalled = DbCalls /\ answered = {}
    BY DEF DbInit
  <1>3. db \in Image /\ db.state = "absent"
    BY <1>2, BlankType
  <1>4. DbTypeOK
    <2>1. << >> \in Seq(DbJob)
      OBVIOUS
    <2>2. file \in Image /\ db \in Image /\ jobs \in Seq(DbJob)
      BY <1>1, <1>2, <1>3, <2>1
    <2>3. uncalled \subseteq DbCalls /\ answered \subseteq DbCalls
      BY <1>2
    <2>4. memory \in BOOLEAN /\ ready \in BOOLEAN /\ loaded \in BOOLEAN /\ saving \in BOOLEAN
      BY <1>2, Zenon
    <2> QED
      BY <2>2, <2>3, <2>4, Zenon DEF DbTypeOK
  <1>5. AnsweredIsKept /\ AnsweredIsServed /\ SavesAll /\ InitsFirst /\ NoFileYet /\ ColumnsAdded
    BY <1>1, <1>2, <1>3
       DEF AnsweredIsKept, AnsweredIsServed, SavesAll, InitsFirst, NoFileYet, ColumnsAdded
  <1> QED
    BY <1>4, <1>5 DEF DbInv

\* One job off the front, or one on the back, leaves the order of the jobs.
LEMMA TailOrder ==
    ASSUME jobs \in Seq(DbJob), jobs # << >>
    PROVE  /\ Head(jobs) \in DbJob /\ Tail(jobs) \in Seq(DbJob)
           /\ 1 \in DOMAIN jobs /\ Head(jobs) = jobs[1]
           /\ \A i \in DOMAIN Tail(jobs) :
                 i \in Nat \ {0} /\ i + 1 \in DOMAIN jobs /\ Tail(jobs)[i] = jobs[i + 1]
  OBVIOUS

LEMMA AppendOrder ==
    ASSUME NEW s \in Seq(DbJob), NEW e \in DbJob
    PROVE  /\ Append(s, e) \in Seq(DbJob)
           /\ \A i \in DOMAIN Append(s, e) :
                 \/ i \in DOMAIN s /\ Append(s, e)[i] = s[i]
                 \/ i = Len(s) + 1 /\ Append(s, e)[i] = e
           /\ \A i \in DOMAIN s : i < Len(s) + 1
           /\ Len(s) + 1 \in Nat
  OBVIOUS

LEMMA CallStep ==
    ASSUME DbInv, NEW c \in DbCalls, CallMethod(c) PROVE DbInv'
  <1> DEFINE e == [step |-> IF ready THEN "call" ELSE "init", call |-> c]
  <1>1. e \in DbJob /\ jobs' = Append(jobs, e) /\ jobs \in Seq(DbJob)
    BY DEF CallMethod, DbJob, DbInv, DbTypeOK
  <1>2. e.step = IF ready THEN "call" ELSE "init"
    OBVIOUS
  <1> HIDE DEF e
  <1>3. /\ ~saving /\ uncalled' \subseteq DbCalls
        /\ UNCHANGED <<memory, file, db, ready, loaded, saving, answered>>
    BY DEF CallMethod, DbInv, DbTypeOK
  <1>4. DbTypeOK'
    BY <1>1, <1>3, AppendOrder DEF DbInv, DbTypeOK
  <1>5. InitsFirst'
    <2>1. \A i \in DOMAIN jobs' :
             (i \in DOMAIN jobs /\ jobs'[i] = jobs[i]) \/ (i = Len(jobs) + 1 /\ jobs'[i] = e)
      BY <1>1, AppendOrder
    <2>2. \A i \in DOMAIN jobs : i < Len(jobs) + 1 /\ i \in Nat
      BY <1>1
    <2>3. Len(jobs) + 1 \in Nat /\ ~(Len(jobs) + 1 < Len(jobs) + 1)
      BY <1>1
    <2>4. \A i, j \in DOMAIN jobs' :
             i < j /\ jobs'[j].step = "init" => jobs'[i].step = "init"
      <3> SUFFICES ASSUME NEW i \in DOMAIN jobs', NEW j \in DOMAIN jobs',
                          i < j, jobs'[j].step = "init"
                   PROVE  jobs'[i].step = "init"
        OBVIOUS
      <3>1. CASE ready
        <4>1. j \in DOMAIN jobs /\ jobs'[j] = jobs[j]
          BY <1>2, <2>1, <3>1
        <4>2. i \in DOMAIN jobs /\ jobs'[i] = jobs[i]
          BY <2>1, <2>2, <4>1, <1>1
        <4> QED
          BY <4>1, <4>2 DEF DbInv, InitsFirst
      <3>2. CASE ~ready
        BY <1>2, <2>1, <3>2 DEF DbInv, InitsFirst
      <3> QED
        BY <3>1, <3>2
    <2>5. ~ready' => \A i \in DOMAIN jobs' : jobs'[i].step = "init"
      BY <1>2, <1>3, <2>1 DEF DbInv, InitsFirst
    <2>6. memory' /\ answered' # {} => ready' /\ \A i \in DOMAIN jobs' : jobs'[i].step = "call"
      BY <1>2, <1>3, <2>1 DEF DbInv, InitsFirst
    <2> QED
      BY <2>4, <2>5, <2>6 DEF InitsFirst
  <1> QED
    BY <1>3, <1>4, <1>5
       DEF DbInv, AnsweredIsKept, AnsweredIsServed, SavesAll, NoFileYet, ColumnsAdded

\* The order survives the end of the first job, whatever the process is ready
\* for, and in memory with an answer only if it was a call.
LEMMA Dequeue ==
    ASSUME DbInv, jobs # << >>, jobs' = Tail(jobs), UNCHANGED <<memory, ready>>,
           answered' = answered \/ answered' = {} \/ Head(jobs).step = "call"
    PROVE  InitsFirst' /\ jobs' \in Seq(DbJob)
  <1>1. /\ jobs \in Seq(DbJob) /\ jobs' \in Seq(DbJob) /\ jobs[1] = Head(jobs)
        /\ \A i \in DOMAIN jobs' :
              i \in Nat \ {0} /\ i + 1 \in DOMAIN jobs /\ jobs'[i] = jobs[i + 1]
        /\ \A i \in DOMAIN jobs : jobs[i].step \in {"init", "call"}
        /\ 1 \in DOMAIN jobs
    <2>1. jobs \in Seq(DbJob)
      BY DEF DbInv, DbTypeOK
    <2>2. \A i \in DOMAIN jobs : jobs[i] \in DbJob
      BY <2>1
    <2>3. \A e \in DbJob : e.step \in {"init", "call"}
      BY DEF DbJob
    <2> QED
      BY <2>1, <2>2, <2>3, TailOrder
  <1>2. \A i, j \in DOMAIN jobs' : i < j /\ jobs'[j].step = "init" => jobs'[i].step = "init"
    <2> SUFFICES ASSUME NEW i \in DOMAIN jobs', NEW j \in DOMAIN jobs',
                        i < j, jobs'[j].step = "init"
                 PROVE  jobs'[i].step = "init"
      OBVIOUS
    <2>1. i + 1 < j + 1
      BY <1>1
    <2> QED
      BY <1>1, <2>1 DEF DbInv, InitsFirst
  <1>3. ~ready' => \A i \in DOMAIN jobs' : jobs'[i].step = "init"
    BY <1>1 DEF DbInv, InitsFirst
  <1>4. ASSUME Head(jobs).step = "call"
        PROVE  ready /\ \A i \in DOMAIN jobs' : jobs'[i].step = "call"
    <2>1. ready
      BY <1>1, <1>4 DEF DbInv, InitsFirst
    <2>2. \A i \in DOMAIN jobs' : 1 < i + 1
      BY <1>1
    <2>3. ASSUME NEW i \in DOMAIN jobs', jobs'[i].step # "call"
          PROVE  FALSE
      <3>1. i + 1 \in DOMAIN jobs /\ jobs[i + 1].step = "init" /\ 1 < i + 1
        BY <1>1, <2>2, <2>3
      <3> QED
        BY <1>1, <1>4, <3>1 DEF DbInv, InitsFirst
    <2> QED
      BY <2>1, <2>3
  <1>5. memory' /\ answered' # {} => ready' /\ \A i \in DOMAIN jobs' : jobs'[i].step = "call"
    <2>1. CASE Head(jobs).step = "call"
      BY <1>4, <2>1
    <2>2. CASE answered' = answered \/ answered' = {}
      BY <1>1, <2>2 DEF DbInv, InitsFirst
    <2> QED
      BY <2>1, <2>2
  <1> QED
    BY <1>1, <1>2, <1>3, <1>5 DEF InitsFirst

LEMMA InitStep ==
    ASSUME DbInv, NEW c \in DbCalls, InitSchema(c) PROVE DbInv'
  <1> DEFINE new == IF Opened.state = "torn" THEN Opened ELSE Migrated(Opened)
  <1>1. /\ DbTypeOK /\ AnsweredIsKept /\ AnsweredIsServed /\ InitsFirst /\ NoFileYet /\ ColumnsAdded
        /\ saving = FALSE /\ jobs # << >> /\ Head(jobs).step = "init" /\ db' = new
        /\ UNCHANGED <<memory, ready, loaded, uncalled>>
    BY DEF InitSchema, Runs, DbInv, DbTypeOK
  <1>2. jobs \in Seq(DbJob) /\ file \in Image /\ answered \subseteq DbCalls
    BY <1>1 DEF DbTypeOK
  <1>3. /\ Opened \in Image
        /\ \/ Opened = file /\ file.state \in {"torn", "whole"}
           \/ Opened = Fresh /\ (answered = {} \/ file.state = "empty")
    <2>1. memory => answered = {}
      BY <1>1, <1>2, TailOrder DEF InitsFirst
    <2> QED
      BY <1>1, <1>2, <2>1, FreshType DEF Opened, NoFileYet, Image
  <1>4. /\ new \in Image /\ new.state = Opened.state /\ new.done = Opened.done
        /\ new.state = "whole" /\ new.cols # Columns
              => new.issuances /\ ~({"created_at", "updated_at"} \subseteq new.cols)
        /\ Opened = Fresh => Indexed(new)
    <2>1. CASE Opened.state = "torn"
      BY <1>3, <2>1, FreshType
    <2>2. CASE Opened.state # "torn"
      <3>1. new = Migrated(Opened)
        BY <2>2
      <3> HIDE DEF new
      <3>2. Opened = Fresh => Columns \subseteq new.cols
        BY <1>3, <3>1, Migration, FreshType
      <3>3. Opened = Fresh => Indexed(new)
        BY <3>2, ColumnNames DEF Indexed
      <3> QED
        BY <1>3, <3>1, <3>3, Migration
    <2> QED
      BY <2>1, <2>2
  <1> HIDE DEF new
  <1>5. Blank("empty") \in Image /\ Blank("empty").state = "empty"
    BY BlankType
  <1>6. new.state = "whole" => answered \subseteq new.done \/ file.state = "empty"
    BY <1>1, <1>3, <1>4, FreshType DEF AnsweredIsKept
  <1>7. ColumnsAdded'
    BY <1>1, <1>4 DEF ColumnsAdded
  <1>8. CASE new.state = "whole" /\ Indexed(new)
    <2>1. /\ saving' = TRUE /\ file' = IF memory THEN file ELSE Blank("empty")
          /\ answered' = IF file.state = "empty" THEN {} ELSE answered
          /\ jobs' = jobs
      BY <1>1, <1>8 DEF InitSchema, BeginSave
    <2>2. DbTypeOK'
      BY <1>1, <1>2, <1>4, <1>5, <2>1 DEF DbTypeOK
    <2>3. AnsweredIsKept' /\ NoFileYet'
      BY <1>1, <1>5, <2>1 DEF AnsweredIsKept, NoFileYet
    <2>4. AnsweredIsServed' /\ SavesAll'
      BY <1>1, <1>6, <1>8, <2>1 DEF AnsweredIsServed, SavesAll
    <2>5. InitsFirst'
      BY <1>1, <2>1 DEF InitsFirst
    <2> QED
      BY <1>7, <2>2, <2>3, <2>4, <2>5 DEF DbInv
  <1>9. CASE ~(new.state = "whole" /\ Indexed(new))
    <2>1. /\ jobs' = Tail(jobs) /\ UNCHANGED <<file, saving, answered>>
          /\ Opened # Fresh
      BY <1>1, <1>3, <1>4, <1>9, FreshType DEF InitSchema, Rejects
    <2>2. InitsFirst' /\ jobs' \in Seq(DbJob)
      BY <1>1, <2>1, Dequeue
    <2>3. DbTypeOK'
      BY <1>1, <1>2, <1>4, <2>1, <2>2 DEF DbTypeOK
    <2>4. AnsweredIsServed'
      BY <1>1, <1>3, <1>4, <2>1 DEF AnsweredIsServed, AnsweredIsKept
    <2>5. AnsweredIsKept' /\ NoFileYet' /\ SavesAll'
      BY <1>1, <2>1 DEF AnsweredIsKept, NoFileYet, SavesAll
    <2> QED
      BY <1>7, <2>2, <2>3, <2>4, <2>5 DEF DbInv
  <1> QED
    BY <1>8, <1>9

LEMMA WriteStep ==
    ASSUME DbInv, NEW c \in DbCalls, NEW needs, NEW issues \in BOOLEAN,
           WriteRow(c, needs, issues)
    PROVE  DbInv'
  <1>1. /\ DbTypeOK /\ AnsweredIsKept /\ AnsweredIsServed /\ InitsFirst /\ NoFileYet /\ ColumnsAdded
        /\ saving = FALSE /\ jobs # << >> /\ Head(jobs) = [step |-> "call", call |-> c]
        /\ UNCHANGED <<memory, ready, loaded, uncalled>>
    BY DEF WriteRow, Runs, DbInv, DbTypeOK
  <1>2. jobs \in Seq(DbJob) /\ file \in Image /\ db \in Image /\ answered \subseteq DbCalls
    BY <1>1 DEF DbTypeOK
  <1>3. CASE db.state = "whole" /\ needs \subseteq db.cols
    <2> DEFINE new == [db EXCEPT !.done = @ \cup {c}, !.issuances = @ \/ issues]
    <2>1. /\ new \in Image /\ new.state = "whole" /\ new.cols = db.cols
          /\ new.done = db.done \cup {c} /\ (db.issuances => new.issuances)
      BY <1>2, <1>3 DEF Image
    <2>2. /\ saving' = TRUE /\ file' = IF memory THEN file ELSE Blank("empty")
          /\ answered' = answered /\ jobs' = jobs /\ db' = new
      BY <1>3 DEF WriteRow, BeginSave
    <2> HIDE DEF new
    <2>3. ready
      <3>1. jobs[1].step # "init" /\ 1 \in DOMAIN jobs
        BY <1>1, <1>2, TailOrder
      <3> QED
        BY <1>1, <3>1 DEF InitsFirst
    <2>4. answered \subseteq new.done
      BY <1>1, <1>3, <2>1, <2>3 DEF AnsweredIsServed
    <2>5. DbTypeOK'
      BY <1>1, <1>2, <2>1, <2>2, BlankType DEF DbTypeOK
    <2>6. AnsweredIsKept' /\ NoFileYet'
      BY <1>1, <2>2, BlankType DEF AnsweredIsKept, NoFileYet
    <2>7. AnsweredIsServed' /\ SavesAll'
      BY <1>1, <2>1, <2>2, <2>4 DEF AnsweredIsServed, SavesAll
    <2>8. InitsFirst'
      BY <1>1, <2>2 DEF InitsFirst
    <2>9. ColumnsAdded'
      BY <1>1, <1>3, <2>1, <2>2 DEF ColumnsAdded
    <2> QED
      BY <2>5, <2>6, <2>7, <2>8, <2>9 DEF DbInv
  <1>4. CASE ~(db.state = "whole" /\ needs \subseteq db.cols)
    <2>1. jobs' = Tail(jobs) /\ UNCHANGED <<file, db, saving, answered>>
      BY <1>4 DEF WriteRow, Rejects
    <2>2. InitsFirst' /\ jobs' \in Seq(DbJob)
      BY <1>1, <2>1, Dequeue
    <2>3. DbTypeOK'
      BY <1>1, <2>1, <2>2 DEF DbTypeOK
    <2> QED
      BY <1>1, <2>1, <2>2, <2>3
         DEF DbInv, AnsweredIsKept, AnsweredIsServed, SavesAll, NoFileYet, ColumnsAdded
  <1> QED
    BY <1>3, <1>4

LEMMA EndStep ==
    ASSUME DbInv, EndSave PROVE DbInv'
  <1> DEFINE job == Head(jobs)
  <1>1. /\ DbTypeOK /\ AnsweredIsKept /\ InitsFirst /\ NoFileYet /\ ColumnsAdded
        /\ jobs # << >> /\ db.state = "whole" /\ answered \subseteq db.done
        /\ job.step = "call" => job.call \in db.done
        /\ saving' = FALSE /\ file' = IF memory THEN file ELSE db
        /\ UNCHANGED <<memory, db, loaded, uncalled>>
    BY DEF EndSave, DbInv, SavesAll
  <1>2. jobs \in Seq(DbJob) /\ file \in Image /\ db \in Image /\ answered \subseteq DbCalls
    BY <1>1 DEF DbTypeOK
  <1>3. job \in DbJob /\ job = jobs[1] /\ 1 \in DOMAIN jobs
    BY <1>1, <1>2, TailOrder
  <1>4. answered' \subseteq db.done /\ answered' \subseteq DbCalls
    BY <1>1, <1>2, <1>3 DEF EndSave, DbJob
  <1>5. AnsweredIsKept' /\ AnsweredIsServed' /\ SavesAll' /\ ColumnsAdded'
    BY <1>1, <1>4 DEF NoFileYet, AnsweredIsKept, AnsweredIsServed, SavesAll, ColumnsAdded
  <1>6. NoFileYet'
    BY <1>1 DEF NoFileYet
  <1>7. CASE job.step # "init"
    <2>1. jobs' = Tail(jobs) /\ UNCHANGED ready /\ job.step = "call"
      BY <1>3, <1>7 DEF EndSave, DbJob
    <2>2. InitsFirst' /\ jobs' \in Seq(DbJob)
      BY <1>1, <2>1, Dequeue
    <2>3. DbTypeOK'
      BY <1>1, <1>2, <1>4, <2>1, <2>2 DEF DbTypeOK
    <2> QED
      BY <1>5, <1>6, <2>2, <2>3 DEF DbInv
  <1>8. CASE job.step = "init"
    <2> DEFINE rest == Tail(jobs)
               next == [job EXCEPT !.step = "call"]
    <2>1. jobs' = Append(rest, next) /\ ready' = TRUE /\ answered' = answered
      BY <1>8 DEF EndSave
    <2>2. next \in DbJob /\ next.step = "call"
      BY <1>3 DEF DbJob
    <2> HIDE DEF next, job
    <2>3. /\ rest \in Seq(DbJob)
          /\ \A i \in DOMAIN rest :
                i \in Nat \ {0} /\ i + 1 \in DOMAIN jobs /\ rest[i] = jobs[i + 1]
      BY <1>1, <1>2, TailOrder
    <2> HIDE DEF rest
    <2>4. /\ jobs' \in Seq(DbJob)
          /\ \A i \in DOMAIN jobs' :
                \/ i \in DOMAIN rest /\ jobs'[i] = rest[i]
                \/ i = Len(rest) + 1 /\ jobs'[i] = next
          /\ \A i \in DOMAIN rest : i < Len(rest) + 1
          /\ Len(rest) + 1 \in Nat
      BY <2>1, <2>2, <2>3, AppendOrder
    <2>5. memory => answered = {}
      BY <1>1, <1>3, <1>8 DEF InitsFirst
    <2>6. \A i, j \in DOMAIN jobs' :
             i < j /\ jobs'[j].step = "init" => jobs'[i].step = "init"
      <3> SUFFICES ASSUME NEW i \in DOMAIN jobs', NEW j \in DOMAIN jobs',
                          i < j, jobs'[j].step = "init"
                   PROVE  jobs'[i].step = "init"
        OBVIOUS
      <3>1. j \in DOMAIN rest /\ jobs'[j] = rest[j]
        BY <2>2, <2>4
      <3>2. i \in DOMAIN rest /\ jobs'[i] = rest[i]
        <4>1. j < Len(rest) + 1 /\ j \in Nat
          BY <2>3, <2>4, <3>1
        <4> QED
          BY <2>4, <4>1
      <3>3. i + 1 < j + 1
        BY <2>3, <3>1, <3>2
      <3> QED
        BY <1>1, <2>3, <3>1, <3>2, <3>3 DEF InitsFirst
    <2>7. InitsFirst'
      BY <1>1, <2>1, <2>5, <2>6 DEF InitsFirst
    <2>8. DbTypeOK'
      BY <1>1, <1>2, <1>4, <2>1, <2>4 DEF DbTypeOK
    <2> QED
      BY <1>5, <1>6, <2>7, <2>8 DEF DbInv
  <1> QED
    BY <1>7, <1>8

LEMMA ThrowStep ==
    ASSUME DbInv, SaveThrows PROVE DbInv'
  <1>1. /\ DbTypeOK /\ AnsweredIsServed /\ InitsFirst /\ ColumnsAdded
        /\ jobs # << >> /\ saving' = FALSE /\ ~memory
        /\ file' \in {Blank("empty"), Blank("torn")} /\ jobs' = Tail(jobs)
        /\ UNCHANGED <<memory, db, ready, loaded, uncalled, answered>>
    BY DEF SaveThrows, Damaged, DbInv, SavesAll
  <1>2. InitsFirst' /\ jobs' \in Seq(DbJob)
    BY <1>1, Dequeue
  <1>3. file' \in Image /\ file'.state \in {"empty", "torn"}
    BY <1>1, BlankType
  <1>4. DbTypeOK'
    BY <1>1, <1>2, <1>3 DEF DbTypeOK
  <1> QED
    BY <1>1, <1>2, <1>3, <1>4
       DEF DbInv, AnsweredIsKept, AnsweredIsServed, SavesAll, NoFileYet, ColumnsAdded

LEMMA CrashStep ==
    ASSUME DbInv, DbCrash PROVE DbInv'
  <1>1. /\ DbTypeOK /\ AnsweredIsKept /\ SavesAll /\ NoFileYet
        /\ file' \in IF saving /\ ~memory THEN {Blank("empty"), Blank("torn"), db} ELSE {file}
        /\ db' = Blank("absent") /\ ready' = FALSE /\ loaded' = FALSE
        /\ jobs' = << >> /\ saving' = FALSE
        /\ answered' = IF memory THEN {} ELSE answered
        /\ UNCHANGED <<memory, uncalled>>
    BY DEF DbCrash, Damaged, DbInv
  <1>2. file' \in Image /\ db' \in Image /\ db'.state = "absent"
    BY <1>1, BlankType DEF DbTypeOK
  <1>3. AnsweredIsKept' /\ NoFileYet'
    BY <1>1, BlankType DEF AnsweredIsKept, NoFileYet, SavesAll
  <1>4. << >> \in Seq(DbJob) /\ DOMAIN (<< >>) = {}
    OBVIOUS
  <1>5. DbTypeOK'
    BY <1>1, <1>2, <1>4 DEF DbTypeOK
  <1>6. InitsFirst'
    BY <1>1, <1>4 DEF InitsFirst
  <1> QED
    BY <1>1, <1>2, <1>3, <1>5, <1>6
       DEF DbInv, AnsweredIsServed, SavesAll, ColumnsAdded

LEMMA DbStep == DbInv /\ [DbNext]_dbVars => DbInv'
  <1> SUFFICES ASSUME DbInv, [DbNext]_dbVars PROVE DbInv'
    OBVIOUS
  <1> USE DEF SaveVC, SaveVP, SaveIssuance, WriteNonce, WriteIndex, WriteMetadata,
              InsertTrustedIssuerWithMetadata
  <1>1. ASSUME NEW c \in DbCalls, CallMethod(c) PROVE DbInv'
    BY <1>1, CallStep
  <1>2. ASSUME NEW c \in DbCalls, InitSchema(c) PROVE DbInv'
    BY <1>2, InitStep
  <1>3. ASSUME NEW c \in DbCalls,
               \/ SaveVC(c) \/ SaveVP(c) \/ SaveIssuance(c) \/ WriteNonce(c) \/ WriteIndex(c)
               \/ WriteMetadata(c) \/ InsertTrustedIssuerWithMetadata(c)
        PROVE  DbInv'
    <2>1. CASE SaveVC(c)
      BY <2>1, WriteStep
    <2>2. CASE SaveVP(c)
      BY <2>2, WriteStep
    <2>3. CASE SaveIssuance(c)
      BY <2>3, WriteStep
    <2>4. CASE WriteNonce(c)
      BY <2>4, WriteStep
    <2>5. CASE WriteIndex(c)
      BY <2>5, WriteStep
    <2>6. CASE WriteMetadata(c)
      BY <2>6, WriteStep
    <2>7. CASE InsertTrustedIssuerWithMetadata(c)
      BY <2>7, WriteStep
    <2> QED
      BY <1>3, <2>1, <2>2, <2>3, <2>4, <2>5, <2>6, <2>7
  <1>4. CASE InitSqlJs
    BY <1>4 DEF InitSqlJs, DbInv, DbTypeOK, AnsweredIsKept, AnsweredIsServed, SavesAll,
                InitsFirst, NoFileYet, ColumnsAdded
  <1>5. CASE UNCHANGED dbVars
    BY <1>5 DEF dbVars, DbInv, DbTypeOK, AnsweredIsKept, AnsweredIsServed, SavesAll,
                InitsFirst, NoFileYet, ColumnsAdded
  <1> QED
    BY <1>1, <1>2, <1>3, <1>4, <1>5, EndStep, ThrowStep, CrashStep DEF DbNext

\* The invariant holds whatever is called, fails or crashes.
THEOREM DbInductive == DbSpec => []DbInv
  BY DbInitial, DbStep, PTL DEF DbSpec

\* File, database and jobs are well-formed.
THEOREM DatabaseIsTyped == DbSpec => []DbTypeOK
  BY DbInductive, PTL DEF DbInv

\* A file that opens holds all that was answered since a start found no data,
\* for any number of calls.
THEOREM AnswersAreKept == DbSpec => []AnsweredIsKept
  BY DbInductive, PTL DEF DbInv

\* So does the database in memory, however many inits overlap.
THEOREM AnswersAreServed == DbSpec => []AnsweredIsServed
  BY DbInductive, PTL DEF DbInv

\* A database that is initialized has its columns, unless its issuances could
\* not take a time.
THEOREM ColumnsAreThere == DbSpec => []OpensWithItsColumns
  <1>1. DbInv => OpensWithItsColumns
    BY DEF DbInv, ColumnsAdded, OpensWithItsColumns
  <1> QED
    BY <1>1, DbInductive, PTL

-----------------------------------------------------------------------------
(* The parts side by side.  Only the part that runs moves, and the clock;  *)
(* tokens and codes take the time that passes in another part as a tick of *)
(* their own, logins do not: their tick also tells who is listed.          *)

accessVars == <<now, loginVars, tokenVars, otpVars, claimVars, pageVars, snapVars, dbVars, service>>

\* The clock ticks or stands, whichever part runs.
LEMMA ClockMoves ==
    ASSUME now \in Nat, [Next]_accessVars
    PROVE  now' \in Nat /\ (Tick \/ UNCHANGED now)
  <1> USE MaxTimeAssumption
  <1>1. CASE service = "login" /\ LoginNext
    <2>1. (now' \in {now, now + 1} /\ now' =< MaxTime) \/ UNCHANGED now \/ Tick
      BY <1>1 DEF LoginNext, GenerateNonce, GetExpiredNonce, VerifySIWA, SyncedLogin,
                  CleanupExpiredNonces, Clear, TrustChanges, IndexSynced, LoginTick, Tick
    <2> QED
      BY <2>1 DEF Tick
  <1>2. CASE service = "token" /\ TokenNext
    BY <1>2 DEF TokenNext, Issue, Verify, Revoke, CleanupExpiredTokens, Tick
  <1>3. CASE service = "otp" /\ OtpNext
    BY <1>3 DEF OtpNext, Generate, BadFormat, Blocks, WrongCode, RightCode, BlockEnds,
                Cleanup, Tick
  <1>4. CASE UNCHANGED now
    BY <1>4
  <1> QED
    BY <1>1, <1>2, <1>3, <1>4 DEF Next, accessVars

\* A step of one part is a step of each part's own specification.
LEMMA PartsStep ==
    ASSUME now \in Nat, [Next]_accessVars
    PROVE  /\ service' = service
           /\ service = "login" => [LoginNext]_<<now, loginVars>>
           /\ [TokenNext]_<<now, tokenVars>> /\ [OtpNext]_<<now, otpVars>>
           /\ [ClaimNext]_claimVars /\ [WalletPageNext]_pageVars
           /\ [SnapNext]_snapVars /\ [DbNext]_dbVars
  <1>1. now' \in Nat /\ (Tick \/ UNCHANGED now)
    BY ClockMoves
  <1>2. service' = service
    BY DEF Next, accessVars
  <1>3. \/ service = "token" /\ TokenNext
        \/ UNCHANGED tokenVars
    BY DEF Next, accessVars
  <1>4. \/ service = "otp" /\ OtpNext
        \/ UNCHANGED otpVars
    BY DEF Next, accessVars
  <1>5. [TokenNext]_<<now, tokenVars>>
    BY <1>1, <1>3 DEF TokenNext
  <1>6. [OtpNext]_<<now, otpVars>>
    BY <1>1, <1>4 DEF OtpNext
  <1>7. service = "login" => [LoginNext]_<<now, loginVars>>
    BY DEF Next, accessVars
  <1>8. [ClaimNext]_claimVars
    BY DEF Next, accessVars
  <1>9. [WalletPageNext]_pageVars
    BY DEF Next, accessVars
  <1>10. [SnapNext]_snapVars
    BY DEF Next, accessVars
  <1>11. [DbNext]_dbVars
    BY DEF Next, accessVars
  <1> QED
    BY <1>2, <1>5, <1>6, <1>7, <1>8, <1>9, <1>10, <1>11

\* The clock shows a second.
LEMMA ClockTyped == Spec => [](now \in Nat)
  <1>1. Init => now \in Nat
    BY DEF Init, LoginInit, ClockInit
  <1>2. now \in Nat /\ [Next]_accessVars => (now \in Nat)'
    BY ClockMoves
  <1> QED
    BY <1>1, <1>2, PTL DEF Spec, accessVars

\* Side by side, each part does what its own specification says, and so keeps what
\* is proved of it alone.
THEOREM PartsAreIndependent ==
    Spec => /\ service = "login" => LoginSpec
            /\ TokenSpec /\ OtpSpec /\ ClaimSpec /\ WalletPageSpec /\ SnapSpec /\ DbSpec
  <1>1. Init => /\ LoginInit /\ TokenInit /\ OtpInit /\ ClaimInit /\ WalletPageInit
                /\ SnapInit /\ DbInit
    BY DEF Init
  <1> DEFINE OnlyLogin == service = "login" => [LoginNext]_<<now, loginVars>>
             Stays == service = "login" => (service = "login")'
  <1>2. now \in Nat /\ [Next]_accessVars =>
          /\ OnlyLogin /\ Stays
          /\ [TokenNext]_<<now, tokenVars>> /\ [OtpNext]_<<now, otpVars>>
          /\ [ClaimNext]_claimVars /\ [WalletPageNext]_pageVars
          /\ [SnapNext]_snapVars /\ [DbNext]_dbVars
    BY PartsStep
  <1> QED
    BY <1>1, <1>2, ClockTyped, PTL
       DEF Spec, accessVars, LoginSpec, TokenSpec, OtpSpec, ClaimSpec, WalletPageSpec, SnapSpec,
           DbSpec

\* What a login keeps when another part runs: there is none.
NoLogin == logins = <<>> /\ sessions = {}

\* All that the parts keep, in one.
AccessInv ==
    /\ service = "login" => LoginInv /\ SessionsFade
    /\ service # "login" => LoginTypeOK /\ NoLogin
    /\ TokenInv /\ OtpInv /\ ClaimInv /\ WalletInv /\ SnapInv /\ DbInv

\* The parts' invariants hold together, whichever runs.
THEOREM AccessInductive == Spec => []AccessInv
  <1>1. Init => AccessInv
    <2> SUFFICES ASSUME Init PROVE AccessInv
      OBVIOUS
    <2>1. LoginInv
      BY LoginInitial DEF Init
    <2>2. SessionsFade /\ NoLogin
      BY DEF Init, LoginInit, ClockInit, SessionsFade, NoLogin
    <2>3. TokenInv
      BY TokenAssumption
         DEF Init, TokenInit, ClockInit, TokenInv, TokenTypeOK, AcceptedIsUsed
    <2>4. SnapInv
      BY DEF Init, SnapInit, SnapInv, SnapTypeOK
    <2>5. OtpInv /\ ClaimInv /\ WalletInv /\ DbInv
      BY OtpInitial, ClaimInitial, WalletStarts, DbInitial DEF Init
    <2> QED
      BY <2>1, <2>2, <2>3, <2>4, <2>5 DEF AccessInv, LoginInv
  <1>2. AccessInv /\ [Next]_accessVars => AccessInv'
    <2> SUFFICES ASSUME AccessInv, [Next]_accessVars PROVE AccessInv'
      OBVIOUS
    <2>0. now \in Nat
      BY DEF AccessInv, TokenInv
    <2>1. TokenInv'
      BY <2>0, PartsStep, TokenStep DEF AccessInv
    <2>2. OtpInv'
      BY <2>0, PartsStep, OtpStep DEF AccessInv
    <2>3. ClaimInv'
      BY <2>0, PartsStep, ClaimTypes, ClaimCounts DEF AccessInv, ClaimInv
    <2>4. WalletInv'
      BY <2>0, PartsStep, WalletStep DEF AccessInv
    <2>5. SnapInv'
      BY <2>0, PartsStep, SnapStep DEF AccessInv
    <2>6. DbInv'
      BY <2>0, PartsStep, DbStep DEF AccessInv
    <2>7. service = "login" => (LoginInv /\ SessionsFade)'
      BY <2>0, PartsStep, LoginStep, FadeStep DEF AccessInv
    <2>8. service # "login" => (LoginTypeOK /\ NoLogin)'
      <3> SUFFICES ASSUME service # "login" PROVE (LoginTypeOK /\ NoLogin)'
        OBVIOUS
      <3>1. UNCHANGED <<nonces, challenged, waiting, logins, sessions, trusted, listed, unlisted>>
        BY DEF Next, accessVars, loginVars
      <3> QED
        BY <3>1 DEF AccessInv, LoginTypeOK, NoLogin
    <2>9. service' = service
      BY <2>0, PartsStep
    <2> QED
      BY <2>1, <2>2, <2>3, <2>4, <2>5, <2>6, <2>7, <2>8, <2>9 DEF AccessInv
  <1> QED
    BY <1>1, <1>2, PTL DEF Spec, accessVars

\* Every part's state is well-formed, whichever of them runs.
THEOREM TypeCorrect == Spec => []AccessTypeOK
  <1>1. AccessInv => AccessTypeOK
    BY DEF AccessInv, AccessTypeOK, LoginInv, TokenInv, OtpInv, ClaimInv, WalletInv, SnapInv, DbInv
  <1> QED
    BY <1>1, AccessInductive, PTL

\* Side by side, whichever part runs, all of what is proved of each part holds.
THEOREM AllIsKept ==
    Spec => /\ [](LoginsAreAsked /\ RolesFadeOut)
            /\ [](TokensAreOnce /\ GuessesAreBounded /\ WrongCodesAreCounted)
            /\ [](AnsweredIsKept /\ AnsweredIsServed /\ OpensWithItsColumns)
            /\ []SnapListIsCurrent /\ OnlyAskedOrOverwritten
  <1> DEFINE LoginRuns == service = "login"
  <1>1. AccessInv /\ ~ LoginRuns => LoginsAreAsked /\ RolesFadeOut
    BY DEF AccessInv, NoLogin, LoginsAreAsked, RolesFadeOut
  <1>2. now \in Nat /\ [Next]_accessVars => (~ LoginRuns => (~ LoginRuns)')
    BY PartsStep
  <1>3. Spec => (LoginRuns => LoginSpec)
    BY PartsAreIndependent
  <1> HIDE DEF LoginRuns
  <1>4. Spec => [](LoginsAreAsked /\ RolesFadeOut)
    BY <1>1, <1>2, <1>3, ClockTyped, AccessInductive, NoncesAreSpentOnce, RolesEnd, PTL
       DEF Spec, accessVars
  <1> QED
    BY <1>4, PartsAreIndependent, TokensAreUsedOnce, GuessingIsSlow, WrongCodesAreFew,
       AnswersAreKept, AnswersAreServed, ColumnsAreThere, ListsAreCurrent, WritesAreExplained, PTL

=============================================================================
