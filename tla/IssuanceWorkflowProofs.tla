----------------------- MODULE IssuanceWorkflowProofs -----------------------
(***************************************************************************)
(* Proofs about IssuanceWorkflow, for any number of credentials, wallets   *)
(* and handlers, whether or not the store yields, and with no bound but    *)
(* those the guards name: IndInv is inductive, hence the safety properties.*)
(***************************************************************************)
EXTENDS IssuanceWorkflow, TLAPS

-----------------------------------------------------------------------------
(* The records the actions build are of their types.                       *)

\* The blank records are records.
LEMMA Blank == NoRow \in Row /\ NoDocument \in Document /\ Idle \in Handler
  BY DEF NoRow, Row, Status, NoDocument, Document, Idle, Handler, Pc

\* The row prepare writes.
LEMMA NewRow ==
    ASSUME NEW h \in Holders, NEW otp \in Nat, NEW exp \in Nat
    PROVE  [NoRow EXCEPT !.status = "DRAFT", !.holder = h, !.otp = otp,
                         !.expiresAt = exp] \in Row
  BY Blank DEF Row, NoRow, Status

\* The rows mint, finalize and revoke write.
LEMMA RowUpdates ==
    ASSUME NEW row \in Row, NEW s \in Issuers \cup {None},
           NEW h \in Holders \cup {None}, NEW otp \in Nat
    PROVE  /\ [row EXCEPT !.proof = s, !.otp = otp, !.status = "ISSUED"] \in Row
           /\ [row EXCEPT !.claimedBy = h, !.status = "CLAIMED"] \in Row
           /\ [row EXCEPT !.status = "REVOKED"] \in Row
  BY DEF Row, Status

\* What the fields of a handler range over.
LEMMA HandlerFields ==
    ASSUME NEW q \in Handler
    PROVE  /\ q.id \in Ids \cup {None} /\ q.signer \in Issuers \cup {None}
           /\ q.holder \in Holders \cup {None} /\ q.rec \in Row
           /\ q.otp \in Nat /\ q.exp \in Nat
  BY DEF Handler

\* A handler that goes on to its next await.
LEMMA HandlerMoves ==
    ASSUME NEW q \in Handler, NEW pc \in Pc
    PROVE  [q EXCEPT !.pc = pc] \in Handler
  BY DEF Handler

\* A claim that has found the issuer's proof.
LEMMA HandlerSigns ==
    ASSUME NEW q \in Handler, NEW pc \in Pc, NEW s \in Issuers \cup {None}
    PROVE  [q EXCEPT !.pc = pc, !.signer = s] \in Handler
  BY DEF Handler

\* A mint that has drawn its OTP.
LEMMA HandlerGetsOtp ==
    ASSUME NEW q \in Handler, NEW pc \in Pc, NEW otp \in Nat, NEW exp \in Nat
    PROVE  [q EXCEPT !.pc = pc, !.otp = otp, !.exp = exp] \in Handler
  BY DEF Handler

\* The handler of a new prepare.
LEMMA NewPrepare ==
    ASSUME NEW h \in Holders
    PROVE  [Idle EXCEPT !.pc = "prepare_save", !.holder = h] \in Handler
  BY Blank DEF Handler, Idle, Pc

\* The handler of a new mint.
LEMMA NewMint ==
    ASSUME NEW i \in Ids, NEW s \in Issuers, NEW row \in Row
    PROVE  [Idle EXCEPT !.pc = "mint_trust", !.id = i, !.signer = s, !.rec = row]
               \in Handler
  BY Blank DEF Handler, Idle, Pc

\* The handler of a new claim.
LEMMA NewClaim ==
    ASSUME NEW i \in Ids, NEW h \in Holders, NEW row \in Row
    PROVE  [Idle EXCEPT !.pc = "claim_vc", !.id = i, !.holder = h, !.rec = row]
               \in Handler
  BY Blank DEF Handler, Idle, Pc

\* The handler of a new revocation.
LEMMA NewRevoke ==
    ASSUME NEW i \in Ids, NEW row \in Row
    PROVE  [Idle EXCEPT !.pc = "revoke_row", !.id = i, !.rec = row] \in Handler
  BY Blank DEF Handler, Idle, Pc

\* Goto keeps the handlers typed.
LEMMA GotoType ==
    ASSUME req \in [Reqs -> Handler], NEW r \in Reqs, NEW pc \in Pc, Goto(r, pc)
    PROVE  req' \in [Reqs -> Handler]
  BY HandlerMoves DEF Goto

\* Done keeps the handlers typed.
LEMMA DoneType ==
    ASSUME req \in [Reqs -> Handler], NEW r \in Reqs, Done(r)
    PROVE  req' \in [Reqs -> Handler]
  BY Blank DEF Done

-----------------------------------------------------------------------------
(* One step of the system, one part of the inductive invariant at a time.  *)

\* Every step keeps the state typed; a ticket's holder is one because
\* HandlersInv says what a handler about to hand it out carries.
LEMMA NextTypeOK ==
    ASSUME TypeOK, HandlersInv, [Next]_vars
    PROVE  TypeOK'
<1> USE DEF TypeOK, db, Resumes
<1> USE NoneAssumption, BoundsAssumption, Blank
<1>0. \A r \in Reqs :
         /\ req[r] \in Handler /\ req[r].rec \in Row
         /\ Loaded(req[r]) => req[r].id \in Ids
         /\ Minting(req[r]) => req[r].signer \in Issuers
         /\ req[r].signer \in Issuers \cup {None}
         /\ req[r].holder \in Holders \cup {None}
         /\ req[r].otp \in Nat /\ req[r].exp \in Nat
  BY HandlerFields DEF HandlersInv
<1>1. ASSUME NEW r \in Reqs, NEW w \in Issuers, NEW h \in Holders,
             PrepareAuthorize(r, w, h)
      PROVE  TypeOK'
  BY <1>1, NewPrepare DEF PrepareAuthorize
<1>2. ASSUME NEW r \in Reqs, NEW i \in Ids, PrepareSave(r, i) PROVE TypeOK'
  <2> DEFINE row == [NoRow EXCEPT !.status = "DRAFT", !.holder = req[r].holder,
                                  !.otp = otps + 1, !.expiresAt = now + OtpExpiry]
             ticket == [via |-> "response", id |-> i, holder |-> req[r].holder,
                        otp |-> otps + 1, exp |-> now + OtpExpiry, at |-> now]
  <2>0. otps + 1 \in Nat /\ now + OtpExpiry \in Nat
    OBVIOUS
  <2>1. req[r].holder \in Holders
    BY <1>2 DEF PrepareSave, HandlersInv
  <2>2. row \in Row
    BY <2>0, <2>1, NewRow
  <2>3. ticket \in Ticket
    BY <2>0, <2>1 DEF Ticket
  <2>4. req' \in [Reqs -> Handler]
    BY <1>2, DoneType DEF PrepareSave
  <2> QED
    BY <1>2, <2>2, <2>3, <2>4 DEF PrepareSave
<1>3. ASSUME NEW r \in Reqs, NEW i \in Ids, NEW s \in Issuers,
             NEW recovered \in Issuers, MintLoad(r, i, s, recovered)
      PROVE  TypeOK'
  BY <1>3, NewMint DEF MintLoad
<1>4. ASSUME NEW r \in Reqs, MintTrusted(r) PROVE TypeOK'
  <2>1. [req[r] EXCEPT !.pc = "mint_vc", !.otp = otps + 1, !.exp = now + OtpExpiry]
            \in Handler
    <3>1. otps + 1 \in Nat /\ now + OtpExpiry \in Nat
      OBVIOUS
    <3> QED
      BY <1>0, <3>1, HandlerGetsOtp DEF Pc
  <2>2. <<req[r].id, req[r].signer>> \in Ids \X Issuers
    BY <1>0, <1>4 DEF MintTrusted, Loaded, Minting
  <2> QED
    BY <1>4, <2>1, <2>2 DEF MintTrusted
<1>5. ASSUME NEW r \in Reqs, MintRefused(r) PROVE TypeOK'
  BY <1>5, DoneType DEF MintRefused
<1>6. ASSUME NEW r \in Reqs, MintSaveVC(r) PROVE TypeOK'
  <2>1. [kind |-> "VC", proof |-> req[r].signer, holder |-> None] \in Document
    BY <1>0 DEF Document
  <2>2. req' \in [Reqs -> Handler]
    BY <1>6, GotoType DEF MintSaveVC, Pc
  <2> QED
    BY <1>6, <2>1, <2>2 DEF MintSaveVC
<1>7. ASSUME NEW r \in Reqs, MintSaveRow(r) PROVE TypeOK'
  <2>1. [req[r].rec EXCEPT !.proof = req[r].signer, !.otp = req[r].otp,
                           !.status = "ISSUED"] \in Row
    BY <1>0, RowUpdates
  <2>2. req' \in [Reqs -> Handler]
    BY <1>7, GotoType DEF MintSaveRow, Pc
  <2> QED
    BY <1>7, <2>1, <2>2 DEF MintSaveRow
<1>8. ASSUME NEW r \in Reqs, MintRecorded(r) PROVE TypeOK'
  <2>1. req[r].id \in Ids
    BY <1>0, <1>8 DEF MintRecorded, Loaded
  <2>2. req' \in [Reqs -> Handler]
    BY <1>8, GotoType DEF MintRecorded, Pc
  <2> QED
    BY <1>8, <2>1, <2>2 DEF MintRecorded
<1>9. ASSUME NEW r \in Reqs, MintNotRecorded(r) PROVE TypeOK'
  BY <1>9, GotoType DEF MintNotRecorded, Pc
<1>10. ASSUME NEW r \in Reqs, MintSaveReceipt(r) PROVE TypeOK'
  <2>1. req[r].id \in Ids
    BY <1>0, <1>10 DEF MintSaveReceipt, Loaded
  <2>2. req' \in [Reqs -> Handler]
    BY <1>10, GotoType DEF MintSaveReceipt, Pc
  <2> QED
    BY <1>10, <2>1, <2>2 DEF MintSaveReceipt
<1>11. ASSUME NEW r \in Reqs, MintMailed(r) PROVE TypeOK'
  <2> DEFINE ticket == [via |-> "mail", id |-> req[r].id,
                        holder |-> req[r].rec.holder, otp |-> req[r].otp,
                        exp |-> req[r].exp, at |-> now]
  <2>1. req[r].id \in Ids /\ req[r].rec.holder \in Holders
    BY <1>0, <1>11 DEF MintMailed, Loaded, HandlersInv
  <2>2. ticket \in Ticket
    BY <1>0, <2>1 DEF Ticket
  <2>3. req' \in [Reqs -> Handler]
    BY <1>11, DoneType DEF MintMailed
  <2> QED
    BY <1>11, <2>2, <2>3 DEF MintMailed
<1>12. ASSUME NEW r \in Reqs, MintMailFailed(r) PROVE TypeOK'
  BY <1>12, DoneType DEF MintMailFailed
<1>13. ASSUME NEW r \in Reqs, NEW i \in Ids, NEW h \in Holders,
              NEW token \in handed, NEW ticket \in handed,
              ClaimLoad(r, i, token, ticket, h)
       PROVE  TypeOK'
  BY <1>13, NewClaim DEF ClaimLoad
<1>14. ASSUME NEW r \in Reqs, ClaimLoadVC(r) PROVE TypeOK'
  <2> DEFINE p == IF vcs[req[r].id].kind = "VC" THEN vcs[req[r].id].proof
                                               ELSE req[r].rec.proof
  <2>1. p \in Issuers \cup {None}
    <3>1. vcs[req[r].id] \in Document
      BY <1>0, <1>14 DEF ClaimLoadVC, Loaded
    <3> QED
      BY <1>0, <3>1 DEF Document, Row
  <2>2. req' \in [Reqs -> Handler]
    <3>1. [req[r] EXCEPT !.pc = "claim_vp", !.signer = p] \in Handler
      BY <1>0, <2>1, HandlerSigns DEF Pc
    <3> QED
      BY <1>14, <3>1 DEF ClaimLoadVC, Done
  <2> QED
    BY <1>14, <2>2 DEF ClaimLoadVC
<1>15. ASSUME NEW r \in Reqs, ClaimSaveVP(r) PROVE TypeOK'
  <2>1. [kind |-> "VP", proof |-> req[r].signer, holder |-> req[r].holder]
            \in Document
    BY <1>0 DEF Document
  <2>2. req' \in [Reqs -> Handler]
    BY <1>15, GotoType DEF ClaimSaveVP, Pc
  <2> QED
    BY <1>15, <2>1, <2>2 DEF ClaimSaveVP
<1>16. ASSUME NEW r \in Reqs, ClaimSaveRow(r) PROVE TypeOK'
  <2>1. [req[r].rec EXCEPT !.claimedBy = req[r].holder, !.status = "CLAIMED"]
            \in Row
    BY <1>0, RowUpdates
  <2> QED
    BY <1>16, <2>1, DoneType DEF ClaimSaveRow
<1>17. ASSUME NEW r \in Reqs, NEW i \in Ids, RevokeLoad(r, i) PROVE TypeOK'
  BY <1>17, NewRevoke DEF RevokeLoad
<1>18. ASSUME NEW r \in Reqs, RevokeSaveRow(r) PROVE TypeOK'
  <2>1. [req[r].rec EXCEPT !.status = "REVOKED"] \in Row
    BY <1>0, RowUpdates
  <2> QED
    BY <1>18, <2>1, DoneType DEF RevokeSaveRow
<1>19. ASSUME NEW s \in Issuers, TrustChanges(s) PROVE TypeOK'
  BY <1>19 DEF TrustChanges
<1>20. ASSUME Restart PROVE TypeOK'
  BY <1>20 DEF Restart
<1>21. ASSUME Tick PROVE TypeOK'
  BY <1>21 DEF Tick
<1>22. CASE UNCHANGED vars
  BY <1>22 DEF vars
<1> QED
  BY <1>1, <1>2, <1>3, <1>4, <1>5, <1>6, <1>7, <1>8, <1>9, <1>10, <1>11, <1>12,
     <1>13, <1>14, <1>15, <1>16, <1>17, <1>18, <1>19, <1>20, <1>21, <1>22
  DEF Next, Prepare, Mint, Finalize, Revoke

\* Every step keeps what a handler knows of the row it loaded.
LEMMA NextHandlersInv ==
    ASSUME TypeOK, TypeOK', HandlersInv, [Next]_vars
    PROVE  HandlersInv'
<1> USE NoneAssumption, BoundsAssumption
<1> USE DEF TypeOK, HandlersInv, Loaded, Minting, Claiming, Goto, Done, db, Resumes, Row, Handler, Idle, NoRow
<1>1. ASSUME NEW r \in Reqs, NEW w \in Issuers, NEW h \in Holders, 
             PrepareAuthorize(r, w, h)
      PROVE  HandlersInv'
  BY <1>1 DEF PrepareAuthorize
<1>2. ASSUME NEW r \in Reqs, NEW i \in Ids, 
             PrepareSave(r, i)
      PROVE  HandlersInv'
  BY <1>2 DEF PrepareSave
<1>3. ASSUME NEW r \in Reqs, NEW i \in Ids, NEW s \in Issuers, NEW recovered \in Issuers, 
             MintLoad(r, i, s, recovered)
      PROVE  HandlersInv'
  BY <1>3 DEF MintLoad
<1>4. ASSUME NEW r \in Reqs, MintTrusted(r) PROVE HandlersInv'
  <2>1. /\ req[r].pc = "mint_trust" /\ issuance' = issuance
        /\ \A q \in Reqs \ {r} : req'[q] = req[q]
    BY <1>4 DEF MintTrusted
  <2>2. /\ req'[r].pc = "mint_vc" /\ req'[r].id = req[r].id
        /\ req'[r].rec = req[r].rec /\ req'[r].signer = req[r].signer
    BY <1>4 DEF MintTrusted
  <2> QED
    BY <2>1, <2>2
<1>5. ASSUME NEW r \in Reqs, MintRefused(r) PROVE HandlersInv'
  BY <1>5 DEF MintRefused
<1>6. ASSUME NEW r \in Reqs, MintSaveVC(r) PROVE HandlersInv'
  BY <1>6 DEF MintSaveVC
<1>7. ASSUME NEW r \in Reqs, MintSaveRow(r) PROVE HandlersInv'
  <2>1. /\ req[r].pc = "mint_row" /\ req' = [req EXCEPT ![r].pc = "mint_chain"]
        /\ \A q \in Reqs \ {r} : req'[q] = req[q]
    BY <1>7 DEF MintSaveRow
  <2>2. /\ req'[r].pc = "mint_chain" /\ req'[r].id = req[r].id
        /\ req'[r].rec = req[r].rec /\ req'[r].signer = req[r].signer
    BY <2>1
  <2>3. /\ req[r].id \in Ids /\ req[r].rec \in Row
        /\ req[r].rec.holder = issuance[req[r].id].holder
        /\ issuance[req[r].id].holder \in Holders
    BY <2>1
  <2>4. /\ issuance'[req[r].id].status = "ISSUED"
        /\ issuance'[req[r].id].holder = issuance[req[r].id].holder
        /\ \A i \in Ids \ {req[r].id} : issuance'[i] = issuance[i]
    BY <1>7, <2>3 DEF MintSaveRow
  <2>5. \A i \in Ids : /\ issuance'[i].holder = issuance[i].holder
                       /\ issuance[i].status # "ABSENT" => issuance'[i].status # "ABSENT"
                       /\ issuance'[i].status # "ABSENT" => issuance'[i].holder \in Holders
    BY <2>3, <2>4
  <2>6. \A q \in Reqs : /\ req'[q].id = req[q].id /\ req'[q].rec = req[q].rec
                        /\ req'[q].signer = req[q].signer /\ req'[q].holder = req[q].holder
                        /\ q # r => req'[q].pc = req[q].pc
    BY <2>1
  <2> HIDE DEF TypeOK, db, Goto, Resumes, Row, Handler, Idle, NoRow
  <2> QED
    BY <2>1, <2>2, <2>5, <2>6
<1>8. ASSUME NEW r \in Reqs, MintRecorded(r) PROVE HandlersInv'
  BY <1>8 DEF MintRecorded
<1>9. ASSUME NEW r \in Reqs, MintNotRecorded(r) PROVE HandlersInv'
  BY <1>9 DEF MintNotRecorded
<1>10. ASSUME NEW r \in Reqs, MintSaveReceipt(r) PROVE HandlersInv'
  BY <1>10 DEF MintSaveReceipt
<1>11. ASSUME NEW r \in Reqs, MintMailed(r) PROVE HandlersInv'
  BY <1>11 DEF MintMailed
<1>12. ASSUME NEW r \in Reqs, MintMailFailed(r) PROVE HandlersInv'
  BY <1>12 DEF MintMailFailed
<1>13. ASSUME NEW r \in Reqs, NEW i \in Ids, NEW h \in Holders, NEW token \in handed, NEW ticket \in handed, 
             ClaimLoad(r, i, token, ticket, h)
      PROVE  HandlersInv'
  BY <1>13 DEF ClaimLoad
<1>14. ASSUME NEW r \in Reqs, ClaimLoadVC(r) PROVE HandlersInv'
  <2>1. PICK proof \in Issuers \cup {None} :
          proof = IF vcs[req[r].id].kind = "VC" THEN vcs[req[r].id].proof
                                                ELSE req[r].rec.proof
    <3>1. req[r] \in Handler /\ req[r].pc = "claim_vc"
      BY <1>14 DEF ClaimLoadVC
    <3>2. req[r].id \in Ids /\ req[r].rec \in Row
      BY <1>14, <3>1
    <3>3. vcs[req[r].id].proof \in Issuers \cup {None}
      BY <3>2 DEF Document
    <3>4. req[r].rec.proof \in Issuers \cup {None}
      BY <3>2
    <3> QED
      BY <3>3, <3>4
  <2>2. CASE proof = None
    <3>1. req' = [req EXCEPT ![r] = Idle] /\ issuance' = issuance
      BY <1>14, <2>1, <2>2 DEF ClaimLoadVC
    <3> QED
      BY <3>1
  <2>3. CASE proof # None
    <3>1. /\ req[r].pc = "claim_vc"
          /\ req' = [req EXCEPT ![r].pc = "claim_vp", ![r].signer = proof]
          /\ issuance' = issuance
      BY <1>14, <2>1, <2>3 DEF ClaimLoadVC
    <3>2. proof \in Issuers
      BY <2>3
    <3> QED
      BY <3>1, <3>2
  <2> QED
    BY <2>2, <2>3
<1>15. ASSUME NEW r \in Reqs, ClaimSaveVP(r) PROVE HandlersInv'
  BY <1>15 DEF ClaimSaveVP
<1>16. ASSUME NEW r \in Reqs, ClaimSaveRow(r) PROVE HandlersInv'
  BY <1>16 DEF ClaimSaveRow
<1>17. ASSUME NEW r \in Reqs, NEW i \in Ids, 
             RevokeLoad(r, i)
      PROVE  HandlersInv'
  BY <1>17 DEF RevokeLoad
<1>18. ASSUME NEW r \in Reqs, RevokeSaveRow(r) PROVE HandlersInv'
  BY <1>18 DEF RevokeSaveRow
<1>19. ASSUME NEW s \in Issuers, TrustChanges(s) PROVE HandlersInv'
  BY <1>19 DEF TrustChanges
<1>20. ASSUME Restart PROVE HandlersInv'
  BY <1>20 DEF Restart
<1>21. ASSUME Tick PROVE HandlersInv'
  BY <1>21 DEF Tick
<1>22. CASE UNCHANGED vars
  BY <1>22 DEF vars
<1> QED
  BY <1>1, <1>2, <1>3, <1>4, <1>5, <1>6, <1>7, <1>8, <1>9, <1>10, <1>11, <1>12, <1>13, <1>14, <1>15, <1>16, <1>17, <1>18, <1>19, <1>20, <1>21, <1>22
  DEF Next, Prepare, Mint, Finalize, Revoke

\* Every step keeps the documents of issued rows in the store.
LEMMA NextStoredInv ==
    ASSUME TypeOK, HandlersInv, StoredInv, [Next]_vars
    PROVE  StoredInv'
<1> USE NoneAssumption, BoundsAssumption
<1> USE DEF TypeOK, HandlersInv, Loaded, Minting, Claiming, Goto, Done, db, Resumes, StoredInv, IssuedIsStored, Row, Handler, Document, Idle, NoRow
<1>1. ASSUME NEW r \in Reqs, NEW w \in Issuers, NEW h \in Holders, 
             PrepareAuthorize(r, w, h)
      PROVE  StoredInv'
  BY <1>1 DEF PrepareAuthorize
<1>2. ASSUME NEW r \in Reqs, NEW i \in Ids, PrepareSave(r, i) PROVE StoredInv'
  BY <1>2 DEF PrepareSave
<1>3. ASSUME NEW r \in Reqs, NEW i \in Ids, NEW s \in Issuers, NEW recovered \in Issuers, 
             MintLoad(r, i, s, recovered)
      PROVE  StoredInv'
  BY <1>3 DEF MintLoad
<1>4. ASSUME NEW r \in Reqs, MintTrusted(r) PROVE StoredInv'
  BY <1>4 DEF MintTrusted
<1>5. ASSUME NEW r \in Reqs, MintRefused(r) PROVE StoredInv'
  BY <1>5 DEF MintRefused
<1>6. ASSUME NEW r \in Reqs, MintSaveVC(r) PROVE StoredInv'
  BY <1>6 DEF MintSaveVC
<1>7. ASSUME NEW r \in Reqs, MintSaveRow(r) PROVE StoredInv'
  BY <1>7 DEF MintSaveRow
<1>8. ASSUME NEW r \in Reqs, MintRecorded(r) PROVE StoredInv'
  BY <1>8 DEF MintRecorded
<1>9. ASSUME NEW r \in Reqs, MintNotRecorded(r) PROVE StoredInv'
  BY <1>9 DEF MintNotRecorded
<1>10. ASSUME NEW r \in Reqs, MintSaveReceipt(r) PROVE StoredInv'
  BY <1>10 DEF MintSaveReceipt
<1>11. ASSUME NEW r \in Reqs, MintMailed(r) PROVE StoredInv'
  BY <1>11 DEF MintMailed
<1>12. ASSUME NEW r \in Reqs, MintMailFailed(r) PROVE StoredInv'
  BY <1>12 DEF MintMailFailed
<1>13. ASSUME NEW r \in Reqs, NEW i \in Ids, NEW h \in Holders, NEW token \in handed, NEW ticket \in handed, 
             ClaimLoad(r, i, token, ticket, h)
      PROVE  StoredInv'
  BY <1>13 DEF ClaimLoad
<1>14. ASSUME NEW r \in Reqs, ClaimLoadVC(r) PROVE StoredInv'
  <2>1. CASE Done(r)
    BY <1>14, <2>1 DEF ClaimLoadVC
  <2>2. CASE ~Done(r)
    <3> DEFINE p == IF vcs[req[r].id].kind = "VC" THEN vcs[req[r].id].proof
                                                  ELSE req[r].rec.proof
    <3>1. /\ p # None
          /\ req[r].pc = "claim_vc"
          /\ req' = [req EXCEPT ![r].pc = "claim_vp", ![r].signer = p]
          /\ UNCHANGED <<db, trusted, recorded, attested, handed, otps, now>>
      BY <1>14, <2>2 DEF ClaimLoadVC
    <3> HIDE DEF p
    <3> QED
      BY <3>1
  <2> QED
    BY <2>1, <2>2
<1>15. ASSUME NEW r \in Reqs, ClaimSaveVP(r) PROVE StoredInv'
  BY <1>15 DEF ClaimSaveVP
<1>16. ASSUME NEW r \in Reqs, ClaimSaveRow(r) PROVE StoredInv'
  BY <1>16 DEF ClaimSaveRow
<1>17. ASSUME NEW r \in Reqs, NEW i \in Ids, RevokeLoad(r, i) PROVE StoredInv'
  BY <1>17 DEF RevokeLoad
<1>18. ASSUME NEW r \in Reqs, RevokeSaveRow(r) PROVE StoredInv'
  BY <1>18 DEF RevokeSaveRow
<1>19. ASSUME NEW s \in Issuers, TrustChanges(s) PROVE StoredInv'
  BY <1>19 DEF TrustChanges
<1>20. ASSUME Restart PROVE StoredInv'
  BY <1>20 DEF Restart
<1>21. ASSUME Tick PROVE StoredInv'
  BY <1>21 DEF Tick
<1>22. CASE UNCHANGED vars
  BY <1>22 DEF vars
<1> QED
  BY <1>1, <1>2, <1>3, <1>4, <1>5, <1>6, <1>7, <1>8, <1>9, <1>10, <1>11, <1>12, <1>13, <1>14, <1>15, <1>16, <1>17, <1>18, <1>19, <1>20, <1>21, <1>22
  DEF Next, Prepare, Mint, Finalize, Revoke

\* Every step writes only proofs the registry vouched for.
LEMMA NextAttestedInv ==
    ASSUME TypeOK, HandlersInv, AttestedInv, [Next]_vars
    PROVE  AttestedInv'
<1> USE NoneAssumption, BoundsAssumption
<1> USE DEF TypeOK, HandlersInv, Loaded, Minting, Vouched, Claiming, Goto, Done, db, Resumes, AttestedInv, ProofsAreAttested, Row, Handler, Document, Idle, NoRow
<1>1. ASSUME NEW r \in Reqs, NEW w \in Issuers, NEW h \in Holders, 
             PrepareAuthorize(r, w, h)
      PROVE  AttestedInv'
  BY <1>1 DEF PrepareAuthorize
<1>2. ASSUME NEW r \in Reqs, NEW i \in Ids, 
             PrepareSave(r, i)
      PROVE  AttestedInv'
  BY <1>2 DEF PrepareSave
<1>3. ASSUME NEW r \in Reqs, NEW i \in Ids, NEW s \in Issuers, NEW recovered \in Issuers, 
             MintLoad(r, i, s, recovered)
      PROVE  AttestedInv'
  BY <1>3 DEF MintLoad
<1>4. ASSUME NEW r \in Reqs, MintTrusted(r) PROVE AttestedInv'
  BY <1>4 DEF MintTrusted
<1>5. ASSUME NEW r \in Reqs, MintRefused(r) PROVE AttestedInv'
  BY <1>5 DEF MintRefused
<1>6. ASSUME NEW r \in Reqs, MintSaveVC(r) PROVE AttestedInv'
  <2>1. /\ req[r].id \in Ids /\ req[r].signer \in Issuers
        /\ <<req[r].id, req[r].signer>> \in attested
    BY <1>6 DEF MintSaveVC
  <2>2. ProofsAreAttested'
    BY <1>6, <2>1 DEF MintSaveVC
  <2>3. ASSUME NEW q \in Reqs
        PROVE  /\ Vouched(req'[q]) \/ req'[q].pc \in {"claim_vp", "claim_row"} =>
                      <<req'[q].id, req'[q].signer>> \in attested
               /\ Loaded(req'[q]) /\ req'[q].rec.proof # None =>
                      <<req'[q].id, req'[q].rec.proof>> \in attested
    BY <1>6 DEF MintSaveVC
  <2> QED
    BY <1>6, <2>2, <2>3 DEF MintSaveVC
<1>7. ASSUME NEW r \in Reqs, MintSaveRow(r) PROVE AttestedInv'
  <2>1. /\ req[r].id \in Ids /\ req[r].signer \in Issuers
        /\ <<req[r].id, req[r].signer>> \in attested
        /\ req[r].rec \in Row
    BY <1>7 DEF MintSaveRow
  <2>2. ProofsAreAttested'
    BY <1>7, <2>1 DEF MintSaveRow
  <2>3. ASSUME NEW q \in Reqs
        PROVE  /\ Vouched(req'[q]) \/ req'[q].pc \in {"claim_vp", "claim_row"} =>
                      <<req'[q].id, req'[q].signer>> \in attested
               /\ Loaded(req'[q]) /\ req'[q].rec.proof # None =>
                      <<req'[q].id, req'[q].rec.proof>> \in attested
    BY <1>7 DEF MintSaveRow
  <2> QED
    BY <1>7, <2>2, <2>3 DEF MintSaveRow
<1>8. ASSUME NEW r \in Reqs, MintRecorded(r) PROVE AttestedInv'
  BY <1>8 DEF MintRecorded
<1>9. ASSUME NEW r \in Reqs, MintNotRecorded(r) PROVE AttestedInv'
  BY <1>9 DEF MintNotRecorded
<1>10. ASSUME NEW r \in Reqs, MintSaveReceipt(r) PROVE AttestedInv'
  BY <1>10 DEF MintSaveReceipt
<1>11. ASSUME NEW r \in Reqs, MintMailed(r) PROVE AttestedInv'
  BY <1>11 DEF MintMailed
<1>12. ASSUME NEW r \in Reqs, MintMailFailed(r) PROVE AttestedInv'
  BY <1>12 DEF MintMailFailed
<1>13. ASSUME NEW r \in Reqs, NEW i \in Ids, NEW h \in Holders, NEW token \in handed, NEW ticket \in handed, 
             ClaimLoad(r, i, token, ticket, h)
      PROVE  AttestedInv'
  BY <1>13 DEF ClaimLoad
<1>14. ASSUME NEW r \in Reqs, ClaimLoadVC(r) PROVE AttestedInv'
  <2>1. CASE Done(r)
    BY <1>14, <2>1 DEF ClaimLoadVC
  <2>2. CASE ~Done(r)
    <3> DEFINE p == IF vcs[req[r].id].kind = "VC" THEN vcs[req[r].id].proof
                                                  ELSE req[r].rec.proof
    <3>1. /\ p # None
          /\ req[r].pc = "claim_vc"
          /\ req' = [req EXCEPT ![r].pc = "claim_vp", ![r].signer = p]
          /\ UNCHANGED <<db, trusted, recorded, attested, handed, otps, now>>
      BY <1>14, <2>2 DEF ClaimLoadVC
    <3>2. <<req[r].id, p>> \in attested
      BY <3>1
    <3> HIDE DEF p
    <3> QED
      BY <3>1, <3>2
  <2> QED
    BY <2>1, <2>2
<1>15. ASSUME NEW r \in Reqs, ClaimSaveVP(r) PROVE AttestedInv'
  <2>1. /\ req[r].id \in Ids /\ req[r].signer \in Issuers
        /\ <<req[r].id, req[r].signer>> \in attested
    BY <1>15 DEF ClaimSaveVP
  <2>2. ProofsAreAttested'
    BY <1>15, <2>1 DEF ClaimSaveVP
  <2>3. ASSUME NEW q \in Reqs
        PROVE  /\ Vouched(req'[q]) \/ req'[q].pc \in {"claim_vp", "claim_row"} =>
                      <<req'[q].id, req'[q].signer>> \in attested
               /\ Loaded(req'[q]) /\ req'[q].rec.proof # None =>
                      <<req'[q].id, req'[q].rec.proof>> \in attested
    BY <1>15 DEF ClaimSaveVP
  <2> QED
    BY <1>15, <2>2, <2>3 DEF ClaimSaveVP
<1>16. ASSUME NEW r \in Reqs, ClaimSaveRow(r) PROVE AttestedInv'
  <2>1. /\ req[r].id \in Ids /\ req[r].rec \in Row
        /\ req[r].rec.proof # None => <<req[r].id, req[r].rec.proof>> \in attested
    BY <1>16 DEF ClaimSaveRow
  <2>2. ProofsAreAttested'
    BY <1>16, <2>1 DEF ClaimSaveRow
  <2>3. ASSUME NEW q \in Reqs
        PROVE  /\ Vouched(req'[q]) \/ req'[q].pc \in {"claim_vp", "claim_row"} =>
                      <<req'[q].id, req'[q].signer>> \in attested
               /\ Loaded(req'[q]) /\ req'[q].rec.proof # None =>
                      <<req'[q].id, req'[q].rec.proof>> \in attested
    BY <1>16 DEF ClaimSaveRow
  <2> QED
    BY <1>16, <2>2, <2>3 DEF ClaimSaveRow
<1>17. ASSUME NEW r \in Reqs, NEW i \in Ids, 
             RevokeLoad(r, i)
      PROVE  AttestedInv'
  BY <1>17 DEF RevokeLoad
<1>18. ASSUME NEW r \in Reqs, RevokeSaveRow(r) PROVE AttestedInv'
  <2>1. /\ req[r].id \in Ids /\ req[r].rec \in Row
        /\ req[r].rec.proof # None => <<req[r].id, req[r].rec.proof>> \in attested
    BY <1>18 DEF RevokeSaveRow
  <2>2. ProofsAreAttested'
    BY <1>18, <2>1 DEF RevokeSaveRow
  <2>3. ASSUME NEW q \in Reqs
        PROVE  /\ Vouched(req'[q]) \/ req'[q].pc \in {"claim_vp", "claim_row"} =>
                      <<req'[q].id, req'[q].signer>> \in attested
               /\ Loaded(req'[q]) /\ req'[q].rec.proof # None =>
                      <<req'[q].id, req'[q].rec.proof>> \in attested
    BY <1>18 DEF RevokeSaveRow
  <2> QED
    BY <1>18, <2>2, <2>3 DEF RevokeSaveRow
<1>19. ASSUME NEW s \in Issuers, TrustChanges(s) PROVE AttestedInv'
  BY <1>19 DEF TrustChanges
<1>20. ASSUME Restart PROVE AttestedInv'
  BY <1>20 DEF Restart
<1>21. ASSUME Tick PROVE AttestedInv'
  BY <1>21 DEF Tick
<1>22. CASE UNCHANGED vars
  BY <1>22 DEF vars
<1> QED
  BY <1>1, <1>2, <1>3, <1>4, <1>5, <1>6, <1>7, <1>8, <1>9, <1>10, <1>11, <1>12, <1>13, <1>14, <1>15, <1>16, <1>17, <1>18, <1>19, <1>20, <1>21, <1>22
  DEF Next, Prepare, Mint, Finalize, Revoke

\* Every step keeps the chain behind the rows.
LEMMA NextChainInv ==
    ASSUME TypeOK, HandlersInv, StoredInv, ChainInv, [Next]_vars
    PROVE  ChainInv'
<1> USE NoneAssumption, BoundsAssumption
<1> USE DEF TypeOK, HandlersInv, Loaded, Minting, Claiming, Goto, Done, db, Resumes, StoredInv, ChainInv, RecordedIsIssued, Row, Handler, Document, Idle, NoRow
<1>1. ASSUME NEW r \in Reqs, NEW w \in Issuers, NEW h \in Holders, 
             PrepareAuthorize(r, w, h)
      PROVE  ChainInv'
  BY <1>1 DEF PrepareAuthorize
<1>2. ASSUME NEW r \in Reqs, NEW i \in Ids, PrepareSave(r, i) PROVE ChainInv'
  BY <1>2 DEF PrepareSave
<1>3. ASSUME NEW r \in Reqs, NEW i \in Ids, NEW s \in Issuers, NEW recovered \in Issuers, 
             MintLoad(r, i, s, recovered)
      PROVE  ChainInv'
  BY <1>3 DEF MintLoad
<1>4. ASSUME NEW r \in Reqs, MintTrusted(r) PROVE ChainInv'
  BY <1>4 DEF MintTrusted
<1>5. ASSUME NEW r \in Reqs, MintRefused(r) PROVE ChainInv'
  BY <1>5 DEF MintRefused
<1>6. ASSUME NEW r \in Reqs, MintSaveVC(r) PROVE ChainInv'
  BY <1>6 DEF MintSaveVC
<1>7. ASSUME NEW r \in Reqs, MintSaveRow(r) PROVE ChainInv'
  BY <1>7 DEF MintSaveRow
<1>8. ASSUME NEW r \in Reqs, MintRecorded(r) PROVE ChainInv'
  BY <1>8 DEF MintRecorded
<1>9. ASSUME NEW r \in Reqs, MintNotRecorded(r) PROVE ChainInv'
  BY <1>9 DEF MintNotRecorded
<1>10. ASSUME NEW r \in Reqs, MintSaveReceipt(r) PROVE ChainInv'
  BY <1>10 DEF MintSaveReceipt
<1>11. ASSUME NEW r \in Reqs, MintMailed(r) PROVE ChainInv'
  BY <1>11 DEF MintMailed
<1>12. ASSUME NEW r \in Reqs, MintMailFailed(r) PROVE ChainInv'
  BY <1>12 DEF MintMailFailed
<1>13. ASSUME NEW r \in Reqs, NEW i \in Ids, NEW h \in Holders, NEW token \in handed, NEW ticket \in handed, 
             ClaimLoad(r, i, token, ticket, h)
      PROVE  ChainInv'
  BY <1>13 DEF ClaimLoad
<1>14. ASSUME NEW r \in Reqs, ClaimLoadVC(r) PROVE ChainInv'
  BY <1>14 DEF ClaimLoadVC
<1>15. ASSUME NEW r \in Reqs, ClaimSaveVP(r) PROVE ChainInv'
  BY <1>15 DEF ClaimSaveVP
<1>16. ASSUME NEW r \in Reqs, ClaimSaveRow(r) PROVE ChainInv'
  BY <1>16 DEF ClaimSaveRow
<1>17. ASSUME NEW r \in Reqs, NEW i \in Ids, RevokeLoad(r, i) PROVE ChainInv'
  BY <1>17 DEF RevokeLoad
<1>18. ASSUME NEW r \in Reqs, RevokeSaveRow(r) PROVE ChainInv'
  BY <1>18 DEF RevokeSaveRow
<1>19. ASSUME NEW s \in Issuers, TrustChanges(s) PROVE ChainInv'
  BY <1>19 DEF TrustChanges
<1>20. ASSUME Restart PROVE ChainInv'
  BY <1>20 DEF Restart
<1>21. ASSUME Tick PROVE ChainInv'
  BY <1>21 DEF Tick
<1>22. CASE UNCHANGED vars
  BY <1>22 DEF vars
<1> QED
  BY <1>1, <1>2, <1>3, <1>4, <1>5, <1>6, <1>7, <1>8, <1>9, <1>10, <1>11, <1>12, <1>13, <1>14, <1>15, <1>16, <1>17, <1>18, <1>19, <1>20, <1>21, <1>22
  DEF Next, Prepare, Mint, Finalize, Revoke

\* Every step keeps the OTP of an issued row private to its mail.
LEMMA NextOtpInv ==
    ASSUME TypeOK, TypeOK', HandlersInv, OtpInv, [Next]_vars
    PROVE  OtpInv'
<1> USE NoneAssumption, BoundsAssumption
<1> USE DEF TypeOK, HandlersInv, Loaded, Minting, Vouched, Claiming, Live, Goto, Done, db, Resumes, OtpInv, ClaimedByMail, Row, Handler, Ticket, Idle, NoRow
<1>1. ASSUME NEW r \in Reqs, NEW w \in Issuers, NEW h \in Holders, 
             PrepareAuthorize(r, w, h)
      PROVE  OtpInv'
  BY <1>1 DEF PrepareAuthorize
<1>2. ASSUME NEW r \in Reqs, NEW i \in Ids, PrepareSave(r, i) PROVE OtpInv'
  BY <1>2 DEF PrepareSave
<1>3. ASSUME NEW r \in Reqs, NEW i \in Ids, NEW s \in Issuers, NEW recovered \in Issuers, 
             MintLoad(r, i, s, recovered)
      PROVE  OtpInv'
  BY <1>3 DEF MintLoad
<1>4. ASSUME NEW r \in Reqs, MintTrusted(r) PROVE OtpInv'
  BY <1>4 DEF MintTrusted
<1>5. ASSUME NEW r \in Reqs, MintRefused(r) PROVE OtpInv'
  BY <1>5 DEF MintRefused
<1>6. ASSUME NEW r \in Reqs, MintSaveVC(r) PROVE OtpInv'
  BY <1>6 DEF MintSaveVC
<1>7. ASSUME NEW r \in Reqs, MintSaveRow(r) PROVE OtpInv'
  BY <1>7 DEF MintSaveRow
<1>8. ASSUME NEW r \in Reqs, MintRecorded(r) PROVE OtpInv'
  BY <1>8 DEF MintRecorded
<1>9. ASSUME NEW r \in Reqs, MintNotRecorded(r) PROVE OtpInv'
  BY <1>9 DEF MintNotRecorded
<1>10. ASSUME NEW r \in Reqs, MintSaveReceipt(r) PROVE OtpInv'
  BY <1>10 DEF MintSaveReceipt
<1>11. ASSUME NEW r \in Reqs, MintMailed(r) PROVE OtpInv'
  BY <1>11 DEF MintMailed
<1>12. ASSUME NEW r \in Reqs, MintMailFailed(r) PROVE OtpInv'
  BY <1>12 DEF MintMailFailed
<1>13. ASSUME NEW r \in Reqs, NEW i \in Ids, NEW h \in Holders, NEW token \in handed, NEW ticket \in handed, 
             ClaimLoad(r, i, token, ticket, h)
      PROVE  OtpInv'
  <2>1. /\ ticket.via = "mail" /\ ticket.id = i
        /\ ticket.otp = issuance[i].otp /\ ticket.holder = h
        /\ issuance[i].holder = h /\ issuance[i].status = "ISSUED"
    BY <1>13 DEF ClaimLoad
  <2>2. /\ req' = [req EXCEPT ![r] = [Idle EXCEPT !.pc = "claim_vc", !.id = i,
                                       !.holder = h, !.rec = issuance[i]]]
        /\ UNCHANGED <<issuance, handed, otps>>
    BY <1>13 DEF ClaimLoad
  <2>3. ClaimedByMail'
    BY <2>2
  <2>4. ASSUME NEW q \in Reqs, Claiming(req'[q])
        PROVE  \E t \in handed : /\ t.via = "mail" /\ t.id = req'[q].id
                                 /\ t.otp = req'[q].rec.otp
                                 /\ t.holder = req'[q].holder
    BY <2>1, <2>2, <2>4
  <2>5. ASSUME NEW q \in Reqs
        PROVE  /\ req'[q].otp <= otps /\ req'[q].rec.otp <= otps
               /\ Vouched(req'[q]) => Vouched(req[q]) /\ req'[q] = req[q]
    BY <2>2
  <2> QED
    BY <2>2, <2>3, <2>4, <2>5
<1>14. ASSUME NEW r \in Reqs, ClaimLoadVC(r) PROVE OtpInv'
  <2>1. CASE Done(r)
    BY <1>14, <2>1 DEF ClaimLoadVC
  <2>2. CASE ~Done(r)
    <3> DEFINE p == IF vcs[req[r].id].kind = "VC" THEN vcs[req[r].id].proof
                                                  ELSE req[r].rec.proof
    <3>1. /\ p # None
          /\ req[r].pc = "claim_vc"
          /\ req' = [req EXCEPT ![r].pc = "claim_vp", ![r].signer = p]
          /\ UNCHANGED <<db, trusted, recorded, attested, handed, otps, now>>
      BY <1>14, <2>2 DEF ClaimLoadVC
    <3> HIDE DEF p
    <3> QED
      BY <3>1
  <2> QED
    BY <2>1, <2>2
<1>15. ASSUME NEW r \in Reqs, ClaimSaveVP(r) PROVE OtpInv'
  BY <1>15 DEF ClaimSaveVP
<1>16. ASSUME NEW r \in Reqs, ClaimSaveRow(r) PROVE OtpInv'
  BY <1>16 DEF ClaimSaveRow
<1>17. ASSUME NEW r \in Reqs, NEW i \in Ids, RevokeLoad(r, i) PROVE OtpInv'
  BY <1>17 DEF RevokeLoad
<1>18. ASSUME NEW r \in Reqs, RevokeSaveRow(r) PROVE OtpInv'
  BY <1>18 DEF RevokeSaveRow
<1>19. ASSUME NEW s \in Issuers, TrustChanges(s) PROVE OtpInv'
  BY <1>19 DEF TrustChanges
<1>20. ASSUME Restart PROVE OtpInv'
  BY <1>20 DEF Restart
<1>21. ASSUME Tick PROVE OtpInv'
  BY <1>21 DEF Tick
<1>22. CASE UNCHANGED vars
  BY <1>22 DEF vars
<1> QED
  BY <1>1, <1>2, <1>3, <1>4, <1>5, <1>6, <1>7, <1>8, <1>9, <1>10, <1>11, <1>12, <1>13, <1>14, <1>15, <1>16, <1>17, <1>18, <1>19, <1>20, <1>21, <1>22
  DEF Next, Prepare, Mint, Finalize, Revoke

-----------------------------------------------------------------------------
(* The theorems.                                                           *)

\* Nothing is issued, recorded, handed out or in flight at the start.
LEMMA InitIndInv == Init => IndInv
<1> SUFFICES ASSUME Init PROVE IndInv
  OBVIOUS
<1> USE NoneAssumption, Blank DEF Init
<1>1. TypeOK
  BY DEF TypeOK
<1>2. HandlersInv
  BY DEF HandlersInv, Loaded, Minting, Claiming, Idle, NoRow
<1>3. StoredInv
  BY DEF StoredInv, IssuedIsStored, Claiming, Idle, NoRow, NoDocument
<1>4. AttestedInv
  BY DEF AttestedInv, ProofsAreAttested, Vouched, Minting, Loaded, Idle,
         NoRow, NoDocument
<1>5. ChainInv
  BY DEF ChainInv, RecordedIsIssued, Idle
<1>6. OtpInv
  BY DEF OtpInv, ClaimedByMail, Vouched, Minting, Claiming, Idle, NoRow
<1> QED
  BY <1>1, <1>2, <1>3, <1>4, <1>5, <1>6 DEF IndInv

\* The inductive invariant: what every row, document, ticket and handler in
\* flight knows of the others holds in every reachable state.
THEOREM Inductive == Spec => []IndInv
<1>1. IndInv /\ [Next]_vars => IndInv'
  BY NextTypeOK, NextHandlersInv, NextStoredInv, NextAttestedInv,
     NextChainInv, NextOtpInv
  DEF IndInv
<1> QED
  BY InitIndInv, <1>1, PTL DEF Spec

\* The state is always of its type.
THEOREM TypeCorrect == Spec => []TypeOK
  BY Inductive, PTL DEF IndInv

\* A credential that is ISSUED or CLAIMED has its signed document in the
\* store, whatever handlers were interrupted.
THEOREM IssuedAlwaysStored == Spec => []IssuedIsStored
  BY Inductive, PTL DEF IndInv, StoredInv

\* Every issuer proof in the store is of an issuer the registry vouched for
\* while that credential was being minted.
THEOREM ProofsAlwaysAttested == Spec => []ProofsAreAttested
  BY Inductive, PTL DEF IndInv, AttestedInv

\* Whatever the chain has recorded as issued is stored and past its draft.
THEOREM RecordedAlwaysIssued == Spec => []RecordedIsIssued
  BY Inductive, PTL DEF IndInv, ChainInv

\* A claim always used an OTP that was mailed for that credential.
THEOREM ClaimedOnlyByMail == Spec => []ClaimedByMail
  BY Inductive, PTL DEF IndInv, OtpInv

\* No stale write of a handler brings an issued, claimed or revoked
\* credential back to a draft.
THEOREM DraftsDoNotReturn == Spec => NeverBackToDraft
<1> DEFINE Kept == \A i \in Ids :
                      issuance[i].status \notin {"ABSENT", "DRAFT"} =>
                          issuance'[i].status \notin {"ABSENT", "DRAFT"}
<1>1. IndInv /\ [Next]_vars => [Kept]_vars
  <2> SUFFICES ASSUME IndInv, Next, NEW i \in Ids,
                      issuance[i].status \notin {"ABSENT", "DRAFT"}
               PROVE  issuance'[i].status \notin {"ABSENT", "DRAFT"}
    OBVIOUS
  <2>1. \A r \in Reqs : req[r].rec \in Row
    BY HandlerFields DEF IndInv, TypeOK
  <2>2. ASSUME NEW r \in Reqs, Prepare(r)
        PROVE  issuance'[i].status \notin {"ABSENT", "DRAFT"}
    BY <2>2 DEF Prepare, PrepareAuthorize, PrepareSave, db, IndInv, TypeOK
  <2>3. ASSUME NEW r \in Reqs, Mint(r)
        PROVE  issuance'[i].status \notin {"ABSENT", "DRAFT"}
    BY <2>1, <2>3 DEF Mint, MintLoad, MintTrusted, MintRefused, MintSaveVC,
       MintSaveRow, MintRecorded, MintNotRecorded, MintSaveReceipt,
       MintMailed, MintMailFailed, db, IndInv, TypeOK, Row
  <2>4. ASSUME NEW r \in Reqs, Finalize(r)
        PROVE  issuance'[i].status \notin {"ABSENT", "DRAFT"}
    BY <2>1, <2>4 DEF Finalize, ClaimLoad, ClaimLoadVC, ClaimSaveVP,
       ClaimSaveRow, db, IndInv, TypeOK, Row
  <2>5. ASSUME NEW r \in Reqs, Revoke(r)
        PROVE  issuance'[i].status \notin {"ABSENT", "DRAFT"}
    BY <2>1, <2>5 DEF Revoke, RevokeLoad, RevokeSaveRow, db, IndInv, TypeOK, Row
  <2>6. (\E s \in Issuers : TrustChanges(s)) \/ Restart \/ Tick => UNCHANGED issuance
    BY DEF TrustChanges, Restart, Tick, db
  <2> QED
    BY <2>2, <2>3, <2>4, <2>5, <2>6 DEF Next
<1> QED
  BY Inductive, <1>1, PTL DEF Spec, NeverBackToDraft
=============================================================================
