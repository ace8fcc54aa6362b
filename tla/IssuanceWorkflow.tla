-------------------------- MODULE IssuanceWorkflow --------------------------
(***************************************************************************)
(* The issuer's credential workflow: prepare, mint, finalize, revoke.      *)
(*                                                                         *)
(* Every HTTP request is an async handler that reads the issuance row,     *)
(* checks it, awaits other parties and writes the row it read back with    *)
(* some fields replaced.  A handler is cut here at its awaits: one action  *)
(* per stretch of code between two of them, the locals that live across an *)
(* await kept in req[r].  A handler that a check rejects before its first  *)
(* write changes nothing and is not an action.                             *)
(*                                                                         *)
(* An OTP is the number of its generation: two 6-digit codes that happen   *)
(* to coincide are not modelled.  Addresses, signatures and tokens are     *)
(* what they prove: a recovered signer, and an HMAC-protected triple.      *)
(***************************************************************************)
EXTENDS Naturals, FiniteSets

CONSTANTS
    Ids,        \* issuance ids; vc.id is fixed by the draft stored under the id
    Issuers,    \* wallets that may sign a credential
    Holders,    \* wallets a credential may be issued to
    Reqs,       \* request handlers that may be in flight together
    None,       \* no issuer, holder or id
    StoreYields, \* whether an await of the store lets another handler run
    OtpExpiry,  \* OTP_EXPIRY_SECONDS, in ticks of the clock
    MaxTime,    \* bound: last value of the clock
    MaxOtp      \* bound: OTPs the server generates

ASSUME NoneAssumption ==
    None \notin Ids /\ None \notin Issuers /\ None \notin Holders
ASSUME BoundsAssumption ==
    /\ StoreYields \in BOOLEAN
    /\ OtpExpiry \in Nat /\ MaxTime \in Nat /\ MaxOtp \in Nat

VARIABLES
    issuance,   \* issuance[i]: the row of table issuances
    vcs,        \* vcs[i]: the document saved under vc.id in table vcs
    receipts,   \* ids whose "<vc.id>.onchain" document is saved
    trusted,    \* issuers the on-chain registry lists
    recorded,   \* ids whose VC hash the chain has recorded as issued
    attested,   \* history: <<i, s>> for which the registry answered "trusted"
    handed,     \* claim tickets (token and OTP) the server has handed out
    req,        \* req[r]: the handler running for request r
    otps,       \* OTPs generated so far
    now         \* Date.now()

db == <<issuance, vcs, receipts>>
vars == <<db, trusted, recorded, attested, handed, req, otps, now>>

Status == {"ABSENT", "DRAFT", "ISSUED", "CLAIMED", "REVOKED"}

Row == [status : Status, holder : Holders \cup {None},
        proof : Issuers \cup {None}, claimedBy : Holders \cup {None},
        otp : Nat, expiresAt : Nat]

NoRow == [status |-> "ABSENT", holder |-> None, proof |-> None,
          claimedBy |-> None, otp |-> 0, expiresAt |-> 0]

\* A plain VC carries the issuer's proof; a VP also the holder it was made by.
Document == [kind : {"NONE", "VC", "VP"}, proof : Issuers \cup {None},
             holder : Holders \cup {None}]

NoDocument == [kind |-> "NONE", proof |-> None, holder |-> None]

\* What a party needs to claim: the session token {id, holderAddress, exp} and
\* the OTP. "via" says who has it: prepare answers the issuer, mint mails it.
Ticket == [via : {"response", "mail"}, id : Ids, holder : Holders,
           otp : Nat, exp : Nat, at : Nat]

Pc == {"idle", "prepare_save",
       "mint_trust", "mint_vc", "mint_row", "mint_chain", "mint_receipt",
       "mint_mail", "claim_vc", "claim_vp", "claim_row", "revoke_row"}

\* rec is the row as the handler loaded it, signer or claimant its caller.
Handler == [pc : Pc, id : Ids \cup {None}, signer : Issuers \cup {None},
            holder : Holders \cup {None}, rec : Row, otp : Nat, exp : Nat]

Idle == [pc |-> "idle", id |-> None, signer |-> None, holder |-> None,
         rec |-> NoRow, otp |-> 0, exp |-> 0]

TypeOK ==
    /\ issuance \in [Ids -> Row]
    /\ vcs \in [Ids -> Document]
    /\ receipts \subseteq Ids
    /\ trusted \subseteq Issuers
    /\ recorded \subseteq Ids
    /\ attested \subseteq Ids \X Issuers
    /\ handed \subseteq Ticket
    /\ req \in [Reqs -> Handler]
    /\ otps \in Nat
    /\ now \in Nat

Init ==
    /\ issuance = [i \in Ids |-> NoRow]
    /\ vcs = [i \in Ids |-> NoDocument]
    /\ receipts = {}
    /\ trusted \in SUBSET Issuers
    /\ recorded = {}
    /\ attested = {}
    /\ handed = {}
    /\ req = [r \in Reqs |-> Idle]
    /\ otps = 0
    /\ now = 0

Goto(r, pc) == req' = [req EXCEPT ![r].pc = pc]
Done(r) == req' = [req EXCEPT ![r] = Idle]

\* The handlers share one event loop.  IStorageAdapter promises nothing about
\* when its promises settle; those of the sql.js adapter settle in the turn of
\* the loop that asked, so between two saves no other handler runs, and only
\* the registry, the chain and the mail server let one in.
AtStore == {"prepare_save", "mint_vc", "mint_row", "mint_receipt",
            "claim_vc", "claim_vp", "claim_row", "revoke_row"}

HasTurn(r) == StoreYields \/ \A q \in Reqs \ {r} : req[q].pc \notin AtStore

Resumes(r, pc) == req[r].pc = pc /\ HasTurn(r)

-----------------------------------------------------------------------------
(* Faults: some of the actions below as a mistake in the code would have   *)
(* made them.  Each one breaks one of the properties at the end.           *)

\* isTrustedIssuer called without await: a promise is always truthy.
RefusalIgnored(r) ==
    /\ Resumes(r, "mint_trust")
    /\ Goto(r, "mint_vc")
    /\ UNCHANGED <<db, trusted, recorded, attested, handed, otps, now>>

\* The row saved first, the VC after the mail.
MintSavesRowFirst(r) ==
    /\ Resumes(r, "mint_trust")
    /\ req[r].signer \in trusted
    /\ otps < MaxOtp
    /\ otps' = otps + 1
    /\ attested' = attested \cup {<<req[r].id, req[r].signer>>}
    /\ req' = [req EXCEPT ![r].pc = "mint_row", ![r].otp = otps + 1]
    /\ UNCHANGED <<db, trusted, recorded, handed, now>>

\* The credential recorded on chain before its row is saved.
MintRecordsFirst(r) ==
    /\ Resumes(r, "mint_vc")
    /\ vcs' = [vcs EXCEPT ![req[r].id] =
                   [kind |-> "VC", proof |-> req[r].signer, holder |-> None]]
    /\ Goto(r, "mint_chain")
    /\ UNCHANGED <<issuance, receipts, trusted, recorded, attested, handed, otps, now>>

\* otpHash left out of the saved row: the OTP of prepare stays good.
MintKeepsOtp(r) ==
    /\ Resumes(r, "mint_row")
    /\ issuance' = [issuance EXCEPT ![req[r].id] =
           [req[r].rec EXCEPT !.proof = req[r].signer, !.status = "ISSUED"]]
    /\ Goto(r, "mint_chain")
    /\ UNCHANGED <<vcs, receipts, trusted, recorded, attested, handed, otps, now>>

-----------------------------------------------------------------------------
(* prepare: the controller asks the registry about the wallet of the       *)
(* session, then the service writes a DRAFT row under a fresh id and       *)
(* answers the caller with its token and OTP.                              *)

PrepareAuthorize(r, w, h) ==
    /\ Resumes(r, "idle")
    /\ w \in trusted
    /\ req' = [req EXCEPT ![r] = [Idle EXCEPT !.pc = "prepare_save", !.holder = h]]
    /\ UNCHANGED <<db, trusted, recorded, attested, handed, otps, now>>

\* i is the fresh id createDraftVC makes of the time and 6 random bytes.
PrepareSave(r, i) ==
    LET h == req[r].holder
        otp == otps + 1
        exp == now + OtpExpiry
    IN  /\ Resumes(r, "prepare_save")
        /\ issuance[i].status = "ABSENT"
        /\ otps < MaxOtp
        /\ otps' = otp
        /\ issuance' = [issuance EXCEPT ![i] =
               [NoRow EXCEPT !.status = "DRAFT", !.holder = h,
                             !.otp = otp, !.expiresAt = exp]]
        /\ handed' = handed \cup {[via |-> "response", id |-> i, holder |-> h,
                                   otp |-> otp, exp |-> exp, at |-> now]}
        /\ Done(r)
        /\ UNCHANGED <<vcs, receipts, trusted, recorded, attested, now>>

-----------------------------------------------------------------------------
(* mint: load and check the draft and the issuer's signature, ask the      *)
(* registry, save the signed VC, save the row, record on chain, mail.      *)

\* recovered is the address the signature over the draft recovers to.
MintLoad(r, i, s, recovered) ==
    /\ Resumes(r, "idle")
    /\ issuance[i].status = "DRAFT"
    /\ recovered = s
    /\ req' = [req EXCEPT ![r] = [Idle EXCEPT !.pc = "mint_trust", !.id = i,
                                              !.signer = s, !.rec = issuance[i]]]
    /\ UNCHANGED <<db, trusted, recorded, attested, handed, otps, now>>

\* isTrustedIssuer answers yes; the handler goes on to generate the OTP and
\* the token before it first waits for the store.
MintTrusted(r) ==
    /\ Resumes(r, "mint_trust")
    /\ req[r].signer \in trusted
    /\ otps < MaxOtp
    /\ otps' = otps + 1
    /\ attested' = attested \cup {<<req[r].id, req[r].signer>>}
    /\ req' = [req EXCEPT ![r].pc = "mint_vc", ![r].otp = otps + 1,
                          ![r].exp = now + OtpExpiry]
    /\ UNCHANGED <<db, trusted, recorded, handed, now>>

\* "not listed", or the RPC call fails and isTrustedIssuer throws.
MintRefused(r) ==
    /\ Resumes(r, "mint_trust")
    /\ Done(r)
    /\ UNCHANGED <<db, trusted, recorded, attested, handed, otps, now>>

MintSaveVC(r) ==
    /\ Resumes(r, "mint_vc")
    /\ vcs' = [vcs EXCEPT ![req[r].id] =
                   [kind |-> "VC", proof |-> req[r].signer, holder |-> None]]
    /\ Goto(r, "mint_row")
    /\ UNCHANGED <<issuance, receipts, trusted, recorded, attested, handed, otps, now>>

\* {...rec, issuerProof, otpHash, status}: rec is the row loaded in MintLoad,
\* and its expiresAt, set by prepare, is kept.
MintSaveRow(r) ==
    /\ Resumes(r, "mint_row")
    /\ issuance' = [issuance EXCEPT ![req[r].id] =
           [req[r].rec EXCEPT !.proof = req[r].signer, !.otp = req[r].otp,
                              !.status = "ISSUED"]]
    /\ Goto(r, "mint_chain")
    /\ UNCHANGED <<vcs, receipts, trusted, recorded, attested, handed, otps, now>>

\* The transaction is mined; the contract reverts a hash it already holds.
\* The receipt may still be lost on the way back.
MintRecorded(r) ==
    /\ Resumes(r, "mint_chain")
    /\ req[r].id \notin recorded
    /\ recorded' = recorded \cup {req[r].id}
    /\ \E next \in {"mint_receipt", "mint_mail"} : Goto(r, next)
    /\ UNCHANGED <<db, trusted, attested, handed, otps, now>>

\* No chain configured, the call failed or reverted: recordIssuance logs it
\* and returns null, and mint goes on.
MintNotRecorded(r) ==
    /\ Resumes(r, "mint_chain")
    /\ Goto(r, "mint_mail")
    /\ UNCHANGED <<db, trusted, recorded, attested, handed, otps, now>>

MintSaveReceipt(r) ==
    /\ Resumes(r, "mint_receipt")
    /\ receipts' = receipts \cup {req[r].id}
    /\ Goto(r, "mint_mail")
    /\ UNCHANGED <<issuance, vcs, trusted, recorded, attested, handed, otps, now>>

MintMailed(r) ==
    /\ Resumes(r, "mint_mail")
    /\ handed' = handed \cup {[via |-> "mail", id |-> req[r].id,
                               holder |-> req[r].rec.holder, otp |-> req[r].otp,
                               exp |-> req[r].exp, at |-> now]}
    /\ Done(r)
    /\ UNCHANGED <<db, trusted, recorded, attested, otps, now>>

\* The mail server refuses: mint throws, with the row already ISSUED.
MintMailFailed(r) ==
    /\ Resumes(r, "mint_mail")
    /\ Done(r)
    /\ UNCHANGED <<db, trusted, recorded, attested, handed, otps, now>>

-----------------------------------------------------------------------------
(* finalize: check token, row, OTP and the holder's signature, wrap the    *)
(* signed VC in a VP, save it and mark the row CLAIMED.                    *)

\* The caller presents a token and an OTP the server handed out, not always
\* together, and signs as h, the address the signature recovers to.
ClaimLoad(r, i, token, ticket, h) ==
    /\ Resumes(r, "idle")
    /\ token.id = i /\ token.holder = h
    /\ now <= token.exp
    /\ issuance[i].status = "ISSUED"
    /\ now <= issuance[i].expiresAt
    /\ ticket.otp = issuance[i].otp
    /\ token.holder = issuance[i].holder
    /\ req' = [req EXCEPT ![r] = [Idle EXCEPT !.pc = "claim_vc", !.id = i,
                                              !.holder = h, !.rec = issuance[i]]]
    /\ UNCHANGED <<db, trusted, recorded, attested, handed, otps, now>>

\* loadVC answers null for a stored VP, which has no id of its own: then the
\* proof comes from the row.  Without either the claim fails.
ClaimLoadVC(r) ==
    LET i == req[r].id
        proof == IF vcs[i].kind = "VC" THEN vcs[i].proof ELSE req[r].rec.proof
    IN  /\ Resumes(r, "claim_vc")
        /\ IF proof = None
           THEN Done(r)
           ELSE req' = [req EXCEPT ![r].pc = "claim_vp", ![r].signer = proof]
        /\ UNCHANGED <<db, trusted, recorded, attested, handed, otps, now>>

ClaimSaveVP(r) ==
    /\ Resumes(r, "claim_vp")
    /\ vcs' = [vcs EXCEPT ![req[r].id] = [kind |-> "VP", proof |-> req[r].signer,
                                          holder |-> req[r].holder]]
    /\ Goto(r, "claim_row")
    /\ UNCHANGED <<issuance, receipts, trusted, recorded, attested, handed, otps, now>>

ClaimSaveRow(r) ==
    /\ Resumes(r, "claim_row")
    /\ issuance' = [issuance EXCEPT ![req[r].id] =
           [req[r].rec EXCEPT !.claimedBy = req[r].holder, !.status = "CLAIMED"]]
    /\ Done(r)
    /\ UNCHANGED <<vcs, receipts, trusted, recorded, attested, handed, otps, now>>

-----------------------------------------------------------------------------
(* revoke: load the row, whatever its status, and write it back REVOKED.   *)

RevokeLoad(r, i) ==
    /\ Resumes(r, "idle")
    /\ issuance[i].status # "ABSENT"
    /\ req' = [req EXCEPT ![r] = [Idle EXCEPT !.pc = "revoke_row", !.id = i,
                                              !.rec = issuance[i]]]
    /\ UNCHANGED <<db, trusted, recorded, attested, handed, otps, now>>

RevokeSaveRow(r) ==
    /\ Resumes(r, "revoke_row")
    /\ issuance' = [issuance EXCEPT ![req[r].id] =
                        [req[r].rec EXCEPT !.status = "REVOKED"]]
    /\ Done(r)
    /\ UNCHANGED <<vcs, receipts, trusted, recorded, attested, handed, otps, now>>

-----------------------------------------------------------------------------
(* What happens around the handlers.                                       *)

\* The owner of the registry adds or removes an issuer.
TrustChanges(s) ==
    /\ \/ trusted' = trusted \cup {s}
       \/ trusted' = trusted \ {s}
    /\ UNCHANGED <<db, recorded, attested, handed, req, otps, now>>

\* The issuer process dies and starts again: the handlers are gone, every
\* completed save is on disk.
Restart ==
    /\ \E r \in Reqs : req[r].pc # "idle"
    /\ req' = [r \in Reqs |-> Idle]
    /\ UNCHANGED <<db, trusted, recorded, attested, handed, otps, now>>

Tick ==
    /\ now < MaxTime
    /\ now' = now + 1
    /\ UNCHANGED <<db, trusted, recorded, attested, handed, req, otps>>

Prepare(r) ==
    \/ \E w \in Issuers, h \in Holders : PrepareAuthorize(r, w, h)
    \/ \E i \in Ids : PrepareSave(r, i)

Mint(r) ==
    \/ \E i \in Ids, s, recovered \in Issuers : MintLoad(r, i, s, recovered)
    \/ MintTrusted(r) \/ MintRefused(r)
    \/ MintSaveVC(r) \/ MintSaveRow(r)
    \/ MintRecorded(r) \/ MintNotRecorded(r) \/ MintSaveReceipt(r)
    \/ MintMailed(r) \/ MintMailFailed(r)

Finalize(r) ==
    \/ \E i \in Ids, h \in Holders, token, ticket \in handed :
           ClaimLoad(r, i, token, ticket, h)
    \/ ClaimLoadVC(r) \/ ClaimSaveVP(r) \/ ClaimSaveRow(r)

Revoke(r) ==
    \/ \E i \in Ids : RevokeLoad(r, i)
    \/ RevokeSaveRow(r)

Next ==
    \/ \E r \in Reqs : Prepare(r) \/ Mint(r) \/ Finalize(r) \/ Revoke(r)
    \/ \E s \in Issuers : TrustChanges(s)
    \/ Restart
    \/ Tick

Spec == Init /\ [][Next]_vars

-----------------------------------------------------------------------------
(* Properties.                                                             *)

\* No credential is ISSUED or CLAIMED whose signed document is not in the
\* store: mint saves the VC before the row, so a crash between the two saves
\* leaves a draft with a document, never a claimable row without one.
IssuedIsStored ==
    \A i \in Ids : issuance[i].status \in {"ISSUED", "CLAIMED"} =>
        /\ vcs[i].kind # "NONE"
        /\ vcs[i].proof # None
        /\ issuance[i].proof # None

\* Every issuer proof in the store, alone, inside a VP or in a row, is of an
\* issuer the registry vouched for during a mint of that same credential,
\* however mints, claims and changes of the registry interleave.
ProofsAreAttested ==
    \A i \in Ids :
        /\ vcs[i].proof # None => <<i, vcs[i].proof>> \in attested
        /\ issuance[i].proof # None => <<i, issuance[i].proof>> \in attested

\* The chain holds no issuance of a credential that a crash could have left
\* a draft or unsaved, and a saved receipt is for a recorded hash.
RecordedIsIssued ==
    /\ \A i \in recorded : /\ vcs[i].kind # "NONE"
                           /\ issuance[i].status \notin {"ABSENT", "DRAFT"}
    /\ receipts \subseteq recorded

\* A credential is claimed only with an OTP that was mailed to its holder:
\* the OTP that prepare answers the issuer with opens nothing.
ClaimedByMail ==
    \A i \in Ids : issuance[i].status = "CLAIMED" =>
        \E t \in handed : /\ t.via = "mail" /\ t.id = i
                          /\ t.otp = issuance[i].otp
                          /\ t.holder = issuance[i].claimedBy

\* Once a mint, a claim or a revocation has been saved, no handler that read
\* the row earlier can bring the credential back to a draft.
NeverBackToDraft ==
    [][\A i \in Ids :
          issuance[i].status \notin {"ABSENT", "DRAFT"} =>
              issuance'[i].status \notin {"ABSENT", "DRAFT"}]_vars

\* What apps/web/app/admin/revoke/page.tsx tells the administrator: a
\* revocation is irreversible.
RevokedForGood ==
    [][\A i \in Ids : issuance[i].status = "REVOKED" =>
          issuance'[i].status = "REVOKED"]_vars

\* What the mail says of its link ("will expire in 72 hours"): at least at
\* the moment it is sent the claim it invites to is not refused as expired.
\* It does not hold: a draft minted after its expiry is mailed all the same.
MailedLinkIsLive ==
    \A t \in handed : t.via = "mail" => t.at <= issuance[t.id].expiresAt

-----------------------------------------------------------------------------
(* The inductive invariant: what the handlers in flight know of the rows,  *)
(* documents and tickets they will write to.                               *)

Loaded(q) == q.pc \notin {"idle", "prepare_save"}
Minting(q) == q.pc \in {"mint_trust", "mint_vc", "mint_row", "mint_chain",
                        "mint_receipt", "mint_mail"}
Vouched(q) == Minting(q) /\ q.pc # "mint_trust"
Claiming(q) == q.pc \in {"claim_vc", "claim_vp", "claim_row"}
Live(row) == row.status \in {"ISSUED", "CLAIMED"}

\* A handler that loaded a row has its id, and the row is still there with
\* the same holder; what it carries it may write.
HandlersInv ==
    /\ \A i \in Ids : issuance[i].status # "ABSENT" => issuance[i].holder \in Holders
    /\ \A r \in Reqs : LET q == req[r] IN
        /\ q.pc = "prepare_save" => q.holder \in Holders
        /\ Loaded(q) =>
             /\ q.id \in Ids
             /\ issuance[q.id].status # "ABSENT"
             /\ q.rec.holder = issuance[q.id].holder
        /\ Minting(q) => q.signer \in Issuers
        /\ Claiming(q) => q.rec.status = "ISSUED" /\ q.holder = q.rec.holder
        /\ q.pc \in {"claim_vp", "claim_row"} => q.signer \in Issuers

StoredInv ==
    /\ IssuedIsStored
    /\ \A i \in Ids : vcs[i].kind # "NONE" => vcs[i].proof # None
    /\ \A r \in Reqs : LET q == req[r] IN
        /\ q.pc \in {"mint_row", "mint_chain", "mint_receipt", "mint_mail"} =>
               vcs[q.id].kind # "NONE"
        /\ Claiming(q) => vcs[q.id].kind # "NONE" /\ q.rec.proof # None

AttestedInv ==
    /\ ProofsAreAttested
    /\ \A r \in Reqs : LET q == req[r] IN
        /\ Vouched(q) \/ q.pc \in {"claim_vp", "claim_row"} =>
               <<q.id, q.signer>> \in attested
        /\ Loaded(q) /\ q.rec.proof # None => <<q.id, q.rec.proof>> \in attested

ChainInv ==
    /\ RecordedIsIssued
    /\ \A r \in Reqs : LET q == req[r] IN
        /\ q.pc \in {"mint_chain", "mint_receipt", "mint_mail"} =>
               issuance[q.id].status \notin {"ABSENT", "DRAFT"}
        /\ q.pc = "mint_receipt" => q.id \in recorded

\* The OTP of a row that was issued is known, if at all, from a mail about
\* that row; a mint that has not mailed its OTP shares it with nobody.
OtpInv ==
    /\ ClaimedByMail
    /\ \A t \in handed : t.otp <= otps
    /\ \A t, u \in handed :
          t.otp = u.otp => t.via = u.via /\ t.id = u.id /\ t.holder = u.holder
    /\ \A i \in Ids : issuance[i].otp <= otps
    /\ \A i \in Ids, t \in handed :
          Live(issuance[i]) /\ t.otp = issuance[i].otp =>
              t.via = "mail" /\ t.id = i /\ t.holder = issuance[i].holder
    /\ \A r \in Reqs : LET q == req[r] IN
        /\ q.otp <= otps /\ q.rec.otp <= otps
        /\ Vouched(q) =>
             /\ \A t \in handed : t.otp # q.otp
             /\ \A p \in Reqs \ {r} : Vouched(req[p]) => req[p].otp # q.otp
             /\ \A i \in Ids : Live(issuance[i]) /\ issuance[i].otp = q.otp => i = q.id
        /\ Claiming(q) =>
             \E t \in handed : /\ t.via = "mail" /\ t.id = q.id
                               /\ t.otp = q.rec.otp /\ t.holder = q.holder

IndInv == TypeOK /\ HandlersInv /\ StoredInv /\ AttestedInv /\ ChainInv /\ OtpInv
=============================================================================
