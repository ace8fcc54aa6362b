-------------------------- MODULE CredentialStatus --------------------------
(***************************************************************************)
(* The CredentialStatus facet of the diamond: the storage record of each   *)
(* VC hash, and the events it emits, in the order of the chain.  An action *)
(* is a mined transaction; one that reverts changes nothing and is not an  *)
(* action.  The legacy names recordIssuance and revoke call the same code. *)
(***************************************************************************)
EXTENDS Naturals, Sequences

CONSTANTS
    Hashes,     \* VC hashes other than bytes32(0), which every call rejects
    Accounts,   \* msg.sender
    Nobody,     \* address(0)
    MaxTime,    \* bound: last block timestamp
    MaxLog,     \* bound: events emitted
    MaxBatch    \* bound: hashes in one batchRevokeCredential

ASSUME NobodyAssumption == Nobody \notin Accounts
ASSUME BoundsAssumption == MaxTime \in Nat /\ MaxLog \in Nat /\ MaxBatch \in Nat

VARIABLES
    statuses,   \* ds.statuses
    log,        \* the events emitted so far
    timestamp   \* block.timestamp, never 0

vars == <<statuses, log, timestamp>>

Status == [issuer : Accounts \cup {Nobody}, issuedAt : Nat, revokedAt : Nat,
           suspended : BOOLEAN]

NoStatus == [issuer |-> Nobody, issuedAt |-> 0, revokedAt |-> 0,
             suspended |-> FALSE]

Event == [event : {"Issued", "Revoked", "Suspended", "Unsuspended"},
          hash : Hashes, by : Accounts, at : Nat]

\* The arguments of batchRevokeCredential: repetitions are not excluded.
Batches == UNION {[1 .. n -> Hashes] : n \in 0 .. MaxBatch}

TypeOK ==
    /\ statuses \in [Hashes -> Status]
    /\ log \in Seq(Event)
    /\ timestamp \in Nat \ {0}

Init ==
    /\ statuses = [h \in Hashes |-> NoStatus]
    /\ log = <<>>
    /\ timestamp = 1

EventOf(event, h, by) == [event |-> event, hash |-> h, by |-> by, at |-> timestamp]

Emit(event, h, by) ==
    /\ Len(log) < MaxLog
    /\ log' = Append(log, EventOf(event, h, by))

-----------------------------------------------------------------------------
(* Faults: checks of the facet left out.                                   *)

\* Changeable without AlreadyRevoked, and without NotIssuer.
ChangeableTwice(h, by) ==
    statuses[h].issuedAt # 0 /\ statuses[h].issuer = by

ChangeableByAnyone(h, by) ==
    statuses[h].issuedAt # 0 /\ statuses[h].revokedAt = 0

\* What both revoke and updateStatus require of the record.
Changeable(h, by) ==
    /\ statuses[h].issuedAt # 0
    /\ statuses[h].revokedAt = 0
    /\ statuses[h].issuer = by

\* A batch whose turns all look at the storage as it was before the first.
BatchMayRepeat(hs, by) == \A k \in DOMAIN hs : Changeable(hs[k], by)

\* A batch announced without writing the records.
BatchNotWritten(hs, by) ==
    /\ Len(log) + Len(hs) <= MaxLog
    /\ \A k \in DOMAIN hs : Changeable(hs[k], by)
    /\ log' = log \o [k \in DOMAIN hs |-> EventOf("Revoked", hs[k], by)]
    /\ UNCHANGED <<statuses, timestamp>>

-----------------------------------------------------------------------------
(* The transactions.                                                       *)

\* Any account may register a hash: the facet does not ask the registry.
IssueCredential(h, by) ==
    /\ statuses[h].issuedAt = 0
    /\ statuses' = [statuses EXCEPT ![h] =
           [issuer |-> by, issuedAt |-> timestamp, revokedAt |-> 0,
            suspended |-> FALSE]]
    /\ Emit("Issued", h, by)
    /\ UNCHANGED timestamp

\* The suspended flag is left as it is.
RevokeCredential(h, by) ==
    /\ Changeable(h, by)
    /\ statuses' = [statuses EXCEPT ![h].revokedAt = timestamp]
    /\ Emit("Revoked", h, by)
    /\ UNCHANGED timestamp

\* The loop of revoke over the hashes goes through: each one may be revoked,
\* and none was revoked earlier in the same loop.
BatchRevocable(hs, by) ==
    /\ \A k \in DOMAIN hs : Changeable(hs[k], by)
    /\ \A j, k \in DOMAIN hs : hs[j] = hs[k] => j = k

BatchRevoked(hs) ==
    [h \in Hashes |-> IF \E k \in DOMAIN hs : hs[k] = h
                      THEN [statuses[h] EXCEPT !.revokedAt = timestamp]
                      ELSE statuses[h]]

BatchRevokeCredential(hs, by) ==
    /\ BatchRevocable(hs, by)
    /\ Len(log) + Len(hs) <= MaxLog
    /\ statuses' = BatchRevoked(hs)
    /\ log' = log \o [k \in DOMAIN hs |-> EventOf("Revoked", hs[k], by)]
    /\ UNCHANGED timestamp

UpdateCredentialStatus(h, suspended, by) ==
    /\ Changeable(h, by)
    /\ statuses[h].suspended # suspended
    /\ statuses' = [statuses EXCEPT ![h].suspended = suspended]
    /\ Emit(IF suspended THEN "Suspended" ELSE "Unsuspended", h, by)
    /\ UNCHANGED timestamp

\* Transactions of one block share its timestamp, a later block has a later one.
NextBlock ==
    /\ timestamp < MaxTime
    /\ timestamp' = timestamp + 1
    /\ UNCHANGED <<statuses, log>>

Next ==
    \/ \E by \in Accounts :
          \/ \E h \in Hashes :
                \/ IssueCredential(h, by)
                \/ RevokeCredential(h, by)
                \/ \E suspended \in BOOLEAN : UpdateCredentialStatus(h, suspended, by)
          \/ \E hs \in Batches : BatchRevokeCredential(hs, by)
    \/ NextBlock

Spec == Init /\ [][Next]_vars

-----------------------------------------------------------------------------
(* Properties.                                                             *)

\* What getCredentialStatus answers, as one word.
LifeOf(h) ==
    IF statuses[h].issuedAt = 0 THEN "unknown"
    ELSE IF statuses[h].revokedAt # 0 THEN "revoked"
    ELSE IF statuses[h].suspended THEN "suspended" ELSE "active"

Lifecycle == INSTANCE CredentialLifecycle WITH
                 life <- [h \in Hashes |-> LifeOf(h)],
                 controller <- [h \in Hashes |-> statuses[h].issuer]

\* The facet implements the lifecycle: no call, single or batched, moves a
\* credential outside it or on behalf of another account.
FollowsLifecycle == Lifecycle!Spec

\* A credential's events start with its issuance and nothing follows its
\* revocation, so an indexer that reads them in order never has to undo one.
LogInOrder ==
    \A j, k \in DOMAIN log : j < k /\ log[j].hash = log[k].hash =>
        /\ log[k].event # "Issued"
        /\ log[j].event # "Revoked"
        /\ log[j].by = log[k].by
        /\ log[j].at <= log[k].at

Logged(event, h, at) ==
    \E k \in DOMAIN log :
        /\ log[k].event = event /\ log[k].hash = h
        /\ log[k].at = at /\ log[k].by = statuses[h].issuer

LastToggleSuspends(h) ==
    \E k \in DOMAIN log :
        /\ log[k].event = "Suspended" /\ log[k].hash = h
        /\ \A j \in DOMAIN log :
              j > k /\ log[j].hash = h => log[j].event # "Unsuspended"

LogTells(h) ==
    /\ IF statuses[h].issuedAt = 0
       THEN \A k \in DOMAIN log : log[k].hash # h
       ELSE Logged("Issued", h, statuses[h].issuedAt)
    /\ IF statuses[h].revokedAt = 0
       THEN \A k \in DOMAIN log : log[k].hash = h => log[k].event # "Revoked"
       ELSE Logged("Revoked", h, statuses[h].revokedAt)
    /\ statuses[h].suspended <=> LastToggleSuspends(h)

\* The events alone tell the storage: an indexer that has seen them all knows
\* for every hash whether, when and by whom it was issued and revoked, and
\* whether it is suspended.
LogTellsStatus == \A h \in Hashes : LogTells(h)

\* "Revocación es permanente" (apps/web/app/docs/smart-contracts/facets): the
\* whole record of a revoked credential is frozen, whoever calls whatever.
RevokedIsFrozen ==
    [][\A h \in Hashes : statuses[h].revokedAt # 0 =>
          statuses'[h] = statuses[h]]_vars
=============================================================================
