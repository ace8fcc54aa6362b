---------------------------- MODULE MCContracts ----------------------------
(* A small chain for TLC, one facet or the other: the statuses of          *)
(* credentials, with the batch as the loop the library runs, or the issuer *)
(* registry, with its list as a reader pages through it.  Or neither, and  *)
(* the diamond they are facets of is only being deployed.                  *)
EXTENDS CredentialStatus, TrustedIssuers, Deployment, TLC, SequencesExt

VARIABLE facet

MCInit ==
    /\ Init /\ RegistryInit /\ DeployInit
    /\ facet \in {"status", "issuers", "deployment"}

MCNext ==
    /\ UNCHANGED facet
    /\ \/ facet = "status" /\ Next /\ UNCHANGED <<registryVars, deployVars>>
       \/ facet = "issuers" /\ RegistryNext /\ UNCHANGED <<vars, deployVars>>
       \/ facet = "deployment" /\ DeployNext /\ UNCHANGED <<vars, registryVars>>

MCSpec == MCInit /\ [][MCNext]_<<vars, registryVars, deployVars, facet>>

Symmetry ==
    Permutations(Hashes) \cup Permutations(Accounts) \cup Permutations(Addresses)
        \cup Permutations(Services) \cup Permutations(DiamondAddresses)

\* One turn of LibCredentialStatus.batchRevoke: revoke, or revert everything.
RevokeTurn(acc, h, by) ==
    LET s == acc.statuses[h] IN
    IF acc.reverted \/ s.issuedAt = 0 \/ s.revokedAt # 0 \/ s.issuer # by
    THEN [acc EXCEPT !.reverted = TRUE]
    ELSE [acc EXCEPT !.statuses[h].revokedAt = timestamp]

RevokeLoop(hs, by) ==
    LET turn[k \in 0 .. Len(hs)] ==
            IF k = 0 THEN [statuses |-> statuses, reverted |-> FALSE]
            ELSE RevokeTurn(turn[k - 1], hs[k], by)
    IN  turn[Len(hs)]

\* batchRevokeCredential as the model has it is the loop of the library, for
\* every batch, repeated and foreign hashes included: it reverts whenever a
\* turn reverts and otherwise leaves the same storage.
BatchIsTheLoop ==
    \A hs \in Batches, by \in Accounts :
        LET loop == RevokeLoop(hs, by) IN
        /\ BatchRevocable(hs, by) <=> ~loop.reverted
        /\ ~loop.reverted => loop.statuses = BatchRevoked(hs)

PagesRead(limit) ==
    [p \in 1 .. Len(issuerList) + 1 |-> GetIssuers((p - 1) * limit, limit)]

\* Pages of any size, read one after the other between two transactions, are
\* the list, whole and in order, unless one of them reverts.
PagesAreTheList ==
    \A limit \in 1 .. MaxUint :
        (\A p \in 1 .. Len(issuerList) + 1 : ~Overflows((p - 1) * limit, limit))
            => FlattenSeq(PagesRead(limit)) = issuerList
=============================================================================
