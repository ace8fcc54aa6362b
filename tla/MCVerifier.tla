----------------------------- MODULE MCVerifier -----------------------------
(* The verifier's list of issuers with its requests, its index of          *)
(* credentials, or one file of its store: one of them runs.                *)
EXTENDS Verification, HybridStore, FileStore, TLC

VARIABLE service

Init ==
    /\ VerificationInit /\ HybridInit /\ StoreInit
    /\ service \in {"issuers", "hybrid", "file"}

Next ==
    /\ UNCHANGED service
    /\ \/ service = "issuers" /\ VerificationNext /\ UNCHANGED <<hybridVars, storeVars>>
       \/ service = "hybrid" /\ HybridNext /\ UNCHANGED <<cacheVars, verifyVars, storeVars>>
       \/ service = "file" /\ StoreNext /\ UNCHANGED <<cacheVars, verifyVars, hybridVars>>

Spec == Init /\ [][Next]_<<cacheVars, verifyVars, hybridVars, storeVars, service>>

Symmetry == Permutations(Creds)

=============================================================================
