---------------------------- MODULE MCEventSync ----------------------------
(* EventSync on small instances, for TLC. *)
EXTENDS EventSync, TLC

\* Credentials, issuers and passes are never compared but for equality.
Symmetry == Permutations(Credentials) \cup Permutations(Accounts)
                \cup Permutations(Passes)
=============================================================================
