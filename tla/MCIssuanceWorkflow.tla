------------------------- MODULE MCIssuanceWorkflow -------------------------
(* IssuanceWorkflow on small instances, for TLC. *)
EXTENDS IssuanceWorkflow, TLC

\* Issuers, holders and requests are never compared but for equality.
Symmetry == Permutations(Issuers) \cup Permutations(Holders)
                \cup Permutations(Reqs)
=============================================================================
