----------------------------- MODULE FacetTable -----------------------------
(***************************************************************************)
(* What a diamond promises: a table that sends each function selector to   *)
(* the facet it was last cut to, changed only by whole cuts.               *)
(***************************************************************************)
CONSTANTS Selectors, Facets, Zero, This, None

VARIABLES
    table,  \* each selector's facet, or Zero
    draft   \* the table as the cut in progress has it so far, or None

Begin == draft = None /\ draft' = table /\ UNCHANGED table

Add(s, f) ==
    /\ draft # None /\ draft[s] = Zero
    /\ draft' = [draft EXCEPT ![s] = f] /\ UNCHANGED table

\* A function of the diamond itself is immutable.
Replace(s, f) ==
    /\ draft # None /\ draft[s] \notin {Zero, This, f}
    /\ draft' = [draft EXCEPT ![s] = f] /\ UNCHANGED table

Remove(s) ==
    /\ draft # None /\ draft[s] \notin {Zero, This}
    /\ draft' = [draft EXCEPT ![s] = Zero] /\ UNCHANGED table

Commit == draft # None /\ table' = draft /\ draft' = None
Revert == draft # None /\ draft' = None /\ UNCHANGED table

Next ==
    \/ Begin \/ Commit \/ Revert
    \/ \E s \in Selectors : Remove(s) \/ \E f \in Facets : Add(s, f) \/ Replace(s, f)

Spec == table \in [Selectors -> Facets \cup {Zero}] /\ draft = None
        /\ [][Next]_<<table, draft>>

=============================================================================
