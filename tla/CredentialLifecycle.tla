------------------------- MODULE CredentialLifecycle -------------------------
(***************************************************************************)
(* What the chain promises about a credential: once registered it belongs  *)
(* to the account that registered it, which alone may suspend, resume and  *)
(* revoke it, and a revoked credential stays as it is for ever.            *)
(***************************************************************************)
CONSTANTS Hashes, Accounts, Nobody

VARIABLES
    life,       \* life[h]: "unknown", "active", "suspended" or "revoked"
    controller  \* controller[h]: the account that registered h

vars == <<life, controller>>

Init ==
    /\ life = [h \in Hashes |-> "unknown"]
    /\ controller = [h \in Hashes |-> Nobody]

Register(h, by) ==
    /\ life[h] = "unknown"
    /\ life' = [life EXCEPT ![h] = "active"]
    /\ controller' = [controller EXCEPT ![h] = by]

\* Several credentials of one account may be revoked at once.
RevokeAll(H, by) ==
    /\ \A h \in H : life[h] \in {"active", "suspended"} /\ controller[h] = by
    /\ life' = [h \in Hashes |-> IF h \in H THEN "revoked" ELSE life[h]]
    /\ UNCHANGED controller

Move(h, by, from, to) ==
    /\ life[h] = from /\ controller[h] = by
    /\ life' = [life EXCEPT ![h] = to]
    /\ UNCHANGED controller

Next ==
    \E by \in Accounts :
        \/ \E h \in Hashes : \/ Register(h, by)
                             \/ Move(h, by, "active", "suspended")
                             \/ Move(h, by, "suspended", "active")
        \/ \E H \in SUBSET Hashes : RevokeAll(H, by)

Spec == Init /\ [][Next]_vars
=============================================================================
