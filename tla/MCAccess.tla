------------------------------ MODULE MCAccess ------------------------------
(* Login, tokens, codes, the claim page, the wallet page, the snap and the  *)
(* issuer's database side by side: one of them runs, the first three with   *)
(* the clock.                                                               *)
EXTENDS WalletLogin, SecureToken, SecureOTP, ClaimPage, WalletPage, SnapStore, Database, TLC

CONSTANTS h1, h2, v1, v2

VARIABLE service

\* Each holder has one credential, and is no different from the other.
MCHolderOf == (v1 :> h1) @@ (v2 :> h2)

Symmetry ==
    Permutations(Nonces) \cup {(h1 :> h2) @@ (h2 :> h1) @@ (v1 :> v2) @@ (v2 :> v1)}

Init ==
    /\ LoginInit /\ TokenInit /\ OtpInit /\ ClaimInit /\ WalletPageInit /\ SnapInit /\ DbInit
    /\ service \in {"login", "token", "otp", "claim", "wallet", "snap", "database"}
    \* One initial database and page for the others.
    /\ service # "database" => memory
    /\ service # "wallet" => account = NoAccount /\ ~ snapInstalled

Next ==
    /\ UNCHANGED service
    /\ \/ /\ service = "login" /\ LoginNext
          /\ UNCHANGED <<tokenVars, otpVars, claimVars, pageVars, snapVars, dbVars>>
       \/ /\ service = "token" /\ TokenNext
          /\ UNCHANGED <<loginVars, otpVars, claimVars, pageVars, snapVars, dbVars>>
       \/ /\ service = "otp" /\ OtpNext
          /\ UNCHANGED <<loginVars, tokenVars, claimVars, pageVars, snapVars, dbVars>>
       \/ /\ service = "claim" /\ ClaimNext
          /\ UNCHANGED <<now, loginVars, tokenVars, otpVars, pageVars, snapVars, dbVars>>
       \/ /\ service = "wallet" /\ WalletPageNext
          /\ UNCHANGED <<now, loginVars, tokenVars, otpVars, claimVars, snapVars, dbVars>>
       \/ /\ service = "snap" /\ SnapNext
          /\ UNCHANGED <<now, loginVars, tokenVars, otpVars, claimVars, pageVars, dbVars>>
       \/ /\ service = "database" /\ DbNext
          /\ UNCHANGED <<now, loginVars, tokenVars, otpVars, claimVars, pageVars, snapVars>>

Spec == Init /\ [][Next]_<<now, loginVars, tokenVars, otpVars, claimVars, pageVars, snapVars,
                        dbVars, service>>

\* Columns that a database made by an older version may lack, together.
MCDated == {{}, {"vc_data"}, {"vc_holder", "holder_address"}, {"status", "created_at"},
            {"updated_at", "name"}, {"name", "email"}, Columns}

AccessTypeOK ==
    /\ LoginTypeOK /\ TokenTypeOK /\ OtpTypeOK /\ ClaimTypeOK
    /\ WalletPageTypeOK /\ SnapTypeOK /\ DbTypeOK

=============================================================================
