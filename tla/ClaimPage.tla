------------------------------ MODULE ClaimPage -----------------------------
(***************************************************************************)
(* The page a mailed link opens (app/claim/[token]/page.tsx), its store    *)
(* (claim-store.ts) and sign-in (use-alastria-auth.ts), against the        *)
(* issuer's finalize, which IssuanceWorkflow models.                       *)
(*                                                                         *)
(* The store outlives the page until the browser loads it anew, and so do  *)
(* the calls that a page left behind: they still write to the store.       *)
(***************************************************************************)
EXTENDS Naturals, SequencesExt

CONSTANTS
    MaxOtpAttempts, \* maxOtpAttempts of the store
    MaxMounts,      \* bound: times the page is shown without a reload
    MaxCalls        \* bound: calls without an answer, and overlapping claims

ASSUME ClaimAssumption == {MaxOtpAttempts, MaxMounts, MaxCalls} \subseteq Nat

Steps == {"loading", "invalid", "connect", "validate", "sign", "claiming", "success"}
Otps == {"none", "wrong", "right"}
Wallets == {"none", "holder", "other"}
Call ==
    [mount : Nat, kind : {"tokenInfo", "signIn", "resend", "finalize"},
     otp : Otps, signer : Wallets]

VARIABLES
    step, otp, otpAttempts, isLoading,      \* the store
    mount,          \* which showing of the page this is
    isAuthenticating, isAuthenticated,      \* state of this showing
    address,        \* the wallet's account
    calls,          \* the calls without an answer
    claimed,        \* the issuer's record: ISSUED or CLAIMED
    expired,        \* expiresAt is past, here and there
    wrong,          \* history: wrong codes refused since the attempts were reset
    overlapped      \* history: finalize calls sent with another under way since
                    \* then, and those under way at the time

store == <<step, otp, otpAttempts, isLoading>>
showing == <<mount, isAuthenticating, isAuthenticated>>
ghosts == <<wrong, overlapped>>
claimVars == <<store, showing, address, calls, claimed, expired, ghosts>>

ClaimTypeOK ==
    /\ step \in Steps /\ otp \in Otps
    /\ otpAttempts \in 0 .. MaxOtpAttempts
    /\ {isLoading, isAuthenticating, isAuthenticated, claimed, expired} \subseteq BOOLEAN
    /\ address \in Wallets
    /\ calls \in Seq(Call)
    /\ {mount, wrong, overlapped} \subseteq Nat

Pending(kind) == Cardinality({i \in DOMAIN calls : calls[i].kind = kind})

Calling(kind, code, signer) ==
    /\ Len(calls) < MaxCalls
    /\ calls' = Append(calls, [mount |-> mount, kind |-> kind, otp |-> code, signer |-> signer])

Answers(i, kind) ==
    /\ i \in DOMAIN calls /\ calls[i].kind = kind
    /\ calls' = RemoveAt(calls, i)

-----------------------------------------------------------------------------
(* Showing the page. *)

\* The address is opened or loaded again.  Calls sent may yet be carried out.
Reload ==
    /\ step' = "loading" /\ otp' = "none" /\ otpAttempts' = 0 /\ isLoading' = FALSE
    /\ mount' = 1 /\ isAuthenticating' = FALSE /\ isAuthenticated' = FALSE
    /\ calls' = <<[mount |-> 1, kind |-> "tokenInfo", otp |-> "none", signer |-> "none"]>>
    /\ \/ UNCHANGED claimed
       \/ /\ \E i \in DOMAIN calls :
                calls[i].kind = "finalize" /\ calls[i].otp = "right" /\ calls[i].signer = "holder"
          /\ ~ expired /\ claimed' = TRUE
    /\ wrong' = 0 /\ overlapped' = 0
    /\ UNCHANGED <<address, expired>>

\* The holder leaves for another page of the site and comes back.
Remount ==
    /\ mount < MaxMounts /\ Len(calls) < MaxCalls
    /\ mount' = mount + 1
    /\ isAuthenticating' = FALSE /\ isAuthenticated' = FALSE
    /\ step' = "loading"
    /\ calls' = Append(calls,
           [mount |-> mount + 1, kind |-> "tokenInfo", otp |-> "none", signer |-> "none"])
    /\ UNCHANGED <<otp, otpAttempts, isLoading, address, claimed, expired, ghosts>>

\* validateToken.  No answer is as bad as a bad one.
TokenInfoAnswered(i) ==
    /\ Answers(i, "tokenInfo")
    /\ \E valid \in {FALSE, ~ claimed /\ ~ expired} :
          step' = IF valid THEN "connect" ELSE "invalid"
    /\ UNCHANGED <<otp, otpAttempts, isLoading, showing, address, claimed, expired, ghosts>>

-----------------------------------------------------------------------------
(* Connecting and signing in. *)

AccountChanges(a) ==
    /\ a # address /\ address' = a
    /\ isAuthenticated' = (isAuthenticated /\ a # "none")
    /\ UNCHANGED <<store, mount, isAuthenticating, calls, claimed, expired, ghosts>>

\* The effect signs in by itself, again after each failure.
Authenticate ==
    /\ step = "connect" /\ address = "holder"
    /\ ~ isAuthenticated /\ ~ isAuthenticating
    /\ Calling("signIn", "none", address)
    /\ isAuthenticating' = TRUE /\ isLoading' = TRUE
    /\ UNCHANGED <<step, otp, otpAttempts, mount, isAuthenticated,
                   address, claimed, expired, ghosts>>

SignInAnswered(i) ==
    /\ Answers(i, "signIn")
    /\ \E ok \in BOOLEAN :
          /\ step' = IF ok THEN "validate" ELSE step
          /\ IF calls[i].mount = mount
             THEN isAuthenticating' = FALSE /\ isAuthenticated' = ok
             ELSE UNCHANGED <<isAuthenticating, isAuthenticated>>
    /\ isLoading' = FALSE
    /\ UNCHANGED <<otp, otpAttempts, mount, address, claimed, expired, ghosts>>

-----------------------------------------------------------------------------
(* The code. *)

\* validateOtp of a code of six digits, by its last one or by the button.
EnterOtp(code) ==
    /\ step = "validate" /\ ~ isLoading
    /\ otp' = code
    /\ step' = IF otpAttempts < MaxOtpAttempts THEN "sign" ELSE step
    /\ UNCHANGED <<otpAttempts, isLoading, showing, address, calls, claimed, expired, ghosts>>

ResendOtp ==
    /\ step = "validate" /\ ~ isLoading
    /\ Calling("resend", "none", "none")
    /\ isLoading' = TRUE
    /\ UNCHANGED <<step, otp, otpAttempts, showing, address, claimed, expired, ghosts>>

\* Nothing is sent: a second later the attempts are reset.
Resent(i) ==
    /\ Answers(i, "resend")
    /\ isLoading' = FALSE /\ otp' = "none" /\ otpAttempts' = 0
    /\ wrong' = 0 /\ overlapped' = Pending("finalize")
    /\ UNCHANGED <<step, showing, address, claimed, expired>>

Expires == ~ expired /\ expired' = TRUE
           /\ UNCHANGED <<store, showing, address, calls, claimed, ghosts>>

\* The countdown looks at the code's step only.
TimerEnds ==
    /\ step = "validate" /\ expired
    /\ step' = "invalid"
    /\ UNCHANGED <<otp, otpAttempts, isLoading, showing, address, calls, claimed, expired, ghosts>>

-----------------------------------------------------------------------------
(* handleSign. *)

HandleSign ==
    /\ step = "sign" /\ ~ isLoading /\ address # "none"
    /\ Calling("finalize", otp, address)
    /\ step' = "claiming" /\ isLoading' = TRUE
    /\ overlapped' = overlapped + (IF Pending("finalize") = 0 THEN 0 ELSE 1)
    /\ overlapped' =< MaxCalls
    /\ UNCHANGED <<otp, otpAttempts, showing, address, claimed, expired, wrong>>

\* Fault: the error is shown, the attempt not counted.
ShowError == step' = "validate" /\ otp' = "none" /\ UNCHANGED otpAttempts

\* setError(..., true), for a refused code and for a refused token.
BackToValidate ==
    /\ step' = "validate" /\ otp' = "none"
    /\ otpAttempts' = IF otpAttempts < MaxOtpAttempts THEN otpAttempts + 1 ELSE otpAttempts

BackToSign == step' = "sign" /\ UNCHANGED <<otp, otpAttempts>>

\* The wallet refuses the network or the signature, or no answer comes, with
\* the credential claimed or not.
FinalizeFails(i) ==
    /\ Answers(i, "finalize")
    /\ BackToSign /\ isLoading' = FALSE
    /\ \/ UNCHANGED claimed
       \/ calls[i].otp = "right" /\ calls[i].signer = "holder" /\ ~ expired /\ claimed' = TRUE
    /\ UNCHANGED <<showing, address, expired, ghosts>>

\* The signer is not the token's, then the record, then the code.
FinalizeAnswered(i) ==
    /\ Answers(i, "finalize")
    /\ LET c == calls[i]
       IN  \/ /\ c.signer # "holder"
              /\ BackToValidate /\ UNCHANGED <<claimed, wrong>>
           \/ /\ c.signer = "holder" /\ (expired \/ claimed)
              /\ BackToSign /\ UNCHANGED <<claimed, wrong>>
           \/ /\ c.signer = "holder" /\ ~ expired /\ ~ claimed /\ c.otp # "right"
              /\ BackToValidate
              /\ wrong' = IF c.otp = "wrong" THEN wrong + 1 ELSE wrong
              /\ UNCHANGED claimed
           \/ /\ c.signer = "holder" /\ ~ expired /\ ~ claimed /\ c.otp = "right"
              /\ step' = "success" /\ claimed' = TRUE
              /\ UNCHANGED <<otp, otpAttempts, wrong>>
    /\ isLoading' = FALSE
    /\ UNCHANGED <<showing, address, expired, overlapped>>

-----------------------------------------------------------------------------

ClaimInit ==
    /\ step = "loading" /\ otp = "none" /\ otpAttempts = 0 /\ isLoading = FALSE
    /\ mount = 1 /\ isAuthenticating = FALSE /\ isAuthenticated = FALSE
    /\ address = "none"
    /\ calls = <<[mount |-> 1, kind |-> "tokenInfo", otp |-> "none", signer |-> "none"]>>
    /\ claimed = FALSE /\ expired = FALSE
    /\ wrong = 0 /\ overlapped = 0

ClaimNext ==
    \/ Reload \/ Remount
    \/ \E a \in Wallets : AccountChanges(a)
    \/ Authenticate
    \/ \E code \in {"wrong", "right"} : EnterOtp(code)
    \/ ResendOtp \/ Expires \/ TimerEnds \/ HandleSign
    \/ \E i \in DOMAIN calls :
          \/ TokenInfoAnswered(i) \/ SignInAnswered(i) \/ Resent(i)
          \/ FinalizeFails(i) \/ FinalizeAnswered(i)

ClaimSpec == ClaimInit /\ [][ClaimNext]_claimVars

-----------------------------------------------------------------------------

\* Until the attempts are reset, a holder has at most maxOtpAttempts wrong codes
\* refused, and one more for every claim sent while another is under way, whose
\* refusal comes too late to keep it back, or under way when they are reset.  The
\* page sends one at a time only as long as nobody leaves it in between.
WrongCodesAreCounted == wrong =< MaxOtpAttempts + overlapped

=============================================================================
