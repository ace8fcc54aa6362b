---------------------------- MODULE Verification ----------------------------
(***************************************************************************)
(* POST /verify: the signature of a credential, and whether the registry   *)
(* trusts its signer.  The request waits for the node in between, while    *)
(* the registry changes and its service stops and starts.                  *)
(*                                                                         *)
(* Nobody asks whether the signer is the credential's issuer: it is        *)
(* compared with proof.verificationMethod, and only if there is one.       *)
(*                                                                         *)
(* server.onchainService is never set: the checks of issuance and          *)
(* revocation on chain that follow are never made.                         *)
(***************************************************************************)
EXTENDS IssuerCache

CONSTANTS
    Signers,    \* the issuers whose credentials are presented
    Nobody      \* no address

ASSUME SignerAssumption == Signers \subseteq Issuers /\ Nobody \notin Issuers

\* A credential: whom its signature recovers to, and its proof's
\* verificationMethod, if it has one.
Credentials == [signer : Signers \cup {Nobody}, method : {"none", "signer", "another"}]

VARIABLES
    request,    \* the request that waits for the registry
    answer      \* the answer just given

verifyVars == <<request, answer>>

\* seen: history, whether the signer was trusted at some time since it came
Request == [credential : Credentials, seen : BOOLEAN]
NoRequest == [credential |-> Nobody]
Answer ==
    [credential : Credentials, valid : BOOLEAN,
     trustedIssuer : {"VALID", "INVALID", "N/A"}, seen : BOOLEAN, up : BOOLEAN]
NoAnswer == [credential |-> Nobody]

VerifyTypeOK ==
    /\ request \in Request \cup {NoRequest}
    /\ answer \in Answer \cup {NoAnswer}

\* issuerResult.ok, before the registry is asked.
SignatureOk(c) == c.signer # Nobody /\ c.method # "another"

\* A credential without proof or subject is refused with 400.
PostVerify(c) ==
    /\ request = NoRequest /\ answer = NoAnswer
    /\ IF up /\ c.signer # Nobody
       THEN /\ request' = [credential |-> c, seen |-> Trusted(c.signer)]
            /\ UNCHANGED answer
       ELSE /\ answer' = [credential |-> c, valid |-> SignatureOk(c),
                          trustedIssuer |-> "N/A", seen |-> FALSE, up |-> up]
            /\ UNCHANGED request
    /\ UNCHANGED cacheVars

\* Fault: the service's own list is asked.
Listed(a) == state.issuers[a].addedAt # 0 /\ state.issuers[a].removedAt = 0

IsTrustedIssuer(a) == Trusted(a)

TrustAnswered ==
    /\ request # NoRequest
    /\ LET c == request.credential
           trusted == IsTrustedIssuer(c.signer)
       IN  answer' = [credential |-> c, valid |-> SignatureOk(c) /\ trusted,
                      trustedIssuer |-> IF trusted THEN "VALID" ELSE "INVALID",
                      seen |-> request.seen, up |-> TRUE]
    /\ request' = NoRequest
    /\ UNCHANGED cacheVars

\* 500, or the process ends.
TrustUnanswered ==
    /\ request # NoRequest
    /\ request' = NoRequest
    /\ UNCHANGED <<cacheVars, answer>>

\* The answer is sent before anything else happens: it changes nothing.
Reply ==
    /\ answer # NoAnswer /\ answer' = NoAnswer
    /\ UNCHANGED <<cacheVars, request>>

Meanwhile ==
    /\ answer = NoAnswer
    /\ CacheNext /\ UNCHANGED answer
    /\ \/ request = NoRequest /\ UNCHANGED request
       \/ \E a \in Signers :
             /\ request # NoRequest /\ request.credential.signer = a
             /\ request' = [request EXCEPT !.seen = @ \/ Trusted(a)']

VerificationInit == CacheInit /\ request = NoRequest /\ answer = NoAnswer

VerificationNext ==
    \/ \E c \in Credentials : PostVerify(c)
    \/ TrustAnswered \/ TrustUnanswered \/ Reply
    \/ Meanwhile

VerificationSpec == VerificationInit /\ [][VerificationNext]_<<cacheVars, verifyVars>>

-----------------------------------------------------------------------------

\* The signer of a credential answered as valid was trusted by the registry at some
\* moment of the request, whatever the verifier's own list missed: unless the
\* registry's service was down, when nobody is asked.  Who that signer is, the
\* answer tells only by the verificationMethod, if there is one.
ValidIsTrusted == answer # NoAnswer /\ answer.valid /\ answer.up => answer.seen

=============================================================================
