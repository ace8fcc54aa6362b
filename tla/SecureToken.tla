---------------------------- MODULE SecureToken -----------------------------
(***************************************************************************)
(* SecureTokenService: signed tokens that are accepted once, by a table of *)
(* used ids that an hourly timer thins out.                                *)
(***************************************************************************)
EXTENDS Clock

CONSTANTS
    Tokens,     \* random ids
    ExpirySeconds,
    Skew,       \* seconds a token may claim to be issued ahead
    NoToken

Claims == [iat : Nat, exp : Nat]

ASSUME TokenAssumption ==
    {ExpirySeconds, Skew} \subseteq Nat /\ NoToken \notin Claims \cup Nat

VARIABLES
    claims,     \* of each token issued
    usedTokens, \* the service's table, id to expiry
    accepted,   \* history: how often each token was accepted
    revoked     \* history: tokens that were revoked

tokenVars == <<claims, usedTokens, accepted, revoked>>

TokenTypeOK ==
    /\ claims \in [Tokens -> Claims \cup {NoToken}]
    /\ usedTokens \in [Tokens -> Nat \cup {NoToken}]
    /\ accepted \in [Tokens -> Nat]
    /\ revoked \subseteq Tokens

\* The caller's claims come last: they may carry their own iat and exp.
Issue(t) ==
    /\ claims[t] = NoToken
    /\ \E iat \in now .. MaxTime, exp \in {now + ExpirySeconds} \cup 0 .. MaxTime :
          claims' = [claims EXCEPT ![t] = [iat |-> iat, exp |-> exp]]
    /\ UNCHANGED <<now, usedTokens, accepted, revoked>>

IsTokenUsed(t) == usedTokens[t] # NoToken

Verify(t) ==
    /\ claims[t] # NoToken
    /\ now =< claims[t].exp /\ claims[t].iat =< now + Skew
    /\ ~ IsTokenUsed(t)
    /\ usedTokens' = [usedTokens EXCEPT ![t] = claims[t].exp]
    /\ accepted' = [accepted EXCEPT ![t] = @ + 1]
    /\ UNCHANGED <<now, claims, revoked>>

Revoke(t) ==
    /\ claims[t] # NoToken
    /\ usedTokens' = [usedTokens EXCEPT ![t] = now]
    /\ revoked' = revoked \cup {t}
    /\ UNCHANGED <<now, claims, accepted>>

\* Fault: the table is thinned out at the last second of a token as well.
TooEarly(t) == IsTokenUsed(t) /\ usedTokens[t] =< now

ToDelete(t) == IsTokenUsed(t) /\ usedTokens[t] < now

CleanupExpiredTokens ==
    /\ \E t \in Tokens : ToDelete(t)
    /\ usedTokens' = [t \in Tokens |-> IF ToDelete(t) THEN NoToken ELSE usedTokens[t]]
    /\ UNCHANGED <<now, claims, accepted, revoked>>

TokenInit ==
    /\ ClockInit
    /\ claims = [t \in Tokens |-> NoToken]
    /\ usedTokens = [t \in Tokens |-> NoToken]
    /\ accepted = [t \in Tokens |-> 0]
    /\ revoked = {}

TokenNext ==
    \/ \E t \in Tokens : Issue(t) \/ Verify(t) \/ Revoke(t)
    \/ CleanupExpiredTokens
    \/ Tick /\ UNCHANGED tokenVars

TokenSpec == TokenInit /\ [][TokenNext]_<<now, tokenVars>>

-----------------------------------------------------------------------------

\* A token is accepted once: when the timer forgets it, it has expired.  (Of a
\* token that was revoked this is false: see the README.)
TokensAreOnce == \A t \in Tokens \ revoked : accepted[t] =< 1

=============================================================================
