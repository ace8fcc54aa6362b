----------------------------- MODULE SecureOTP ------------------------------
(***************************************************************************)
(* SecureOTPService: codes compared under a rate limit kept per identifier *)
(* in memory, with a block that a timer lifts.                             *)
(***************************************************************************)
EXTENDS Clock, Sequences, FiniteSets

CONSTANTS
    Identifiers,
    MaxAttempts, WindowSeconds, BlockDuration,
    OtpExpiry,      \* seconds a code lives
    MaxTries,       \* bound: attempts, per identifier
    NoTime

ASSUME OtpAssumption ==
    /\ {MaxAttempts, WindowSeconds, BlockDuration, OtpExpiry, MaxTries} \subseteq Nat
    /\ WindowSeconds =< BlockDuration     \* five minutes and fifteen
    /\ NoTime \notin Nat

VARIABLES
    attempts,   \* per identifier, the times of its failures; no record is <<>>
    unblockAt,  \* when the timer of its block fires, or none: not blocked
    expiresAt,  \* of the code it was sent, or none
    guesses     \* history: times of the wrong codes compared since a right one

otpVars == <<attempts, unblockAt, expiresAt, guesses>>

OtpTypeOK ==
    /\ attempts \in [Identifiers -> Seq(Nat)]
    /\ unblockAt \in [Identifiers -> Nat \cup {NoTime}]
    /\ expiresAt \in [Identifiers -> Nat \cup {NoTime}]
    /\ guesses \in [Identifiers -> Seq(Nat)]

IsBlocked(i) == unblockAt[i] # NoTime

\* How many of these times lie in the window.
Recent(times) == Cardinality({k \in DOMAIN times : now < times[k] + WindowSeconds})

RateLimited(i) == Recent(attempts[i]) >= MaxAttempts

RecordAttempt(i) == attempts' = [attempts EXCEPT ![i] = Append(@, now)]

Generate(i) ==
    /\ expiresAt' = [expiresAt EXCEPT ![i] = now + OtpExpiry]
    /\ UNCHANGED <<now, attempts, unblockAt, guesses>>

\* verify, up to the checks that come before the comparison.
Tries(i) ==
    /\ expiresAt[i] # NoTime /\ now =< expiresAt[i]
    /\ ~ IsBlocked(i)
    /\ Len(attempts[i]) < MaxTries

BadFormat(i) ==
    /\ Tries(i) /\ RecordAttempt(i)
    /\ UNCHANGED <<now, unblockAt, expiresAt, guesses>>

Blocks(i) ==
    /\ Tries(i) /\ RateLimited(i)
    /\ unblockAt' = [unblockAt EXCEPT ![i] = now + BlockDuration]
    /\ UNCHANGED <<now, attempts, expiresAt, guesses>>

WrongCode(i) ==
    /\ Tries(i) /\ ~ RateLimited(i) /\ Len(guesses[i]) < MaxTries
    /\ RecordAttempt(i)
    /\ guesses' = [guesses EXCEPT ![i] = Append(@, now)]
    /\ UNCHANGED <<now, unblockAt, expiresAt>>

\* clearRateLimit
RightCode(i) ==
    /\ Tries(i) /\ ~ RateLimited(i)
    /\ attempts' = [attempts EXCEPT ![i] = <<>>]
    /\ guesses' = [guesses EXCEPT ![i] = <<>>]
    /\ UNCHANGED <<now, unblockAt, expiresAt>>

BlockEnds(i) ==
    /\ IsBlocked(i) /\ unblockAt[i] =< now
    /\ attempts' = [attempts EXCEPT ![i] = <<>>]
    /\ unblockAt' = [unblockAt EXCEPT ![i] = NoTime]
    /\ UNCHANGED <<now, expiresAt, guesses>>

\* Fault: a record goes when it is not blocked, recent failures or not.
Unblocked(i) == attempts[i] # <<>> /\ ~ IsBlocked(i)

Forgettable(i) == attempts[i] # <<>> /\ Recent(attempts[i]) = 0 /\ ~ IsBlocked(i)

Cleanup ==
    /\ \E i \in Identifiers : Forgettable(i)
    /\ attempts' = [i \in Identifiers |-> IF Forgettable(i) THEN <<>> ELSE attempts[i]]
    /\ UNCHANGED <<now, unblockAt, expiresAt, guesses>>

OtpInit ==
    /\ ClockInit
    /\ attempts = [i \in Identifiers |-> <<>>]
    /\ unblockAt = [i \in Identifiers |-> NoTime]
    /\ expiresAt = [i \in Identifiers |-> NoTime]
    /\ guesses = [i \in Identifiers |-> <<>>]

OtpNext ==
    \/ \E i \in Identifiers :
          \/ Generate(i) \/ BadFormat(i) \/ Blocks(i)
          \/ WrongCode(i) \/ RightCode(i) \/ BlockEnds(i)
    \/ Cleanup
    \/ Tick /\ UNCHANGED otpVars

OtpSpec == OtpInit /\ [][OtpNext]_<<now, otpVars>>

-----------------------------------------------------------------------------

\* Whatever is cleaned up or unblocked meanwhile, no window has more wrong
\* codes compared than the limit, unless the right one was.
GuessesAreBounded == \A i \in Identifiers : Recent(guesses[i]) =< MaxAttempts

=============================================================================
