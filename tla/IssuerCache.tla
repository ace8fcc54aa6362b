----------------------------- MODULE IssuerCache ----------------------------
(***************************************************************************)
(* The verifier's own list of trusted issuers                              *)
(* (TrustedIssuerRegistryService): a state file kept by sync passes and by *)
(* two listeners, and a SQLite table kept by the listeners alone.          *)
(*                                                                         *)
(* A pass and a listener read the whole file, wait for the node, and write *)
(* the whole file.  A block holds one event.                               *)
(***************************************************************************)
EXTENDS Naturals, Sequences, FiniteSets

CONSTANTS
    Issuers,
    Passes,         \* calls of sync that may run at once
    Starter,        \* the one of them that start makes
    MaxBlocks       \* bound: blocks with an event

ASSUME PassAssumption == Starter \in Passes /\ MaxBlocks \in Nat

VARIABLES
    log,        \* the registry's events on chain, block by block
    state,      \* trusted-issuers/state.json
    rows,       \* the SQLite table
    passes,     \* what each call of sync holds, by its phase
    bound,      \* listenerBound
    queue,      \* blocks whose event the listeners were given, not yet read on
    handling,   \* listeners' calls that wait for a name
    up,         \* server.trustedIssuerRegistry is set
    tainted     \* history: a listener wrote over what a pass had left

cacheVars == <<log, state, rows, passes, bound, queue, handling, up, tainted>>

Event == [kind : {"added", "removed"}, issuer : Issuers]

\* addedAtBlock and removedAtBlock; zero is undefined, twice zero no record.
Record == [addedAt : Nat, removedAt : Nat]
Unknown == [addedAt |-> 0, removedAt |-> 0]
StoredState == [issuers : [Issuers -> Record], mark : Nat]

Idle == [phase |-> "idle"]
Reading == [phase : {"reading"}, base : StoredState, tainted : BOOLEAN, start : Nat]
Saving ==
    [phase : {"saving"}, base : StoredState, tainted : BOOLEAN, start : Nat, latest : Nat]

CacheTypeOK ==
    /\ log \in Seq(Event)
    /\ state \in StoredState
    /\ rows \in [Issuers -> Record]
    /\ passes \in [Passes -> {Idle} \cup Reading \cup Saving]
    /\ bound \in BOOLEAN /\ up \in BOOLEAN /\ tainted \in BOOLEAN
    /\ queue \subseteq Nat
    /\ handling \subseteq [block : Nat, base : StoredState]

Larger(m, n) == IF m > n THEN m ELSE n

\* The last block of a range with this event, or zero.
LastBlock(kind, a, from, to) ==
    LET blocks == {b \in DOMAIN log : from =< b /\ b =< to /\ log[b] = [kind |-> kind, issuer |-> a]}
    IN  IF blocks = {} THEN 0 ELSE CHOOSE b \in blocks : \A c \in blocks : c =< b

Trusted(a) ==
    LastBlock("removed", a, 1, Len(log)) < LastBlock("added", a, 1, Len(log))

-----------------------------------------------------------------------------
(* The chain. *)

Emit(kind, a) ==
    /\ Len(log) < MaxBlocks
    /\ Trusted(a) = (kind = "removed")
    /\ log' = Append(log, [kind |-> kind, issuer |-> a])
    /\ queue' = IF bound THEN queue \cup {Len(log')} ELSE queue
    /\ UNCHANGED <<state, rows, passes, bound, handling, up, tainted>>

-----------------------------------------------------------------------------
(* sync. *)

BeginSync(p, start) ==
    /\ passes[p] = Idle
    /\ IF p = Starter THEN ~ bound /\ ~ up /\ start = state.mark ELSE up
    /\ passes' = [passes EXCEPT ![p] =
           [phase |-> "reading", base |-> state, tainted |-> tainted, start |-> start]]
    /\ UNCHANGED <<log, state, rows, bound, queue, handling, up, tainted>>

\* Nothing new: everything is read again.
QuerySync(p) ==
    /\ passes[p].phase = "reading"
    /\ LET q == passes[p]
       IN  passes' = [passes EXCEPT ![p] =
               [phase |-> "saving", base |-> q.base, tainted |-> q.tainted,
                start |-> IF Len(log) < q.start THEN 0 ELSE q.start, latest |-> Len(log)]]
    /\ UNCHANGED <<log, state, rows, bound, queue, handling, up, tainted>>

\* Fault: the removals first, then the additions.
RemovedFirst(issuers, from, to) ==
    [a \in Issuers |->
        LET added == LastBlock("added", a, from, to)
            removed == LastBlock("removed", a, from, to)
        IN  IF added # 0 THEN [addedAt |-> added, removedAt |-> 0]
            ELSE IF removed # 0 THEN [issuers[a] EXCEPT !.removedAt = removed]
            ELSE issuers[a]]

\* The additions of a range, each a new record, then the removals.
Updated(issuers, from, to) ==
    [a \in Issuers |->
        LET added == LastBlock("added", a, from, to)
            removed == LastBlock("removed", a, from, to)
            entry == IF added = 0 THEN issuers[a] ELSE [addedAt |-> added, removedAt |-> 0]
        IN  IF removed = 0 THEN entry ELSE [entry EXCEPT !.removedAt = removed]]

SaveSync(p) ==
    /\ passes[p].phase = "saving"
    /\ LET q == passes[p]
       IN  /\ state' = [issuers |-> Updated(q.base.issuers, q.start, q.latest),
                        mark |-> q.latest + 1]
           /\ tainted' = (q.tainted /\ q.start > 1)
    /\ passes' = [passes EXCEPT ![p] = Idle]
    /\ IF p = Starter THEN bound' = TRUE /\ up' = TRUE ELSE UNCHANGED <<bound, up>>
    /\ UNCHANGED <<log, rows, queue, handling>>

\* The node does not answer: refresh is refused; of start nothing is retried.
FailSync(p) ==
    /\ passes[p].phase = "reading"
    /\ passes' = [passes EXCEPT ![p] = Idle]
    /\ UNCHANGED <<log, state, rows, bound, queue, handling, up, tainted>>

-----------------------------------------------------------------------------
(* handleAdded and handleRemoved. *)

HandlerReads(b) ==
    /\ b \in queue
    /\ queue' = queue \ {b}
    /\ handling' = handling \cup {[block |-> b, base |-> state]}
    /\ UNCHANGED <<log, state, rows, passes, bound, up, tainted>>

\* Fault: both events are handled as an addition.
Adds(entry, b) == [entry EXCEPT !.addedAt = b]

\* What an event makes of a record, or of none.
Apply(entry, b) ==
    IF log[b].kind = "added" THEN [addedAt |-> b, removedAt |-> 0]
    ELSE [entry EXCEPT !.removedAt = b]

HandlerWrites(h) ==
    /\ h \in handling
    /\ LET a == log[h.block].issuer
       IN  /\ state' = [issuers |-> [h.base.issuers EXCEPT ![a] = Apply(@, h.block)],
                        mark |-> Larger(h.base.mark, h.block + 1)]
           /\ rows' = [rows EXCEPT ![a] = Apply(@, h.block)]
    /\ handling' = handling \ {h}
    /\ tainted' = TRUE
    /\ UNCHANGED <<log, passes, bound, queue, up>>

-----------------------------------------------------------------------------

\* stop, or a crash: a file is replaced whole or not at all.
StopCache ==
    /\ bound \/ up \/ \E p \in Passes : passes[p] # Idle
    /\ passes' = [p \in Passes |-> Idle]
    /\ bound' = FALSE /\ up' = FALSE
    /\ queue' = {} /\ handling' = {}
    /\ UNCHANGED <<log, state, rows, tainted>>

CacheInit ==
    /\ log = <<>>
    /\ state = [issuers |-> [a \in Issuers |-> Unknown], mark |-> 0]
    /\ rows = [a \in Issuers |-> Unknown]
    /\ passes = [p \in Passes |-> Idle]
    /\ bound = FALSE /\ up = FALSE
    /\ queue = {} /\ handling = {}
    /\ tainted = FALSE

CacheNext ==
    \/ \E a \in Issuers, kind \in {"added", "removed"} : Emit(kind, a)
    \/ \E p \in Passes :
          \/ \E start \in {0, state.mark} : BeginSync(p, start)
          \/ QuerySync(p) \/ SaveSync(p) \/ FailSync(p)
    \/ \E b \in queue : HandlerReads(b)
    \/ \E h \in handling : HandlerWrites(h)
    \/ StopCache

CacheSpec == CacheInit /\ [][CacheNext]_cacheVars

-----------------------------------------------------------------------------

\* Passes never skip a block, however they overlap, fail or are cut short: what
\* they left holds of each issuer the last addition below the mark and, if it
\* is gone, its removal.  (A listener may write over it; a pass from the first
\* block repairs that.)
PassesAreComplete ==
    ~ tainted =>
        \A a \in Issuers :
            LET added == LastBlock("added", a, 1, state.mark - 1)
                removed == LastBlock("removed", a, 1, state.mark - 1)
                entry == state.issuers[a]
            IN  /\ entry.addedAt = added
                /\ entry.removedAt \in {0, removed}
                /\ removed > added => entry.removedAt = removed

\* Whatever was written over, a record says nothing that the chain did not.
RecordsAreOnChain ==
    \A entries \in {state.issuers, rows}, a \in Issuers :
        /\ entries[a].addedAt # 0 =>
              log[entries[a].addedAt] = [kind |-> "added", issuer |-> a]
        /\ entries[a].removedAt # 0 =>
              log[entries[a].removedAt] = [kind |-> "removed", issuer |-> a]

=============================================================================
