--------------------------- MODULE VerifierProofs ---------------------------
(***************************************************************************)
(* Proofs about what the verifier keeps, each part alone and side by side  *)
(* as MCVerifier runs them.                                                *)
(*                                                                         *)
(* IssuerCache and Verification, for any issuers and any number of passes. *)
(* A pass writes what it read before it waited, so what every pass and     *)
(* every listener holds is part of the invariant (Sound): its records name *)
(* blocks that are there, and, unless a listener's write is in it, it has  *)
(* all up to its mark.                                                     *)
(*                                                                         *)
(* FileStore, for any number of writers and milliseconds: a temporary file *)
(* is its writer's alone until it is renamed, unless two share its name.   *)
(*                                                                         *)
(* HybridStore, for any credentials and syncs: a sync puts back an index   *)
(* it read earlier, so the index in its hands is held to the same as the   *)
(* one on disk (CompleteIndex); nothing is ever taken off the disk         *)
(* (Grows), so what was kept for it then still is.                         *)
(***************************************************************************)
EXTENDS MCVerifier, WellFoundedInduction, TLAPS

-----------------------------------------------------------------------------
(* The verifier's list of issuers, and the requests that ask the registry. *)

\* Every block a list of issuers names is one of the first up to a block, with
\* the event the list says.
OnChain(issuers, upTo) ==
    \A a \in Issuers :
        /\ issuers[a].addedAt # 0 =>
              /\ issuers[a].addedAt \in DOMAIN log /\ issuers[a].addedAt =< upTo
              /\ log[issuers[a].addedAt] = [kind |-> "added", issuer |-> a]
        /\ issuers[a].removedAt # 0 =>
              /\ issuers[a].removedAt \in DOMAIN log /\ issuers[a].removedAt =< upTo
              /\ log[issuers[a].removedAt] = [kind |-> "removed", issuer |-> a]

\* A list of issuers holds what a pass that read every block up to one would
\* have left.
CompleteUpTo(issuers, last) ==
    \A a \in Issuers :
        LET added == LastBlock("added", a, 1, last)
            removed == LastBlock("removed", a, 1, last)
        IN  /\ issuers[a].addedAt = added
            /\ issuers[a].removedAt \in {0, removed}
            /\ removed > added => issuers[a].removedAt = removed

\* A stored state, on disk or in the hands of a pass.
Sound(stored, dirty, upTo) ==
    /\ stored.mark =< upTo + 1
    /\ OnChain(stored.issuers, upTo)
    /\ ~ dirty => CompleteUpTo(stored.issuers, stored.mark - 1)

\* What a pass holds, from its reading to its saving.
PassSound(q) ==
    /\ q.phase = "reading" =>
          /\ Sound(q.base, q.tainted, Len(log))
          /\ q.start \in {0, q.base.mark}
    /\ q.phase = "saving" =>
          /\ q.latest =< Len(log)
          /\ Sound(q.base, q.tainted, q.latest)
          /\ q.start \in {0, q.base.mark} /\ q.start =< q.latest

\* The state file, the table, every pass and every call of a listener.
CacheInv ==
    /\ CacheTypeOK
    /\ Sound(state, tainted, Len(log))
    /\ OnChain(rows, Len(log))
    /\ \A p \in Passes : PassSound(passes[p])
    /\ queue \subseteq DOMAIN log
    /\ \A h \in handling : h.block \in DOMAIN log /\ Sound(h.base, TRUE, Len(log))

\* A request that waits has seen its signer trusted if it is now.
VerificationInv ==
    /\ VerifyTypeOK
    /\ request # NoRequest =>
          /\ request \in Request /\ request.credential.signer \in Signers
          /\ Trusted(request.credential.signer) => request.seen
    /\ ValidIsTrusted

\* A set of numbers has a least member.
LEMMA NatMin == ASSUME NEW S \in SUBSET Nat, S # {} PROVE \E m \in S : \A s \in S : m =< s
<1>1. \E m \in S : \A y \in S : <<y, m>> \notin OpToRel(<, Nat)
  BY NatLessThanWellFounded, WFMin
<1>2. ASSUME NEW y \in S, NEW m \in S, y < m PROVE <<y, m>> \in OpToRel(<, Nat)
  BY <1>2 DEF OpToRel
<1>3. \E m \in S : \A y \in S : ~ (y < m)
  BY <1>1, <1>2, Zenon
<1> QED BY <1>3

\* A bounded one has a greatest.
LEMMA NatMax ==
    ASSUME NEW S \in SUBSET Nat, S # {}, NEW n \in Nat, \A s \in S : s =< n
    PROVE  \E m \in S : \A s \in S : s =< m
<1> DEFINE T == {n - s : s \in S}
<1>1. T \subseteq Nat
  <2>1. \A s \in S : n - s \in Nat
    OBVIOUS
  <2> QED BY <2>1
<1>2. \E t \in T : \A u \in T : t =< u
  <2>1. T # {}
    OBVIOUS
  <2> HIDE DEF T
  <2> QED BY <1>1, <2>1, NatMin
<1>3. PICK m \in S : \A u \in T : n - m =< u
  BY <1>2
<1>4. \A s \in S : n - m =< n - s
  BY <1>3
<1> QED BY <1>4

\* What an event of the registry is about.
EventKinds == {"added", "removed"}

\* LastBlock is a block of the range with that event, and none is later.
LEMMA LastBlockIsLast ==
    log \in Seq(Event) =>
        \A kind \in EventKinds, a \in Issuers, from, to \in Int :
            /\ LastBlock(kind, a, from, to) \in Nat
            /\ LastBlock(kind, a, from, to) # 0 =>
                  /\ LastBlock(kind, a, from, to) \in DOMAIN log
                  /\ from =< LastBlock(kind, a, from, to) /\ LastBlock(kind, a, from, to) =< to
                  /\ log[LastBlock(kind, a, from, to)] = [kind |-> kind, issuer |-> a]
            /\ \A b \in DOMAIN log : from =< b /\ b =< to /\ log[b] = [kind |-> kind, issuer |-> a] =>
                  b =< LastBlock(kind, a, from, to)
<1> SUFFICES ASSUME log \in Seq(Event), NEW kind \in EventKinds, NEW a \in Issuers,
                    NEW from \in Int, NEW to \in Int
    PROVE   /\ LastBlock(kind, a, from, to) \in Nat
            /\ LastBlock(kind, a, from, to) # 0 =>
                  /\ LastBlock(kind, a, from, to) \in DOMAIN log
                  /\ from =< LastBlock(kind, a, from, to) /\ LastBlock(kind, a, from, to) =< to
                  /\ log[LastBlock(kind, a, from, to)] = [kind |-> kind, issuer |-> a]
            /\ \A b \in DOMAIN log : from =< b /\ b =< to /\ log[b] = [kind |-> kind, issuer |-> a] =>
                  b =< LastBlock(kind, a, from, to)
  OBVIOUS
<1> DEFINE blocks == {b \in DOMAIN log : from =< b /\ b =< to /\ log[b] = [kind |-> kind, issuer |-> a]}
           n == CHOOSE b \in blocks : \A c \in blocks : c =< b
<1>1. DOMAIN log \subseteq Nat /\ Len(log) \in Nat /\ \A b \in DOMAIN log : b =< Len(log)
  OBVIOUS
<1>2. CASE blocks = {}
  <2>1. LastBlock(kind, a, from, to) = 0
    BY <1>2 DEF LastBlock
  <2> QED BY <1>2, <2>1
<1>3. CASE blocks # {}
  <2>1. LastBlock(kind, a, from, to) = n
    BY <1>3 DEF LastBlock
  <2>2. blocks \in SUBSET Nat /\ \A b \in blocks : b =< Len(log)
    BY <1>1
  <2>3. n \in blocks /\ \A d \in blocks : d =< n
    <3> HIDE DEF blocks
    <3>1. \E b \in blocks : \A c \in blocks : c =< b
      BY <1>1, <1>3, <2>2, NatMax
    <3> QED BY <3>1
  <2> HIDE DEF n
  <2> QED BY <1>1, <2>1, <2>3
<1> QED BY <1>2, <1>3

LEMMA KindNames == "added" \in EventKinds /\ "removed" \in EventKinds
  BY DEF EventKinds

\* What a step does to the chain.
LogGrows == log' = log \/ \E e \in Event : log' = Append(log, e)

LEMMA BlocksStay ==
    ASSUME log \in Seq(Event), LogGrows
    PROVE  /\ log' \in Seq(Event)
           /\ DOMAIN log \subseteq DOMAIN log' /\ DOMAIN log' \subseteq Nat \ {0}
           /\ \A b \in DOMAIN log : log'[b] = log[b] /\ b =< Len(log)
           /\ \A b \in DOMAIN log' : b =< Len(log) => b \in DOMAIN log
           /\ Len(log) \in Nat /\ Len(log') \in Nat /\ Len(log) =< Len(log')
  BY DEF LogGrows

\* A new block does not change what the earlier ones say.
LEMMA LastBlockStays ==
    ASSUME log \in Seq(Event), LogGrows,
           NEW kind \in EventKinds, NEW a \in Issuers, NEW from \in Int, NEW to \in Int,
           to =< Len(log)
    PROVE  LastBlock(kind, a, from, to)' = LastBlock(kind, a, from, to)
<1> DEFINE Blocks(l) == {b \in DOMAIN l : from =< b /\ b =< to /\ l[b] = [kind |-> kind, issuer |-> a]}
<1>1. Blocks(log') = Blocks(log)
  <2>1. ASSUME NEW b \in Blocks(log') PROVE b \in Blocks(log)
    <3>1. b \in Nat /\ b =< Len(log)
      BY BlocksStay
    <3> QED BY <3>1, BlocksStay
  <2>2. ASSUME NEW b \in Blocks(log) PROVE b \in Blocks(log')
    BY BlocksStay
  <2> HIDE DEF Blocks
  <2> QED BY <2>1, <2>2
<1>2. LastBlock(kind, a, from, to) =
        IF Blocks(log) = {} THEN 0
        ELSE CHOOSE b \in Blocks(log) : \A c \in Blocks(log) : c =< b
  BY DEF LastBlock
<1>3. LastBlock(kind, a, from, to)' =
        IF Blocks(log') = {} THEN 0
        ELSE CHOOSE b \in Blocks(log') : \A c \in Blocks(log') : c =< b
  BY DEF LastBlock
<1> HIDE DEF Blocks
<1> QED BY <1>1, <1>2, <1>3

\* A list of issuers, as a pass holds it.
Lists == [Issuers -> Record]

LEMMA OnChainStays ==
    ASSUME log \in Seq(Event), LogGrows, NEW issuers \in Lists, NEW n \in Nat, OnChain(issuers, n)
    PROVE  \A m \in Nat : n =< m => OnChain(issuers, m)'
<1> SUFFICES ASSUME NEW m \in Nat, n =< m
             PROVE  OnChain(issuers, m)'
  OBVIOUS
<1>1. ASSUME NEW b \in Nat, NEW e, b \in DOMAIN log, b =< n, log[b] = e
      PROVE  b \in DOMAIN log' /\ b =< m /\ log'[b] = e
  BY <1>1, BlocksStay
<1>2. \A a \in Issuers : issuers[a].addedAt \in Nat /\ issuers[a].removedAt \in Nat
  BY DEF Lists, Record
<1> QED BY <1>1, <1>2 DEF OnChain

LEMMA CompleteStays ==
    ASSUME log \in Seq(Event), LogGrows, NEW issuers, NEW last \in Int, last =< Len(log),
           CompleteUpTo(issuers, last)
    PROVE  CompleteUpTo(issuers, last)'
<1>1. ASSUME NEW a \in Issuers
      PROVE  /\ LastBlock("added", a, 1, last)' = LastBlock("added", a, 1, last)
             /\ LastBlock("removed", a, 1, last)' = LastBlock("removed", a, 1, last)
  BY LastBlockStays DEF EventKinds
<1> QED BY <1>1 DEF CompleteUpTo

LEMMA SoundStays ==
    ASSUME log \in Seq(Event), LogGrows, NEW stored \in StoredState, NEW dirty, NEW n \in Nat,
           n =< Len(log), Sound(stored, dirty, n)
    PROVE  \A m \in Nat : n =< m => Sound(stored, dirty, m)'
<1>1. stored.issuers \in Lists /\ stored.mark \in Nat /\ Len(log) \in Nat
  BY DEF StoredState, Lists
<1>2. stored.mark =< n + 1 /\ OnChain(stored.issuers, n)
  BY DEF Sound
<1>3. stored.mark - 1 \in Int /\ stored.mark - 1 =< Len(log)
  BY <1>1, <1>2
<1>4. ~ dirty => CompleteUpTo(stored.issuers, stored.mark - 1)'
  BY <1>3, CompleteStays DEF Sound
<1>5. \A m \in Nat : n =< m => stored.mark =< m + 1
  BY <1>1, <1>2
<1>6. \A m \in Nat : n =< m => OnChain(stored.issuers, m)'
  BY <1>1, <1>2, OnChainStays
<1> QED BY <1>4, <1>5, <1>6 DEF Sound

LEMMA CacheInitial == CacheInit => CacheInv
<1> SUFFICES ASSUME CacheInit PROVE CacheInv
  OBVIOUS
<1> USE DEF CacheInit
<1>1. log \in Seq(Event) /\ DOMAIN log = {} /\ Len(log) = 0
  OBVIOUS
<1>2. state \in StoredState /\ rows \in Lists
  BY DEF StoredState, Lists, Record, Unknown
<1>3. OnChain(state.issuers, Len(log)) /\ OnChain(rows, Len(log))
  BY DEF OnChain, Unknown
<1>4. \A kind \in EventKinds, a \in Issuers, from, to \in Int : LastBlock(kind, a, from, to) = 0
  BY <1>1, LastBlockIsLast
<1>5. CompleteUpTo(state.issuers, state.mark - 1)
  BY <1>4 DEF CompleteUpTo, Unknown, EventKinds
<1>6. Sound(state, tainted, Len(log))
  BY <1>1, <1>3, <1>5 DEF Sound
<1>7. \A p \in Passes : PassSound(passes[p])
  BY DEF PassSound, Idle
<1>8. CacheTypeOK
  BY <1>1, <1>2 DEF CacheTypeOK, Lists
<1> QED BY <1>3, <1>6, <1>7, <1>8 DEF CacheInv


\* What a pass holds, by its phase.
LEMMA PassPhases ==
    ASSUME NEW q \in {Idle} \cup Reading \cup Saving
    PROVE  /\ q.phase = "reading" => q \in Reading
           /\ q.phase = "saving" => q \in Saving /\ q.latest \in Nat
           /\ q.phase \in {"reading", "saving"} =>
                 q.base \in StoredState /\ q.start \in Nat /\ q.tainted \in BOOLEAN
  BY DEF Idle, Reading, Saving

LEMMA PassStays ==
    ASSUME log \in Seq(Event), LogGrows, NEW q \in {Idle} \cup Reading \cup Saving, PassSound(q)
    PROVE  PassSound(q)'
<1>1. Len(log) \in Nat /\ Len(log') \in Nat /\ Len(log) =< Len(log')
  BY BlocksStay
<1>2. CASE q.phase = "reading"
  <2>1. q.base \in StoredState
    BY <1>2, PassPhases
  <2>2. Sound(q.base, q.tainted, Len(log)) /\ q.start \in {0, q.base.mark}
    BY <1>2 DEF PassSound
  <2>3. \A n \in Nat : n = Len(log) => \A m \in Nat : n =< m => Sound(q.base, q.tainted, m)'
    BY <2>1, <2>2, SoundStays
  <2>4. Sound(q.base, q.tainted, Len(log))'
    BY <1>1, <2>3
  <2> QED BY <1>2, <2>2, <2>4 DEF PassSound
<1>3. CASE q.phase = "saving"
  <2>1. q.base \in StoredState /\ q.latest \in Nat
    BY <1>3, PassPhases
  <2>2. /\ Sound(q.base, q.tainted, q.latest) /\ q.latest =< Len(log)
        /\ q.start \in {0, q.base.mark} /\ q.start =< q.latest
    BY <1>3 DEF PassSound
  <2>3. Sound(q.base, q.tainted, q.latest)'
    BY <2>1, <2>2, SoundStays
  <2>4. q.latest =< Len(log')
    BY <1>1, <2>1, <2>2
  <2> QED BY <1>3, <2>2, <2>3, <2>4 DEF PassSound
<1> QED BY <1>2, <1>3 DEF PassSound

\* A pass reads the stored state whole, with whatever a listener left in it.
LEMMA BeginStep ==
    ASSUME CacheInv, NEW p \in Passes, NEW start \in {0, state.mark}, BeginSync(p, start)
    PROVE  /\ passes'[p] \in Reading /\ PassSound(passes[p])'
           /\ \A o \in Passes : o # p => passes'[o] = passes[o]
<1>1. CacheTypeOK /\ Sound(state, tainted, Len(log))
  BY DEF CacheInv
<1>2. /\ passes'[p] = [phase |-> "reading", base |-> state, tainted |-> tainted, start |-> start]
      /\ \A o \in Passes : o # p => passes'[o] = passes[o]
      /\ log' = log
  BY <1>1 DEF BeginSync, CacheTypeOK
<1>3. passes'[p] \in Reading
  BY <1>1, <1>2 DEF Reading, CacheTypeOK, StoredState
<1>4. ASSUME NEW i, NEW d, NEW n PROVE Sound(i, d, n)' <=> Sound(i, d, n)
  BY <1>2 DEF Sound, OnChain, CompleteUpTo, LastBlock
<1>5. Sound(passes[p].base, passes[p].tainted, Len(log))'
  BY <1>1, <1>2, <1>4
<1>6. PassSound(passes[p])'
  BY <1>2, <1>5 DEF PassSound
<1> QED BY <1>2, <1>3, <1>6

\* The range of a query begins where the base ends, or at the first block.
LEMMA QuerySyncStep ==
    ASSUME CacheInv, NEW p \in Passes, QuerySync(p)
    PROVE  /\ passes'[p] \in Saving /\ PassSound(passes[p])'
           /\ \A o \in Passes : o # p => passes'[o] = passes[o]
<1> DEFINE q == passes[p]
<1>1. CacheTypeOK /\ PassSound(q) /\ q \in {Idle} \cup Reading \cup Saving
  BY DEF CacheInv, CacheTypeOK
<1>2. q.phase = "reading" /\ q.base \in StoredState /\ q.start \in Nat /\ q.tainted \in BOOLEAN
  BY <1>1, PassPhases DEF QuerySync
<1>3. /\ passes'[p] = [phase |-> "saving", base |-> q.base, tainted |-> q.tainted,
                       start |-> IF Len(log) < q.start THEN 0 ELSE q.start, latest |-> Len(log)]
      /\ \A o \in Passes : o # p => passes'[o] = passes[o]
      /\ log' = log
  BY <1>1 DEF QuerySync, CacheTypeOK
<1>4. Len(log) \in Nat
  BY <1>1 DEF CacheTypeOK
<1>5. passes'[p] \in Saving
  BY <1>2, <1>3, <1>4 DEF Saving
<1>6. ASSUME NEW i, NEW d, NEW n PROVE Sound(i, d, n)' <=> Sound(i, d, n)
  BY <1>3 DEF Sound, OnChain, CompleteUpTo, LastBlock
<1>7. Sound(q.base, q.tainted, Len(log)) /\ q.start \in {0, q.base.mark}
  BY <1>1, <1>2 DEF PassSound
<1>8. Sound(passes[p].base, passes[p].tainted, passes[p].latest)'
  BY <1>3, <1>6, <1>7
<1>9. PassSound(passes[p])'
  BY <1>2, <1>3, <1>4, <1>7, <1>8 DEF PassSound
<1> QED BY <1>3, <1>5, <1>9

\* A range that begins where a list ends continues its search.
LEMMA LastBlockJoins ==
    ASSUME log \in Seq(Event), NEW kind \in EventKinds, NEW a \in Issuers,
           NEW start \in Nat, NEW to \in Nat, start =< to
    PROVE  LastBlock(kind, a, 1, to) =
             IF LastBlock(kind, a, start, to) # 0 THEN LastBlock(kind, a, start, to)
             ELSE LastBlock(kind, a, 1, start - 1)
<1> DEFINE whole == LastBlock(kind, a, 1, to)
           late == LastBlock(kind, a, start, to)
           early == LastBlock(kind, a, 1, start - 1)
           e == [kind |-> kind, issuer |-> a]
<1>0. 1 \in Int /\ start \in Int /\ start - 1 \in Int /\ to \in Int
  OBVIOUS
<1>1. \A b \in DOMAIN log : b \in Nat /\ 1 =< b
  OBVIOUS
<1>2. /\ whole \in Nat
      /\ whole # 0 => whole \in DOMAIN log /\ whole =< to /\ log[whole] = e
      /\ \A b \in DOMAIN log : 1 =< b /\ b =< to /\ log[b] = e => b =< whole
  BY <1>0, LastBlockIsLast
<1>3. /\ late \in Nat
      /\ late # 0 => late \in DOMAIN log /\ start =< late /\ late =< to /\ log[late] = e
      /\ \A b \in DOMAIN log : start =< b /\ b =< to /\ log[b] = e => b =< late
  BY <1>0, LastBlockIsLast
<1>4. /\ early \in Nat
      /\ early # 0 => early \in DOMAIN log /\ early =< start - 1 /\ log[early] = e
      /\ \A b \in DOMAIN log : 1 =< b /\ b =< start - 1 /\ log[b] = e => b =< early
  BY <1>0, LastBlockIsLast
<1> HIDE DEF whole, late, early, e
<1>5. CASE late # 0
  <2>1. late =< whole /\ (whole # 0)
    BY <1>1, <1>2, <1>3, <1>5
  <2>2. whole =< late
    BY <1>1, <1>2, <1>3, <1>5, <2>1
  <2> QED BY <1>2, <1>3, <1>5, <2>1, <2>2 DEF whole, late, early
<1>6. CASE late = 0
  <2>1. whole # 0 => ~ (start =< whole)
    BY <1>1, <1>2, <1>3, <1>6
  <2>2. whole =< early
    BY <1>1, <1>2, <1>4, <2>1
  <2>3. early =< whole
    BY <1>1, <1>2, <1>4
  <2> QED BY <1>2, <1>4, <1>6, <2>2, <2>3 DEF whole, late, early
<1> QED BY <1>5, <1>6

\* What Updated makes of a list, block range by block range.
LEMMA UpdatedEntry ==
    ASSUME log \in Seq(Event), NEW issuers \in Lists, NEW from \in Nat, NEW to \in Nat,
           NEW a \in Issuers
    PROVE  LET added == LastBlock("added", a, from, to)
               removed == LastBlock("removed", a, from, to)
               entry == Updated(issuers, from, to)[a]
           IN  /\ entry \in Record /\ added \in Nat /\ removed \in Nat
               /\ entry.addedAt = IF added # 0 THEN added ELSE issuers[a].addedAt
               /\ entry.removedAt = IF removed # 0 THEN removed
                                    ELSE IF added # 0 THEN 0 ELSE issuers[a].removedAt
<1> DEFINE added == LastBlock("added", a, from, to)
           removed == LastBlock("removed", a, from, to)
           entry == IF added = 0 THEN issuers[a] ELSE [addedAt |-> added, removedAt |-> 0]
<1>1. added \in Nat /\ removed \in Nat
  <2>1. from \in Int /\ to \in Int
    OBVIOUS
  <2> QED BY <2>1, LastBlockIsLast, KindNames
<1>2. Updated(issuers, from, to)[a] =
        IF removed = 0 THEN entry ELSE [entry EXCEPT !.removedAt = removed]
  BY DEF Updated
<1>3. issuers[a] \in Record
  BY DEF Lists
<1> HIDE DEF added, removed
<1>4. entry \in Record
  BY <1>1, <1>3 DEF Record
<1> QED BY <1>1, <1>2, <1>3, <1>4 DEF Record, added, removed

\* A pass that starts where a complete list ends, or from the first block,
\* leaves one that is complete.
LEMMA UpdatedIsSound ==
    ASSUME log \in Seq(Event), NEW stored \in StoredState, NEW dirty \in BOOLEAN,
           NEW start \in Nat, NEW latest \in Nat,
           latest =< Len(log), start =< latest, start \in {0, stored.mark},
           Sound(stored, dirty, latest)
    PROVE  LET issuers == Updated(stored.issuers, start, latest)
           IN  /\ issuers \in Lists
               /\ OnChain(issuers, latest)
               /\ ~ (dirty /\ start > 1) => CompleteUpTo(issuers, latest)
<1> DEFINE issuers == Updated(stored.issuers, start, latest)
<1>1. stored.issuers \in Lists /\ stored.mark \in Nat
  BY DEF StoredState, Lists
<1>2. issuers \in Lists
  <2>1. \A a \in Issuers : issuers[a] \in Record
    BY <1>1, UpdatedEntry
  <2>2. issuers = [a \in Issuers |-> issuers[a]]
    BY DEF Updated
  <2> HIDE DEF issuers
  <2> QED BY <2>1, <2>2 DEF Lists
<1>3. OnChain(issuers, latest)
  <2> SUFFICES ASSUME NEW a \in Issuers
               PROVE  /\ issuers[a].addedAt # 0 =>
                            /\ issuers[a].addedAt \in DOMAIN log /\ issuers[a].addedAt =< latest
                            /\ log[issuers[a].addedAt] = [kind |-> "added", issuer |-> a]
                      /\ issuers[a].removedAt # 0 =>
                            /\ issuers[a].removedAt \in DOMAIN log /\ issuers[a].removedAt =< latest
                            /\ log[issuers[a].removedAt] = [kind |-> "removed", issuer |-> a]
    BY DEF OnChain
  <2> DEFINE added == LastBlock("added", a, start, latest)
             removed == LastBlock("removed", a, start, latest)
  <2>1. /\ issuers[a].addedAt \in {added, stored.issuers[a].addedAt}
        /\ issuers[a].removedAt \in {0, removed, stored.issuers[a].removedAt}
    <3>1. /\ issuers[a].addedAt = IF added # 0 THEN added ELSE stored.issuers[a].addedAt
          /\ issuers[a].removedAt = IF removed # 0 THEN removed
                                    ELSE IF added # 0 THEN 0 ELSE stored.issuers[a].removedAt
      BY <1>1, UpdatedEntry
    <3> HIDE DEF issuers, added, removed
    <3> QED BY <3>1
  <2>2. OnChain(stored.issuers, latest)
    BY DEF Sound
  <2>3. /\ added # 0 => /\ added \in DOMAIN log /\ added =< latest
                        /\ log[added] = [kind |-> "added", issuer |-> a]
        /\ removed # 0 => /\ removed \in DOMAIN log /\ removed =< latest
                          /\ log[removed] = [kind |-> "removed", issuer |-> a]
    BY LastBlockIsLast, KindNames
  <2> HIDE DEF issuers, added, removed
  <2> QED BY <2>1, <2>2, <2>3 DEF OnChain
<1>4. ASSUME ~ (dirty /\ start > 1), NEW a \in Issuers
      PROVE  LET added == LastBlock("added", a, 1, latest)
                 removed == LastBlock("removed", a, 1, latest)
             IN  /\ issuers[a].addedAt = added
                 /\ issuers[a].removedAt \in {0, removed}
                 /\ removed > added => issuers[a].removedAt = removed
  <2> DEFINE added == LastBlock("added", a, start, latest)
             removed == LastBlock("removed", a, start, latest)
             allAdded == LastBlock("added", a, 1, latest)
             allRemoved == LastBlock("removed", a, 1, latest)
             oldAdded == LastBlock("added", a, 1, start - 1)
             oldRemoved == LastBlock("removed", a, 1, start - 1)
             old == stored.issuers[a]
  <2>1. /\ added \in Nat /\ removed \in Nat
        /\ issuers[a].addedAt = IF added # 0 THEN added ELSE old.addedAt
        /\ issuers[a].removedAt = IF removed # 0 THEN removed
                                  ELSE IF added # 0 THEN 0 ELSE old.removedAt
    BY <1>1, UpdatedEntry
  <2>2. /\ allAdded = IF added # 0 THEN added ELSE oldAdded
        /\ allRemoved = IF removed # 0 THEN removed ELSE oldRemoved
    BY LastBlockJoins, KindNames
  <2>3. start \in Int /\ start - 1 \in Int /\ 1 \in Int /\ latest \in Int
    OBVIOUS
  <2>4. /\ oldAdded \in Nat /\ oldRemoved \in Nat
        /\ oldAdded # 0 => oldAdded \in DOMAIN log /\ oldAdded =< start - 1
        /\ oldRemoved # 0 => oldRemoved \in DOMAIN log /\ oldRemoved =< start - 1
        /\ added # 0 => start =< added
    BY <2>3, LastBlockIsLast, KindNames
  <2>5. old \in Record
    BY <1>1 DEF Lists
  <2>6. CASE start > 1
    <3>1. CompleteUpTo(stored.issuers, start - 1)
      BY <1>4, <2>6 DEF Sound
    <3>2. /\ old.addedAt = oldAdded /\ old.removedAt \in {0, oldRemoved}
          /\ oldRemoved > oldAdded => old.removedAt = oldRemoved
      BY <3>1 DEF CompleteUpTo
    <3> HIDE DEF issuers, added, removed, allAdded, allRemoved, oldAdded, oldRemoved, old
    <3> QED BY <2>1, <2>2, <2>3, <2>4, <2>5, <2>6, <3>2
         DEF Record, allAdded, allRemoved
  <2>7. CASE start =< 1
    <3>1. oldAdded = 0 /\ oldRemoved = 0
      <4>1. \A b \in DOMAIN log : b \in Nat /\ 1 =< b
        OBVIOUS
      <4> HIDE DEF oldAdded, oldRemoved
      <4> QED BY <2>4, <2>7, <4>1
    <3>2. added = 0 => old.addedAt = 0
      <4>1. old.addedAt # 0 =>
              /\ old.addedAt \in DOMAIN log /\ old.addedAt =< latest
              /\ log[old.addedAt] = [kind |-> "added", issuer |-> a]
        BY DEF Sound, OnChain
      <4>2. \A b \in DOMAIN log : start =< b /\ b \in Nat /\ b # 0
        BY <2>7
      <4> QED BY <2>3, <2>5, <4>1, <4>2, LastBlockIsLast, KindNames DEF Record
    <3>3. removed = 0 => old.removedAt = 0
      <4>1. old.removedAt # 0 =>
              /\ old.removedAt \in DOMAIN log /\ old.removedAt =< latest
              /\ log[old.removedAt] = [kind |-> "removed", issuer |-> a]
        BY DEF Sound, OnChain
      <4>2. \A b \in DOMAIN log : start =< b /\ b \in Nat /\ b # 0
        BY <2>7
      <4> QED BY <2>3, <2>5, <4>1, <4>2, LastBlockIsLast, KindNames DEF Record
    <3> HIDE DEF issuers, added, removed, allAdded, allRemoved, oldAdded, oldRemoved, old
    <3> QED BY <2>1, <2>2, <2>5, <3>1, <3>2, <3>3 DEF Record, allAdded, allRemoved
  <2> QED BY <2>6, <2>7
<1> HIDE DEF issuers
<1>5. ~ (dirty /\ start > 1) => CompleteUpTo(issuers, latest)
  BY <1>4 DEF CompleteUpTo
<1> QED BY <1>2, <1>3, <1>5 DEF issuers

LEMMA SaveStep ==
    ASSUME CacheInv, NEW p \in Passes, SaveSync(p)
    PROVE  /\ state' \in StoredState /\ tainted' \in BOOLEAN
           /\ Sound(state, tainted, Len(log))'
           /\ passes' = [passes EXCEPT ![p] = Idle]
<1> DEFINE q == passes[p]
           issuers == Updated(q.base.issuers, q.start, q.latest)
<1>1. CacheTypeOK /\ PassSound(q) /\ q \in {Idle} \cup Reading \cup Saving /\ log \in Seq(Event)
  BY DEF CacheInv, CacheTypeOK
<1>2. /\ q.phase = "saving" /\ q.base \in StoredState /\ q.start \in Nat /\ q.tainted \in BOOLEAN
      /\ q.latest \in Nat
  BY <1>1, PassPhases DEF SaveSync
<1>3. /\ state' = [issuers |-> issuers, mark |-> q.latest + 1]
      /\ tainted' = (q.tainted /\ q.start > 1) /\ log' = log
      /\ passes' = [passes EXCEPT ![p] = Idle]
  BY DEF SaveSync
<1>4. /\ q.latest =< Len(log) /\ Sound(q.base, q.tainted, q.latest)
      /\ q.start \in {0, q.base.mark} /\ q.start =< q.latest
  BY <1>1, <1>2 DEF PassSound
<1>5. /\ issuers \in Lists /\ OnChain(issuers, q.latest)
      /\ ~ (q.tainted /\ q.start > 1) => CompleteUpTo(issuers, q.latest)
  BY <1>1, <1>2, <1>4, UpdatedIsSound
<1> HIDE DEF issuers
<1>6. OnChain(issuers, Len(log))
  <2>1. \A n \in Nat : n =< q.latest => n =< Len(log)
    BY <1>1, <1>2, <1>4
  <2>2. \A a \in Issuers : issuers[a].addedAt \in Nat /\ issuers[a].removedAt \in Nat
    BY <1>5 DEF Lists, Record
  <2> QED BY <1>5, <2>1, <2>2 DEF OnChain
<1>7. \A i, n : /\ OnChain(i, n)' <=> OnChain(i, n)
                /\ CompleteUpTo(i, n)' <=> CompleteUpTo(i, n)
  BY <1>3 DEF OnChain, CompleteUpTo, LastBlock
<1>8. /\ state'.issuers = issuers /\ state'.mark = q.latest + 1
      /\ state'.mark - 1 = q.latest /\ q.latest + 1 =< Len(log) + 1
  BY <1>1, <1>2, <1>3, <1>4
<1>9. Sound(state, tainted, Len(log))'
  BY <1>3, <1>5, <1>6, <1>7, <1>8 DEF Sound
<1>10. state' \in StoredState /\ tainted' \in BOOLEAN
  <2>1. q.latest + 1 \in Nat
    BY <1>2
  <2> QED BY <1>3, <1>5, <2>1 DEF StoredState, Lists
<1> QED BY <1>3, <1>9, <1>10

\* What an event makes of a list says no more than the chain.
LEMMA ApplyOnChain ==
    ASSUME log \in Seq(Event), NEW issuers \in Lists, OnChain(issuers, Len(log)),
           NEW b \in DOMAIN log
    PROVE  LET a == log[b].issuer
               list == [issuers EXCEPT ![a] = Apply(@, b)]
           IN  list \in Lists /\ OnChain(list, Len(log))
<1> DEFINE a == log[b].issuer
           list == [issuers EXCEPT ![a] = Apply(@, b)]
<1>1. log[b] \in Event /\ b \in Nat /\ b =< Len(log)
  OBVIOUS
<1>2. a \in Issuers /\ log[b].kind \in {"added", "removed"} /\ log[b] = [kind |-> log[b].kind, issuer |-> a]
  BY <1>1 DEF Event
<1>3. issuers[a] \in Record /\ issuers \in [Issuers -> Record]
  BY <1>2 DEF Lists
<1> HIDE DEF a
<1>4. Apply(issuers[a], b) \in Record
  BY <1>1, <1>3 DEF Apply, Record
<1>5. list[a] = Apply(issuers[a], b) /\ \A o \in Issuers : o # a => list[o] = issuers[o]
  BY <1>2, <1>3
<1>6. list \in Lists
  BY <1>2, <1>3, <1>4 DEF Lists
<1>7. /\ Apply(issuers[a], b).addedAt # 0 =>
            /\ Apply(issuers[a], b).addedAt \in DOMAIN log /\ Apply(issuers[a], b).addedAt =< Len(log)
            /\ log[Apply(issuers[a], b).addedAt] = [kind |-> "added", issuer |-> a]
      /\ Apply(issuers[a], b).removedAt # 0 =>
            /\ Apply(issuers[a], b).removedAt \in DOMAIN log /\ Apply(issuers[a], b).removedAt =< Len(log)
            /\ log[Apply(issuers[a], b).removedAt] = [kind |-> "removed", issuer |-> a]
  <2>1. CASE log[b].kind = "added"
    <3>1. Apply(issuers[a], b) = [addedAt |-> b, removedAt |-> 0]
      BY <2>1 DEF Apply
    <3> QED BY <1>1, <1>2, <2>1, <3>1
  <2>2. CASE log[b].kind = "removed"
    <3>1. /\ Apply(issuers[a], b).addedAt = issuers[a].addedAt
          /\ Apply(issuers[a], b).removedAt = b
      BY <1>3, <2>2 DEF Apply, Record
    <3> QED BY <1>1, <1>2, <2>2, <3>1 DEF OnChain
  <2> QED BY <1>2, <2>1, <2>2
<1> HIDE DEF list
<1>8. OnChain(list, Len(log))
  BY <1>2, <1>5, <1>7 DEF OnChain
<1> QED BY <1>6, <1>8 DEF list, a

LEMMA HandlerStep ==
    ASSUME CacheInv, NEW h \in handling, HandlerWrites(h)
    PROVE  /\ state' \in StoredState /\ rows' \in Lists
           /\ Sound(state, tainted, Len(log))'
           /\ OnChain(rows, Len(log))'
<1> DEFINE a == log[h.block].issuer
           issuers == [h.base.issuers EXCEPT ![a] = Apply(@, h.block)]
           mark == Larger(h.base.mark, h.block + 1)
           newRows == [rows EXCEPT ![a] = Apply(@, h.block)]
<1>1. /\ CacheTypeOK /\ log \in Seq(Event) /\ rows \in Lists
      /\ OnChain(rows, Len(log)) /\ h.block \in DOMAIN log /\ Sound(h.base, TRUE, Len(log))
      /\ h.base \in StoredState
  BY DEF CacheInv, CacheTypeOK, Lists
<1>2. h.base.issuers \in Lists /\ h.base.mark \in Nat /\ h.block \in Nat /\ h.block =< Len(log)
      /\ Len(log) \in Nat
  BY <1>1 DEF StoredState, Lists
<1>3. /\ h.base.mark =< Len(log) + 1 /\ OnChain(h.base.issuers, Len(log))
  BY <1>1 DEF Sound
<1>4. issuers \in Lists /\ OnChain(issuers, Len(log))
  BY <1>1, <1>2, <1>3, ApplyOnChain
<1>5. newRows \in Lists /\ OnChain(newRows, Len(log))
  BY <1>1, ApplyOnChain
<1>6. mark \in Nat /\ mark =< Len(log) + 1
  BY <1>2, <1>3 DEF Larger
<1>7. /\ state' = [issuers |-> issuers, mark |-> mark] /\ rows' = newRows
      /\ tainted' = TRUE /\ log' = log
  BY DEF HandlerWrites
<1> HIDE DEF issuers, newRows, mark
<1>8. \A i, n : OnChain(i, n)' <=> OnChain(i, n)
  BY <1>7 DEF OnChain
<1>9. state' \in StoredState /\ rows' \in Lists
  BY <1>4, <1>5, <1>6, <1>7 DEF StoredState, Lists
<1>10. Sound(state, tainted, Len(log))'
  BY <1>4, <1>6, <1>7, <1>8 DEF Sound
<1> QED BY <1>5, <1>7, <1>8, <1>9, <1>10

LEMMA CacheStep == CacheInv /\ [CacheNext]_cacheVars => CacheInv'
<1> SUFFICES ASSUME CacheInv, [CacheNext]_cacheVars
             PROVE  CacheInv'
  OBVIOUS
<1> DEFINE Held == {Idle} \cup Reading \cup Saving
<1>1. /\ CacheTypeOK /\ log \in Seq(Event) /\ rows \in Lists /\ state \in StoredState
      /\ passes \in [Passes -> Held] /\ \A p \in Passes : PassSound(passes[p])
      /\ queue \subseteq DOMAIN log
      /\ \A h \in handling : h.block \in DOMAIN log /\ Sound(h.base, TRUE, Len(log))
      /\ \A h \in handling : h \in [block : Nat, base : StoredState] /\ h.base \in StoredState
  BY DEF CacheInv, CacheTypeOK, Lists
<1>2. LogGrows
  <2>1. ASSUME NEW a \in Issuers, NEW kind \in {"added", "removed"}, Emit(kind, a)
        PROVE  LogGrows
    BY <2>1 DEF Emit, LogGrows, Event
  <2> QED BY <2>1 DEF LogGrows, CacheNext, cacheVars, BeginSync, QuerySync, SaveSync, FailSync,
          HandlerReads, HandlerWrites, StopCache
<1>3. /\ log' \in Seq(Event) /\ DOMAIN log \subseteq DOMAIN log'
      /\ DOMAIN log' \subseteq Nat
      /\ Len(log) \in Nat /\ Len(log') \in Nat /\ Len(log) =< Len(log')
  BY <1>1, <1>2, BlocksStay
<1>4. \A q \in Held : PassSound(q) => PassSound(q)'
  BY <1>1, <1>2, PassStays
<1>5. \A i \in StoredState, d \in BOOLEAN : Sound(i, d, Len(log)) => Sound(i, d, Len(log))'
  <2>1. ASSUME NEW i \in StoredState, NEW d \in BOOLEAN, NEW n \in Nat, n = Len(log),
               Sound(i, d, n), NEW m \in Nat, m = Len(log')
        PROVE  Sound(i, d, m)'
    BY <1>1, <1>2, <1>3, <2>1, SoundStays
  <2> QED BY <1>3, <2>1
<1>6. \A i \in Lists : OnChain(i, Len(log)) => OnChain(i, Len(log))'
  <2>1. ASSUME NEW i \in Lists, NEW n \in Nat, n = Len(log), OnChain(i, n),
               NEW m \in Nat, m = Len(log')
        PROVE  OnChain(i, m)'
    BY <1>1, <1>2, <1>3, <2>1, OnChainStays
  <2> QED BY <1>3, <2>1
<1> DEFINE StoresSound == state \in StoredState /\ rows \in Lists /\ tainted \in BOOLEAN
               /\ Sound(state, tainted, Len(log)) /\ OnChain(rows, Len(log))
           PassesSound == passes \in [Passes -> Held] /\ \A p \in Passes : PassSound(passes[p])
           HandlersSound ==
               /\ queue \subseteq DOMAIN log
               /\ handling \subseteq [block : Nat, base : StoredState]
               /\ \A h \in handling : h.block \in DOMAIN log /\ Sound(h.base, TRUE, Len(log))
           FlagsOK == bound \in BOOLEAN /\ up \in BOOLEAN
<1>7. StoresSound /\ PassesSound /\ HandlersSound /\ FlagsOK
  BY DEF CacheInv, CacheTypeOK, Lists
<1>8. UNCHANGED <<state, rows, tainted>> => StoresSound'
  BY <1>5, <1>6, <1>7
<1>9. UNCHANGED passes => PassesSound'
  BY <1>4, <1>7
<1>10. UNCHANGED <<queue, handling>> => HandlersSound'
  BY <1>1, <1>3, <1>5, <1>7
<1> HIDE DEF StoresSound, PassesSound, HandlersSound, FlagsOK, Held
<1>11. ASSUME NEW p \in Passes, passes' \in [Passes -> Held], PassSound(passes[p])',
              \A o \in Passes : o # p => passes'[o] = passes[o]
       PROVE  PassesSound'
  BY <1>1, <1>4, <1>11 DEF PassesSound
<1>12. ASSUME NEW a \in Issuers, NEW kind \in {"added", "removed"}, Emit(kind, a)
       PROVE  StoresSound' /\ PassesSound' /\ HandlersSound' /\ FlagsOK'
  <2>1. queue' \subseteq DOMAIN log'
    <3>1. queue' \subseteq queue \cup {Len(log')} /\ Len(log') \in DOMAIN log'
      BY <1>1, <1>12 DEF Emit, Event
    <3> QED BY <1>1, <1>3, <3>1
  <2>2. HandlersSound'
    BY <1>1, <1>3, <1>5, <1>7, <1>12, <2>1 DEF Emit, HandlersSound
  <2> QED BY <1>7, <1>8, <1>9, <1>12, <2>2 DEF Emit, FlagsOK
<1>13. ASSUME NEW p \in Passes, NEW start \in {0, state.mark}, BeginSync(p, start)
       PROVE  StoresSound' /\ PassesSound' /\ HandlersSound' /\ FlagsOK'
  <2>1. passes' \in [Passes -> Held]
    BY <1>1, <1>13, BeginStep DEF BeginSync, Held
  <2>2. PassesSound'
    BY <1>11, <1>13, <2>1, BeginStep
  <2> QED BY <1>7, <1>8, <1>10, <1>13, <2>2 DEF BeginSync, FlagsOK
<1>14. ASSUME NEW p \in Passes, QuerySync(p)
       PROVE  StoresSound' /\ PassesSound' /\ HandlersSound' /\ FlagsOK'
  <2>1. passes' \in [Passes -> Held]
    BY <1>1, <1>14, QuerySyncStep DEF QuerySync, Held
  <2>2. PassesSound'
    BY <1>11, <1>14, <2>1, QuerySyncStep
  <2> QED BY <1>7, <1>8, <1>10, <1>14, <2>2 DEF QuerySync, FlagsOK
<1>15. ASSUME NEW p \in Passes, passes' = [passes EXCEPT ![p] = Idle]
       PROVE  PassesSound'
  <2>1. /\ passes' \in [Passes -> Held] /\ passes'[p] = Idle
        /\ \A o \in Passes : o # p => passes'[o] = passes[o]
    BY <1>1, <1>15 DEF Held
  <2>2. PassSound(passes[p])'
    BY <2>1 DEF PassSound, Idle
  <2> QED BY <1>11, <2>1, <2>2
<1>16. ASSUME NEW p \in Passes, SaveSync(p)
       PROVE  StoresSound' /\ PassesSound' /\ HandlersSound' /\ FlagsOK'
  <2>1. PassesSound'
    BY <1>15, <1>16, SaveStep
  <2>2. StoresSound'
    <3>1. /\ state' \in StoredState /\ tainted' \in BOOLEAN /\ Sound(state, tainted, Len(log))'
      BY <1>16, SaveStep
    <3>2. rows' = rows /\ OnChain(rows, Len(log))'
      BY <1>1, <1>6, <1>7, <1>16 DEF SaveSync, StoresSound
    <3> QED BY <1>1, <3>1, <3>2 DEF StoresSound
  <2> QED BY <1>7, <1>10, <1>16, <2>1, <2>2 DEF SaveSync, FlagsOK
<1>17. ASSUME NEW p \in Passes, FailSync(p)
       PROVE  StoresSound' /\ PassesSound' /\ HandlersSound' /\ FlagsOK'
  BY <1>7, <1>8, <1>10, <1>15, <1>17 DEF FailSync, FlagsOK
<1>18. ASSUME NEW b \in queue, HandlerReads(b)
       PROVE  StoresSound' /\ PassesSound' /\ HandlersSound' /\ FlagsOK'
  <2>1. Sound(state, TRUE, Len(log)) /\ log' = log
    BY <1>7, <1>18 DEF HandlerReads, StoresSound, Sound
  <2>2. /\ queue' \subseteq queue
        /\ handling' = handling \cup {[block |-> b, base |-> state]}
    BY <1>18 DEF HandlerReads
  <2>3. b \in DOMAIN log /\ b \in Nat
    BY <1>1, <1>3
  <2>4. \A h \in handling' : /\ h \in [block : Nat, base : StoredState] /\ h.base \in StoredState
                             /\ h.block \in DOMAIN log /\ Sound(h.base, TRUE, Len(log))
    <3> SUFFICES ASSUME NEW h \in handling'
                 PROVE  /\ h \in [block : Nat, base : StoredState] /\ h.base \in StoredState
                        /\ h.block \in DOMAIN log /\ Sound(h.base, TRUE, Len(log))
      OBVIOUS
    <3>1. CASE h \in handling
      BY <1>1, <3>1
    <3>2. CASE h = [block |-> b, base |-> state]
      BY <1>1, <2>1, <2>3, <3>2
    <3> QED BY <2>2, <3>1, <3>2
  <2>5. HandlersSound'
    <3>1. queue' \subseteq DOMAIN log'
      BY <1>1, <1>3, <2>2
    <3>2. handling' \subseteq [block : Nat, base : StoredState]
      BY <2>4
    <3>3. (\A h \in handling : h.block \in DOMAIN log /\ Sound(h.base, TRUE, Len(log)))'
      BY <1>3, <1>5, <2>4
    <3> QED BY <3>1, <3>2, <3>3 DEF HandlersSound
  <2> QED BY <1>7, <1>8, <1>9, <1>18, <2>5 DEF HandlerReads, FlagsOK
<1>19. ASSUME NEW h \in handling, HandlerWrites(h)
       PROVE  StoresSound' /\ PassesSound' /\ HandlersSound' /\ FlagsOK'
  <2>1. StoresSound'
    BY <1>19, HandlerStep DEF StoresSound, HandlerWrites
  <2>2. HandlersSound'
    BY <1>1, <1>3, <1>5, <1>7, <1>19 DEF HandlersSound, HandlerWrites
  <2> QED BY <1>7, <1>9, <1>19, <2>1, <2>2 DEF HandlerWrites, FlagsOK
<1>20. ASSUME StopCache
       PROVE  StoresSound' /\ PassesSound' /\ HandlersSound' /\ FlagsOK'
  <2>1. PassesSound'
    BY <1>20 DEF StopCache, PassesSound, Held, PassSound, Idle
  <2>2. HandlersSound'
    BY <1>20 DEF StopCache, HandlersSound
  <2> QED BY <1>8, <1>20, <2>1, <2>2 DEF StopCache, FlagsOK
<1>21. ASSUME UNCHANGED cacheVars
       PROVE  StoresSound' /\ PassesSound' /\ HandlersSound' /\ FlagsOK'
  BY <1>7, <1>8, <1>9, <1>10, <1>21 DEF cacheVars, FlagsOK
<1>22. StoresSound' /\ PassesSound' /\ HandlersSound' /\ FlagsOK'
  BY <1>12, <1>13, <1>14, <1>16, <1>17, <1>18, <1>19, <1>20, <1>21 DEF CacheNext
<1> QED BY <1>3, <1>22 DEF StoresSound, PassesSound, HandlersSound, FlagsOK, Held, CacheInv,
        CacheTypeOK, Lists

\* The invariant holds whatever passes, listeners and stops interleave.
THEOREM CacheInductive == CacheSpec => []CacheInv
  BY CacheInitial, CacheStep, PTL DEF CacheSpec

LEMMA CacheInvImplies == CacheInv => PassesAreComplete /\ RecordsAreOnChain
<1>1. CacheInv => PassesAreComplete
  BY DEF CacheInv, Sound, CompleteUpTo, PassesAreComplete
<1>2. CacheInv => RecordsAreOnChain
  BY DEF CacheInv, Sound, OnChain, RecordsAreOnChain
<1> QED BY <1>1, <1>2

\* Passes of TrustedIssuerRegistryService.sync skip no block, for any issuers
\* and any number of passes that overlap, fail or are cut short.
THEOREM PassesSkipNone == CacheSpec => []PassesAreComplete
  BY CacheInductive, CacheInvImplies, PTL

\* No record of the state file or of the table names a block without its event,
\* whatever handleAdded, handleRemoved and sync wrote over each other.
THEOREM RecordsFollowTheChain == CacheSpec => []RecordsAreOnChain
  BY CacheInductive, CacheInvImplies, PTL

-----------------------------------------------------------------------------

LEMMA VerificationInitial == VerificationInit => CacheInv /\ VerificationInv
  BY CacheInitial DEF VerificationInit, VerificationInv, VerifyTypeOK, ValidIsTrusted

\* The registry's service and its list are the same beneath requests.
LEMMA VerificationRefines ==
    [VerificationNext]_<<cacheVars, verifyVars>> => [CacheNext]_cacheVars
  BY DEF VerificationNext, PostVerify, TrustAnswered, TrustUnanswered, Reply, Meanwhile, cacheVars

LEMMA VerificationStep ==
    CacheInv /\ VerificationInv /\ [VerificationNext]_<<cacheVars, verifyVars>> => VerificationInv'
<1> SUFFICES ASSUME CacheInv, VerificationInv, [VerificationNext]_<<cacheVars, verifyVars>>
             PROVE  VerificationInv'
  OBVIOUS
<1> DEFINE Asked(r) == r # NoRequest =>
        /\ r \in Request /\ r.credential.signer \in Signers
        /\ Trusted(r.credential.signer) => r.seen
           Valid(a) == a # NoAnswer /\ a.valid /\ a.up => a.seen
<1>1. up \in BOOLEAN
  BY DEF CacheInv, CacheTypeOK
<1>2. /\ request \in Request \cup {NoRequest} /\ answer \in Answer \cup {NoAnswer}
      /\ Asked(request) /\ Valid(answer)
  BY DEF VerificationInv, VerifyTypeOK, ValidIsTrusted
<1>3. \A a : Trusted(a) \in BOOLEAN /\ (log' = log => (Trusted(a)' <=> Trusted(a)))
  <2>1. \A a : Trusted(a) \in BOOLEAN
    BY DEF Trusted
  <2>2. log' = log => \A k, a, f, t : LastBlock(k, a, f, t)' = LastBlock(k, a, f, t)
    BY DEF LastBlock
  <2>3. log' = log => \A a : Trusted(a)' <=> Trusted(a)
    BY <2>2 DEF Trusted
  <2> QED BY <2>1, <2>3
<1>4. ASSUME request' = NoRequest \/ (request' = request /\ log' = log)
      PROVE  request' \in Request \cup {NoRequest} /\ Asked(request)'
  BY <1>2, <1>3, <1>4
<1>5. ASSUME answer' = NoAnswer \/ answer' = answer
      PROVE  answer' \in Answer \cup {NoAnswer} /\ Valid(answer')
  BY <1>2, <1>5
<1> DEFINE Goal == /\ request' \in Request \cup {NoRequest} /\ Asked(request)'
                   /\ answer' \in Answer \cup {NoAnswer} /\ Valid(answer')
<1>6. ASSUME NEW c \in Credentials, PostVerify(c) PROVE Goal
  <2>1. CASE up /\ c.signer # Nobody
    <3>1. /\ request' = [credential |-> c, seen |-> Trusted(c.signer)]
          /\ answer' = answer /\ log' = log /\ c.signer \in Signers
      BY <1>6, <2>1 DEF PostVerify, cacheVars, Credentials
    <3>2. request' \in Request /\ request'.credential = c /\ request'.seen = Trusted(c.signer)
      BY <1>3, <3>1 DEF Request
    <3>3. Asked(request)'
      BY <1>3, <3>1, <3>2
    <3> QED BY <1>5, <3>1, <3>2, <3>3
  <2>2. CASE ~ (up /\ c.signer # Nobody)
    <3>1. /\ answer' = [credential |-> c, valid |-> SignatureOk(c), trustedIssuer |-> "N/A",
                        seen |-> FALSE, up |-> up]
          /\ request' = request /\ log' = log
      BY <1>6, <2>2 DEF PostVerify, cacheVars
    <3>2. SignatureOk(c) \in BOOLEAN /\ (SignatureOk(c) => c.signer # Nobody)
      BY DEF SignatureOk
    <3>3. answer' \in Answer
      BY <1>1, <3>1, <3>2 DEF Answer
    <3>4. Valid(answer')
      BY <2>2, <3>1, <3>2
    <3> QED BY <1>4, <3>1, <3>3, <3>4
  <2> QED BY <2>1, <2>2
<1>7. ASSUME TrustAnswered PROVE Goal
  <2> DEFINE c == request.credential
             trusted == Trusted(c.signer)
  <2>1. request \in Request /\ c \in Credentials /\ request.seen \in BOOLEAN /\ (trusted => request.seen)
    BY <1>2, <1>7 DEF TrustAnswered, Request
  <2>2. /\ answer' = [credential |-> c, valid |-> SignatureOk(c) /\ trusted,
                      trustedIssuer |-> IF trusted THEN "VALID" ELSE "INVALID",
                      seen |-> request.seen, up |-> TRUE]
        /\ request' = NoRequest
    BY <1>7 DEF TrustAnswered, IsTrustedIssuer
  <2> HIDE DEF c, trusted
  <2>3. answer' \in Answer
    BY <2>1, <2>2 DEF Answer
  <2>4. Valid(answer')
    BY <2>1, <2>2
  <2> QED BY <1>4, <2>2, <2>3, <2>4
<1>8. ASSUME TrustUnanswered \/ Reply \/ UNCHANGED <<cacheVars, verifyVars>> PROVE Goal
  <2>1. /\ request' = NoRequest \/ (request' = request /\ log' = log)
        /\ answer' = NoAnswer \/ answer' = answer
    BY <1>8 DEF TrustUnanswered, Reply, cacheVars, verifyVars
  <2> QED BY <1>4, <1>5, <2>1
<1>9. ASSUME Meanwhile PROVE Goal
  <2>1. answer' = answer
    BY <1>9 DEF Meanwhile
  <2>2. CASE request = NoRequest /\ request' = request
    BY <1>4, <1>5, <2>1, <2>2
  <2>3. ASSUME NEW a \in Signers, request # NoRequest, request.credential.signer = a,
               request' = [request EXCEPT !.seen = @ \/ Trusted(a)']
        PROVE  Goal
    <3>1. request \in Request
      BY <1>2, <2>3
    <3>2. Trusted(a)' \in BOOLEAN
      BY DEF Trusted
    <3>3. /\ request' \in Request /\ request'.credential = request.credential
          /\ request'.seen = (request.seen \/ Trusted(a)')
      BY <2>3, <3>1, <3>2 DEF Request
    <3>4. request'.credential.signer = a
      BY <2>3, <3>3
    <3>5. Asked(request)'
      BY <3>3, <3>4
    <3> QED BY <1>5, <2>1, <3>3, <3>5
  <2> QED BY <1>9, <2>2, <2>3 DEF Meanwhile
<1>10. Goal
  BY <1>6, <1>7, <1>8, <1>9 DEF VerificationNext
<1> QED BY <1>10 DEF VerificationInv, VerifyTypeOK, ValidIsTrusted

\* The two invariants hold of requests and of the list beneath them.
THEOREM VerificationInductive == VerificationSpec => [](CacheInv /\ VerificationInv)
<1>1. CacheInv /\ VerificationInv /\ [VerificationNext]_<<cacheVars, verifyVars>>
          => (CacheInv /\ VerificationInv)'
  BY CacheStep, VerificationStep, VerificationRefines
<1> QED BY <1>1, VerificationInitial, PTL DEF VerificationSpec

\* POST /verify calls a credential valid only when the registry trusted its
\* signer at some time of the request, or the registry's service was down.
THEOREM ValidWasTrusted == VerificationSpec => []ValidIsTrusted
<1>1. VerificationInv => ValidIsTrusted
  BY DEF VerificationInv
<1> QED BY <1>1, VerificationInductive, PTL

-----------------------------------------------------------------------------
(* The file store.                                                         *)

Shared == \E v, w \in Writers : v # w /\ Named(v) /\ Named(w) /\ calls[v].stamp = calls[w].stamp

\* Without a shared name a temporary file is its writer's alone until it is
\* renamed, whole.
OwnTemps ==
    /\ \A t \in 0 .. MaxMs : temps[t] # NoFile => Named(temps[t]) /\ calls[temps[t]].stamp = t
    /\ \A w \in Writers :
          /\ calls[w].at # "failed"
          /\ calls[w].at \in {"open", "written"} =>
                calls[w].file = w /\ temps[calls[w].stamp] = w
          /\ calls[w].at = "open" => content[w] = "empty"
          /\ calls[w].at = "written" => content[w] = w
    /\ path # NoFile => content[path] = path /\ calls[path].at = "done"

StoreInv == StoreTypeOK /\ (Shared \/ OwnTemps)

LEMMA StoreInitial == StoreInit => StoreInv
  BY NoFileAssumption, MsAssumption
     DEF StoreInit, StoreInv, StoreTypeOK, OwnTemps, Call, Unreadable, Named

\* Names once taken stay taken.
LEMMA SharedStays ==
    ASSUME Shared,
           \A w \in Writers : Named(w) => Named(w)' /\ calls'[w].stamp = calls[w].stamp
    PROVE  Shared'
  BY DEF Shared

LEMMA NameStep ==
    ASSUME StoreInv, NEW w \in Writers, NameTemp(w) PROVE StoreInv'
  <1>1. /\ StoreTypeOK /\ calls[w].at = "new"
        /\ calls' = [calls EXCEPT ![w] = [@ EXCEPT !.at = "named", !.stamp = ms]]
        /\ UNCHANGED <<ms, path, temps, content>>
    BY DEF NameTemp, StoreInv
  <1>2. /\ calls[w] \in Call /\ calls'[w] = [calls[w] EXCEPT !.at = "named", !.stamp = ms]
        /\ \A v \in Writers : v # w => calls'[v] = calls[v]
    BY <1>1 DEF StoreTypeOK
  <1>3. calls'[w] \in Call /\ calls'[w].at = "named"
    BY <1>1, <1>2 DEF StoreTypeOK, Call
  <1>4. StoreTypeOK'
    BY <1>1, <1>3 DEF StoreTypeOK
  <1>5. CASE Shared
    BY <1>1, <1>2, <1>4, <1>5, SharedStays DEF StoreInv, Named
  <1>6. CASE OwnTemps
    BY <1>1, <1>2, <1>3, <1>4, <1>6 DEF StoreInv, OwnTemps, StoreTypeOK, Named
  <1> QED
    BY <1>5, <1>6 DEF StoreInv

LEMMA OpenStep ==
    ASSUME StoreInv, NEW w \in Writers, OpenTemp(w) PROVE StoreInv'
  <1> DEFINE t == calls[w].stamp
             f == IF temps[t] = NoFile THEN w ELSE temps[t]
  <1>1. /\ StoreTypeOK /\ calls[w].at = "named" /\ calls[w] \in Call
        /\ calls' = [calls EXCEPT ![w] = [@ EXCEPT !.at = "open", !.file = f]]
        /\ temps' = [temps EXCEPT ![t] = f] /\ content' = [content EXCEPT ![f] = "empty"]
        /\ UNCHANGED <<ms, path>>
    BY DEF OpenTemp, StoreInv, StoreTypeOK
  <1>2. t \in 0 .. MaxMs /\ f \in Writers
    BY <1>1 DEF StoreTypeOK, Call
  <1>3. /\ calls'[w] = [calls[w] EXCEPT !.at = "open", !.file = f]
        /\ \A v \in Writers : v # w => calls'[v] = calls[v]
    BY <1>1 DEF StoreTypeOK
  <1>4. /\ calls'[w] \in Call /\ calls'[w].at = "open" /\ calls'[w].file = f
        /\ calls'[w].stamp = t
    <2> PICK file0 \in Writers : file0 = f
      BY <1>2
    <2>1. calls'[w] = [calls[w] EXCEPT !.at = "open", !.file = file0]
      BY <1>3
    <2>2. calls[w] \in Call
      BY <1>1
    <2> HIDE DEF f, t
    <2>3. \A c \in Call : LET d == [c EXCEPT !.at = "open", !.file = file0] IN
             d \in Call /\ d.at = "open" /\ d.file = file0 /\ d.stamp = c.stamp
      BY DEF Call
    <2>4. calls'[w].stamp = calls[w].stamp
      BY <2>1, <2>2, <2>3
    <2> QED
      BY <2>1, <2>2, <2>3, <2>4 DEF t
  <1>5. StoreTypeOK'
    BY <1>1, <1>2, <1>4 DEF StoreTypeOK, Unreadable
  <1>6. CASE Shared
    BY <1>1, <1>3, <1>4, <1>5, <1>6, SharedStays DEF StoreInv, Named
  <1>7. CASE OwnTemps /\ ~Shared
    <2>1. f = w
      BY <1>1, <1>2, <1>7 DEF OwnTemps, Shared, Named
    <2>2. /\ temps'[t] = w /\ content'[w] = "empty"
          /\ \A u \in 0 .. MaxMs : u # t => temps'[u] = temps[u]
          /\ \A v \in Writers : v # w => content'[v] = content[v]
      BY <1>1, <1>2, <2>1 DEF StoreTypeOK
    <2>3. \A v \in Writers : v # w /\ calls[v].at \in {"open", "written"} => calls[v].stamp # t
      BY <1>1, <1>7 DEF Shared, Named
    <2>4. \A v \in Writers : calls[v].stamp \in 0 .. MaxMs
      BY <1>1 DEF StoreTypeOK, Call
    <2> HIDE DEF t, f
    <2>5. OwnTemps'
      BY <1>1, <1>3, <1>4, <1>7, <2>1, <2>2, <2>3, <2>4 DEF OwnTemps, Named, StoreTypeOK
    <2> QED
      BY <1>5, <2>5 DEF StoreInv
  <1> QED
    BY <1>6, <1>7 DEF StoreInv

LEMMA WriteTempStep ==
    ASSUME StoreInv, NEW w \in Writers, WriteTemp(w) PROVE StoreInv'
  <1> DEFINE f == calls[w].file
  <1>1. PICK text \in IF content[f] = "empty" THEN {w} ELSE {w, "mixed"} :
           content' = [content EXCEPT ![f] = text]
    BY DEF WriteTemp
  <1>2. /\ StoreTypeOK /\ calls[w].at = "open" /\ calls[w] \in Call
        /\ calls' = [calls EXCEPT ![w].at = "written"]
        /\ UNCHANGED <<ms, path, temps>>
    BY DEF WriteTemp, Goes, StoreInv, StoreTypeOK
  <1>3. /\ calls'[w] = [calls[w] EXCEPT !.at = "written"]
        /\ \A v \in Writers : v # w => calls'[v] = calls[v]
    BY <1>2 DEF StoreTypeOK
  <1>4. /\ calls'[w] \in Call /\ calls'[w].at = "written"
        /\ calls'[w].stamp = calls[w].stamp /\ calls'[w].file = calls[w].file
    BY <1>2, <1>3 DEF Call
  <1>5. StoreTypeOK'
    BY <1>1, <1>2, <1>4 DEF StoreTypeOK, Unreadable
  <1>6. CASE Shared
    BY <1>2, <1>3, <1>4, <1>5, <1>6, SharedStays DEF StoreInv, Named
  <1>7. CASE OwnTemps
    <2>1. f = w /\ content[w] = "empty"
      BY <1>2, <1>7 DEF OwnTemps
    <2>2. content'[w] = w /\ \A v \in Writers : v # w => content'[v] = content[v]
      BY <1>1, <1>2, <2>1 DEF StoreTypeOK
    <2> HIDE DEF f
    <2>3. OwnTemps'
      BY <1>2, <1>3, <1>4, <1>7, <2>2 DEF OwnTemps, Named, StoreTypeOK
    <2> QED
      BY <1>5, <2>3 DEF StoreInv
  <1> QED
    BY <1>6, <1>7 DEF StoreInv

LEMMA RenameStep ==
    ASSUME StoreInv, NEW w \in Writers, RenameTemp(w) PROVE StoreInv'
  <1> DEFINE t == calls[w].stamp
             to == IF temps[t] = NoFile THEN "failed" ELSE "done"
  <1>1. /\ StoreTypeOK /\ calls[w].at = "written" /\ calls[w] \in Call
        /\ calls' = [calls EXCEPT ![w].at = to] /\ UNCHANGED <<ms, content>>
        /\ path' = IF temps[t] = NoFile THEN path ELSE temps[t]
        /\ temps' = IF temps[t] = NoFile THEN temps ELSE [temps EXCEPT ![t] = NoFile]
    BY DEF RenameTemp, Goes, StoreInv, StoreTypeOK
  <1>2. t \in 0 .. MaxMs /\ to \in {"failed", "done"}
    BY <1>1 DEF Call
  <1>3. /\ calls'[w] = [calls[w] EXCEPT !.at = to]
        /\ \A v \in Writers : v # w => calls'[v] = calls[v]
    BY <1>1 DEF StoreTypeOK
  <1>4. /\ calls'[w] \in Call /\ calls'[w].at = to /\ calls'[w].stamp = t
        /\ calls'[w].file = calls[w].file
    BY <1>1, <1>2, <1>3 DEF Call
  <1>5. StoreTypeOK'
    BY <1>1, <1>2, <1>4 DEF StoreTypeOK
  <1>6. CASE Shared
    BY <1>1, <1>2, <1>3, <1>4, <1>5, <1>6, SharedStays DEF StoreInv, Named
  <1>7. CASE OwnTemps /\ ~Shared
    <2>1. temps[t] = w /\ content[w] = w /\ w # NoFile
      BY <1>1, <1>7, NoFileAssumption DEF OwnTemps
    <2>2. /\ to = "done" /\ path' = w /\ temps'[t] = NoFile
          /\ \A u \in 0 .. MaxMs : u # t => temps'[u] = temps[u]
      BY <1>1, <1>2, <2>1 DEF StoreTypeOK
    <2>3. \A v \in Writers : v # w /\ calls[v].at \in {"open", "written"} => calls[v].stamp # t
      BY <1>1, <1>7 DEF Shared, Named
    <2>4. \A v \in Writers : calls[v].stamp \in 0 .. MaxMs
      BY <1>1 DEF StoreTypeOK, Call
    <2>5. \A u \in 0 .. MaxMs : temps'[u] # NoFile => temps'[u] \in Writers
      BY <1>5 DEF StoreTypeOK
    <2> HIDE DEF t, to
    <2>6. \A u \in 0 .. MaxMs : temps'[u] # NoFile =>
             calls'[temps'[u]].at # "new" /\ calls'[temps'[u]].stamp = u
      BY <1>3, <1>4, <1>7, <2>2, <2>5 DEF OwnTemps, Named
    <2>7. OwnTemps'
      BY <1>1, <1>3, <1>4, <1>7, <2>1, <2>2, <2>3, <2>4, <2>6 DEF OwnTemps, Named
    <2> QED
      BY <1>5, <2>7 DEF StoreInv
  <1> QED
    BY <1>6, <1>7 DEF StoreInv

LEMMA StoreCrashStep ==
    ASSUME StoreInv, StoreCrash PROVE StoreInv'
  <1>1. /\ StoreTypeOK /\ UNCHANGED <<ms, path, temps, content>>
        /\ calls' = [w \in Writers |->
               IF calls[w].at = "new" THEN calls[w] ELSE [calls[w] EXCEPT !.at = "done"]]
    BY DEF StoreCrash, StoreInv
  <1>2. \A w \in Writers : /\ calls'[w] \in Call /\ calls'[w].stamp = calls[w].stamp
                           /\ calls'[w].at = IF calls[w].at = "new" THEN "new" ELSE "done"
    BY <1>1 DEF StoreTypeOK, Call
  <1>3. StoreTypeOK'
    BY <1>1, <1>2 DEF StoreTypeOK
  <1>4. CASE Shared
    BY <1>2, <1>3, <1>4, SharedStays DEF StoreInv, Named
  <1>5. CASE OwnTemps
    BY <1>1, <1>2, <1>3, <1>5 DEF StoreInv, OwnTemps, Named, StoreTypeOK
  <1> QED
    BY <1>4, <1>5 DEF StoreInv

LEMMA StoreStep == StoreInv /\ [StoreNext]_storeVars => StoreInv'
  <1> SUFFICES ASSUME StoreInv, [StoreNext]_storeVars PROVE StoreInv'
    OBVIOUS
  <1>1. CASE Millisecond
    BY <1>1, MsAssumption DEF Millisecond, StoreInv, StoreTypeOK, OwnTemps, Shared, Named
  <1>2. CASE UNCHANGED storeVars
    BY <1>2 DEF storeVars, StoreInv, StoreTypeOK, OwnTemps, Shared, Named
  <1> QED
    BY <1>1, <1>2, NameStep, OpenStep, WriteTempStep, RenameStep, StoreCrashStep DEF StoreNext

\* A path is torn, or a call fails, only when two calls took the name of their
\* temporary file in one millisecond, for any number of writers.
THEOREM TornBySharing == StoreSpec => []TornOnlyIfShared
  <1>1. StoreInv => TornOnlyIfShared
    <2> SUFFICES ASSUME StoreTypeOK, OwnTemps
                 PROVE  LoadAll \notin Unreadable /\ \A w \in Writers : calls[w].at # "failed"
      BY DEF StoreInv, TornOnlyIfShared, Shared
    <2>1. LoadAll \in Writers \cup {NoFile}
      BY DEF LoadAll, OwnTemps, StoreTypeOK
    <2> QED
      BY <2>1, WritersAssumption, NoFileAssumption DEF OwnTemps, Unreadable, LoadAll
  <1> QED
    BY <1>1, StoreInitial, StoreStep, PTL DEF StoreSpec


-----------------------------------------------------------------------------
(* The index of credentials on chain. *)

\* Kept: the record has its file.
Kept(kind, vc) == vc \in files[kind]

\* An index, whether on disk or in the hands of a sync, holds every event of
\* its kind below its mark, and those are kept.
CompleteIndex(kind, i) ==
    /\ i.mark =< Len(chain) + 1
    /\ \A b \in DOMAIN chain : chain[b].kind = kind /\ b < i.mark =>
          chain[b].vc \in i.records /\ Kept(kind, chain[b].vc)

\* A sync that stores has every event up to the block it read to in its index,
\* and has kept those before the next one it will store.
CompleteStoring(q) ==
    /\ q.latest =< Len(chain) /\ q.base.mark = q.latest + 1
    /\ q.next =< q.latest => q.next \in DOMAIN chain /\ chain[q.next].kind = q.kind
    /\ \A b \in DOMAIN chain : chain[b].kind = q.kind /\ b =< q.latest =>
          /\ chain[b].vc \in q.base.records
          /\ b < q.next => Kept(q.kind, chain[b].vc)
    /\ q.filed => q.next =< q.latest /\ Kept(q.kind, chain[q.next].vc)

\* Indexes on disk and in the hands of syncs are complete, and whoever will try
\* the table has written the file.
HybridInv ==
    /\ HybridTypeOK
    /\ \A kind \in Kinds : CompleteIndex(kind, index[kind])
    /\ \A p \in Syncs :
          /\ syncs[p].phase = "reading" => CompleteIndex(syncs[p].kind, syncs[p].base)
          /\ syncs[p].phase = "storing" => CompleteStoring(syncs[p])
    /\ given \cup filed \subseteq DOMAIN chain
    /\ \A b \in filed : Kept(chain[b].kind, chain[b].vc)
    /\ RowsAreFiled

\* NextBlock skips no event of the kind up to the latest block.
LEMMA NextBlockSkipsNone ==
    HybridTypeOK => \A kind \in Kinds, b, latest \in Nat :
        /\ NextBlock(kind, b, latest) \in Nat
        /\ NextBlock(kind, b, latest) =< latest =>
              /\ NextBlock(kind, b, latest) \in DOMAIN chain
              /\ chain[NextBlock(kind, b, latest)].kind = kind
        /\ \A c \in DOMAIN chain : chain[c].kind = kind /\ b =< c /\ c =< latest =>
              NextBlock(kind, b, latest) =< c
<1> SUFFICES ASSUME HybridTypeOK, NEW kind \in Kinds, NEW b \in Nat, NEW latest \in Nat
    PROVE /\ NextBlock(kind, b, latest) \in Nat
          /\ NextBlock(kind, b, latest) =< latest =>
                /\ NextBlock(kind, b, latest) \in DOMAIN chain
                /\ chain[NextBlock(kind, b, latest)].kind = kind
          /\ \A c \in DOMAIN chain : chain[c].kind = kind /\ b =< c /\ c =< latest =>
                NextBlock(kind, b, latest) =< c
  OBVIOUS
<1> DEFINE blocks == {c \in DOMAIN chain : b =< c /\ c =< latest /\ chain[c].kind = kind}
           n == CHOOSE c \in blocks : \A d \in blocks : c =< d
<1>1. DOMAIN chain \subseteq Nat
  BY DEF HybridTypeOK
<1>2. CASE blocks = {}
  <2>1. NextBlock(kind, b, latest) = latest + 1
    BY <1>2 DEF NextBlock
  <2> QED BY <1>1, <1>2, <2>1
<1>3. CASE blocks # {}
  <2>1. NextBlock(kind, b, latest) = n
    BY <1>3 DEF NextBlock
  <2>2. \E c \in blocks : \A d \in blocks : c =< d
    <3>1. blocks \in SUBSET Nat
      BY <1>1
    <3> HIDE DEF blocks
    <3> QED BY <1>3, <3>1, NatMin
  <2>3. n \in blocks /\ \A d \in blocks : n =< d
    <3> HIDE DEF blocks
    <3> QED BY <2>2
  <2> HIDE DEF n
  <2> QED BY <1>1, <2>1, <2>3
<1> QED BY <1>2, <1>3

\* What the program does to the disk: the chain and the files grow.
Grows ==
    /\ chain' = chain \/ \E e \in Registered : chain' = Append(chain, e)
    /\ \A kind \in Kinds : files[kind] \subseteq files'[kind]

\* No step takes a block or a file away.
LEMMA StepGrows == HybridTypeOK /\ [HybridNext]_hybridVars => Grows
<1> SUFFICES ASSUME HybridTypeOK, [HybridNext]_hybridVars PROVE Grows
  OBVIOUS
<1> USE DEF Grows, HybridTypeOK
<1>1. ASSUME NEW kind \in Kinds, NEW vc \in Creds, Register(kind, vc) PROVE Grows
  BY <1>1 DEF Register, Registered
<1>2. ASSUME NEW p \in Syncs, StoreEvent(p) PROVE Grows
  BY <1>2 DEF StoreEvent, WriteFile
<1>3. ASSUME NEW b \in given, Listen(b) PROVE Grows
  BY <1>3 DEF Listen, WriteFile
<1>4. CASE UNCHANGED <<chain, files>>
  BY <1>4
<1> QED BY <1>1, <1>2, <1>3, <1>4 DEF StoreRow, ListenerRow, 
        HybridNext, hybridVars, StartSync, ReadIndex, QueryEvents, EndSync, SyncThrows, StopHybrid

\* Blocks stay where they are, and no new one has the number of an old one.
LEMMA ChainGrows ==
    ASSUME HybridTypeOK, Grows
    PROVE  /\ DOMAIN chain \subseteq DOMAIN chain' /\ DOMAIN chain' \subseteq Nat
           /\ \A b \in DOMAIN chain : chain'[b] = chain[b]
           /\ \A b \in DOMAIN chain' : b =< Len(chain) => b \in DOMAIN chain
           /\ Len(chain) \in Nat /\ Len(chain') \in Nat /\ Len(chain) =< Len(chain')
<1>1. /\ chain \in Seq(Registered) /\ Len(chain) \in Nat /\ DOMAIN chain = 1 .. Len(chain)
  BY DEF HybridTypeOK
<1>2. CASE chain' = chain
  BY <1>1, <1>2
<1>3. CASE \E e \in Registered : chain' = Append(chain, e)
  <2> PICK e \in Registered : chain' = Append(chain, e)
    BY <1>3
  <2>1. /\ Len(chain') = Len(chain) + 1 /\ DOMAIN chain' = 1 .. Len(chain) + 1
        /\ \A b \in 1 .. Len(chain) : chain'[b] = chain[b]
    BY <1>1
  <2> QED BY <1>1, <2>1
<1> QED BY <1>2, <1>3 DEF Grows

\* A record that is kept stays kept.
LEMMA KeptStays ==
    ASSUME Grows, NEW kind \in Kinds, NEW vc, Kept(kind, vc)
    PROVE  Kept(kind, vc)'
  BY DEF Grows, Kept, Kinds

\* What was complete stays complete while the disk grows.
LEMMA IndexStays ==
    ASSUME HybridTypeOK, Grows
    PROVE  \A kind \in Kinds, i \in Index : CompleteIndex(kind, i) => CompleteIndex(kind, i)'
<1> SUFFICES ASSUME NEW kind \in Kinds, NEW i \in Index, CompleteIndex(kind, i)
             PROVE  CompleteIndex(kind, i)'
  OBVIOUS
<1>1. i.mark \in Nat /\ i.mark =< Len(chain) + 1
  BY DEF Index, CompleteIndex
<1>2. i.mark =< Len(chain') + 1
  BY <1>1, ChainGrows
<1>3. ASSUME NEW b \in DOMAIN chain', chain'[b].kind = kind, b < i.mark
      PROVE  (chain[b].vc \in i.records /\ Kept(kind, chain[b].vc))'
  <2>1. b \in DOMAIN chain /\ chain'[b] = chain[b]
    BY <1>1, <1>3, ChainGrows
  <2>2. chain[b].vc \in i.records /\ Kept(kind, chain[b].vc)
    BY <1>3, <2>1 DEF CompleteIndex
  <2>3. \A vc : Kept(kind, vc) => Kept(kind, vc)'
    BY KeptStays
  <2> QED BY <2>1, <2>2, <2>3 DEF Kept
<1> QED BY <1>2, <1>3 DEF CompleteIndex

LEMMA StoringStays ==
    ASSUME HybridTypeOK, Grows
    PROVE  \A q \in StoringEvents : CompleteStoring(q) => CompleteStoring(q)'
<1> SUFFICES ASSUME NEW q \in StoringEvents, CompleteStoring(q)
             PROVE  CompleteStoring(q)'
  OBVIOUS
<1>1. q.kind \in Kinds /\ q.latest \in Nat /\ q.next \in Nat /\ q.base.mark \in Nat
  BY DEF StoringEvents, Index
<1>2. q.latest =< Len(chain') /\ q.base.mark = q.latest + 1
  BY <1>1, ChainGrows DEF CompleteStoring
<1>3. q.next =< q.latest => q.next \in DOMAIN chain' /\ chain'[q.next].kind = q.kind
  BY <1>1, ChainGrows DEF CompleteStoring
<1>4. ASSUME NEW b \in DOMAIN chain', chain'[b].kind = q.kind, b =< q.latest
      PROVE  (chain[b].vc \in q.base.records /\ (b < q.next => Kept(q.kind, chain[b].vc)))'
  <2>1. b \in DOMAIN chain /\ chain'[b] = chain[b]
    BY <1>1, <1>4, ChainGrows DEF CompleteStoring
  <2>2. chain[b].vc \in q.base.records /\ (b < q.next => Kept(q.kind, chain[b].vc))
    BY <1>4, <2>1 DEF CompleteStoring
  <2>3. \A vc : Kept(q.kind, vc) => Kept(q.kind, vc)'
    BY <1>1, KeptStays
  <2> QED BY <2>1, <2>2, <2>3 DEF Kept
<1>5. ASSUME q.filed PROVE q.next =< q.latest /\ Kept(q.kind, chain[q.next].vc)'
  <2>1. /\ q.next =< q.latest /\ q.next \in DOMAIN chain /\ chain'[q.next] = chain[q.next]
        /\ Kept(q.kind, chain[q.next].vc)
    BY <1>5, ChainGrows DEF CompleteStoring
  <2> QED BY <1>1, <2>1, KeptStays DEF Kept
<1> QED BY <1>2, <1>3, <1>4, <1>5 DEF CompleteStoring


LEMMA HybridInitial == HybridInit => HybridInv
<1> SUFFICES ASSUME HybridInit PROVE HybridInv
  OBVIOUS
<1> USE DEF HybridInit
<1>1. HybridTypeOK
  <2>1. chain \in Seq(Registered)
    OBVIOUS
  <2>2. index \in [Kinds -> Index]
    BY DEF Index
  <2> QED BY <2>1, <2>2 DEF HybridTypeOK
<1>2. \A p \in Syncs : syncs[p].phase = "idle"
  BY DEF NoSync
<1>3. DOMAIN chain = {} /\ Len(chain) = 0
  OBVIOUS
<1>4. \A kind \in Kinds : CompleteIndex(kind, index[kind])
  BY <1>3 DEF CompleteIndex
<1> QED BY <1>1, <1>2, <1>4 DEF HybridInv, RowsAreFiled

\* What a sync holds, by its phase.
LEMMA Phases ==
    ASSUME HybridTypeOK, NEW p \in Syncs
    PROVE  /\ syncs[p] # NoSync => syncs[p].kind \in Kinds /\ syncs[p].forced \in BOOLEAN
           /\ syncs[p].phase = "begun" => syncs[p] \in Begun
           /\ syncs[p].phase = "reading" => syncs[p] \in ReadingIndex
           /\ syncs[p].phase = "storing" => syncs[p] \in StoringEvents
           /\ NoSync.phase = "idle"
  BY DEF HybridTypeOK, NoSync, Begun, ReadingIndex, StoringEvents

\* What QueryEvents leaves a sync that read a complete index.
LEMMA QueryEventsStep ==
    ASSUME HybridInv, NEW p \in Syncs, QueryEvents(p)
    PROVE  /\ syncs'[p] \in StoringEvents
           /\ CompleteStoring(syncs'[p])
           /\ \A o \in Syncs : o # p => syncs'[o] = syncs[o]
<1> DEFINE q == syncs[p]
           mark == IF q.forced THEN 0 ELSE q.base.mark
           start == IF Len(chain) < mark THEN 0 ELSE mark
           events == {b \in DOMAIN chain : start =< b /\ chain[b].kind = q.kind}
           records == q.base.records \cup {chain[b].vc : b \in events}
           next == NextBlock(q.kind, start, Len(chain))
<1>1. /\ q \in ReadingIndex /\ q.kind \in Kinds /\ q.base \in Index
      /\ CompleteIndex(q.kind, q.base) /\ HybridTypeOK
  BY Phases DEF QueryEvents, HybridInv, ReadingIndex
<1>2. start \in Nat /\ Len(chain) \in Nat
  BY <1>1 DEF HybridTypeOK, Index
<1>3. \A b \in DOMAIN chain : chain[b] \in Registered /\ b \in Nat /\ b =< Len(chain)
  BY <1>1 DEF HybridTypeOK
<1>4. /\ next \in Nat
      /\ next =< Len(chain) => next \in DOMAIN chain /\ chain[next].kind = q.kind
      /\ \A c \in DOMAIN chain :
            chain[c].kind = q.kind /\ start =< c /\ c =< Len(chain) => next =< c
  <2> HIDE DEF start
  <2> QED BY <1>1, <1>2, NextBlockSkipsNone
<1>5. \A b \in DOMAIN chain : chain[b].kind = q.kind =>
          /\ chain[b].vc \in records
          /\ b < next => Kept(q.kind, chain[b].vc)
  <2> SUFFICES ASSUME NEW b \in DOMAIN chain, chain[b].kind = q.kind
               PROVE  chain[b].vc \in records /\ (b < next => Kept(q.kind, chain[b].vc))
    OBVIOUS
  <2>1. CASE start =< b
    <3>1. b \in events
      BY <2>1
    <3>2. next =< b
      BY <1>3, <1>4, <2>1
    <3> QED BY <1>3, <1>4, <3>1, <3>2
  <2>2. CASE ~ (start =< b)
    <3>1. b < q.base.mark
      BY <1>1, <1>2, <1>3, <2>2 DEF Index
    <3> QED BY <1>1, <3>1 DEF CompleteIndex
  <2> QED BY <2>1, <2>2
<1>6. records \subseteq Creds
  BY <1>1, <1>3 DEF Registered, Index
<1>7. syncs' = [syncs EXCEPT ![p] =
               [phase |-> "storing", kind |-> q.kind, forced |-> q.forced,
                base |-> [mark |-> Len(chain) + 1, records |-> records],
                next |-> next, latest |-> Len(chain), filed |-> FALSE]]
  BY DEF QueryEvents
<1> HIDE DEF next, records, start
<1>8. syncs'[p] = [phase |-> "storing", kind |-> q.kind, forced |-> q.forced,
                base |-> [mark |-> Len(chain) + 1, records |-> records],
                next |-> next, latest |-> Len(chain), filed |-> FALSE]
  BY <1>1, <1>7 DEF HybridTypeOK
<1>9. syncs'[p] \in StoringEvents
  BY <1>1, <1>2, <1>4, <1>6, <1>8 DEF StoringEvents, Index, ReadingIndex
<1>10. CompleteStoring(syncs'[p])
  BY <1>2, <1>3, <1>4, <1>5, <1>8 DEF CompleteStoring
<1> QED BY <1>1, <1>7, <1>9, <1>10 DEF HybridTypeOK

\* The event just written is kept.
LEMMA StoreEventStep ==
    ASSUME HybridInv, NEW p \in Syncs, StoreEvent(p)
    PROVE  /\ syncs'[p] \in StoringEvents
           /\ CompleteStoring(syncs[p])'
           /\ \A o \in Syncs : o # p => syncs'[o] = syncs[o]
           /\ files' \in [Kinds -> SUBSET Creds]
<1> DEFINE q == syncs[p]
<1>1. /\ q \in StoringEvents /\ q.kind \in Kinds /\ q.next =< q.latest
      /\ q.next \in DOMAIN chain /\ chain[q.next] \in Registered
      /\ CompleteStoring(q) /\ HybridTypeOK
  BY Phases DEF StoreEvent, HybridInv, StoringEvents, CompleteStoring, HybridTypeOK
<1>2. /\ files' = [files EXCEPT ![q.kind] = @ \cup {chain[q.next].vc}]
      /\ chain' = chain /\ syncs' = [syncs EXCEPT ![p].filed = TRUE]
  BY DEF StoreEvent, WriteFile
<1>3. files' \in [Kinds -> SUBSET Creds]
  BY <1>1, <1>2 DEF HybridTypeOK, Registered
<1>4. /\ syncs'[p] = [q EXCEPT !.filed = TRUE]
      /\ \A o \in Syncs : o # p => syncs'[o] = syncs[o]
  BY <1>1, <1>2 DEF HybridTypeOK
<1>5. /\ syncs'[p] \in StoringEvents
      /\ syncs'[p].kind = q.kind /\ syncs'[p].latest = q.latest
      /\ syncs'[p].base = q.base /\ syncs'[p].next = q.next
  BY <1>1, <1>4 DEF StoringEvents
<1>6. chain[q.next].vc \in files'[q.kind] /\ files[q.kind] \subseteq files'[q.kind]
  BY <1>1, <1>2 DEF HybridTypeOK
<1>7. CompleteStoring(syncs[p])'
  BY <1>1, <1>2, <1>5, <1>6 DEF CompleteStoring, Kept
<1> QED BY <1>3, <1>4, <1>5, <1>7

\* What is tried in the table has its file; afterwards all before the next event
\* are kept.
LEMMA StoreRowStep ==
    ASSUME HybridInv, NEW p \in Syncs, StoreRow(p)
    PROVE  /\ syncs'[p] \in StoringEvents
           /\ CompleteStoring(syncs[p])'
           /\ \A o \in Syncs : o # p => syncs'[o] = syncs[o]
           /\ table' \in [Kinds -> SUBSET Creds] /\ RowsAreFiled'
<1> DEFINE q == syncs[p]
           next == NextBlock(q.kind, q.next + 1, q.latest)
<1>1. /\ q \in StoringEvents /\ q.kind \in Kinds /\ q.next \in Nat /\ q.latest \in Nat
      /\ q.base \in Index /\ q.filed
      /\ CompleteStoring(q) /\ HybridTypeOK /\ RowsAreFiled
  BY Phases DEF StoreRow, HybridInv, StoringEvents
<1>2. /\ q.next =< q.latest /\ q.next \in DOMAIN chain /\ chain[q.next].kind = q.kind
      /\ Kept(q.kind, chain[q.next].vc)
  BY <1>1 DEF CompleteStoring
<1>3. /\ next \in Nat
      /\ next =< q.latest => next \in DOMAIN chain /\ chain[next].kind = q.kind
      /\ \A c \in DOMAIN chain :
            chain[c].kind = q.kind /\ q.next + 1 =< c /\ c =< q.latest => next =< c
  <2>1. q.next + 1 \in Nat
    BY <1>1
  <2> QED BY <1>1, <2>1, NextBlockSkipsNone
<1> HIDE DEF next
<1>4. \A b \in DOMAIN chain : b \in Nat /\ chain[b] \in Registered
  BY <1>1 DEF HybridTypeOK
<1>5. chain' = chain /\ files' = files /\ TryRow(q.kind, chain[q.next].vc)
  BY DEF StoreRow
<1>6. table' \in [Kinds -> SUBSET Creds] /\ RowsAreFiled'
  <2>1. /\ table \in [Kinds -> SUBSET Creds] /\ chain[q.next].vc \in Creds
        /\ chain[q.next].vc \in files[q.kind] /\ q.kind \in Kinds
    BY <1>1, <1>2, <1>4 DEF HybridTypeOK, Registered, Kept
  <2>2. CASE table' = table
    BY <1>1, <1>5, <2>1, <2>2 DEF RowsAreFiled
  <2>3. CASE table' = [table EXCEPT ![q.kind] = @ \cup {chain[q.next].vc}]
    BY <1>1, <1>5, <2>1, <2>3 DEF RowsAreFiled
  <2> QED BY <1>5, <2>2, <2>3 DEF TryRow
<1>7. syncs' = [syncs EXCEPT ![p].filed = FALSE, ![p].next = next]
  BY <1>1 DEF StoreRow, next
<1>8. syncs'[p] = [q EXCEPT !.filed = FALSE, !.next = next]
      /\ \A o \in Syncs : o # p => syncs'[o] = syncs[o]
  BY <1>1, <1>7 DEF HybridTypeOK
<1>9. /\ syncs'[p] \in StoringEvents
      /\ syncs'[p].kind = q.kind /\ syncs'[p].latest = q.latest /\ ~ syncs'[p].filed
      /\ syncs'[p].base = q.base /\ syncs'[p].next = next
  BY <1>1, <1>3, <1>8 DEF StoringEvents
<1>10. \A b \in DOMAIN chain : chain[b].kind = q.kind /\ b =< q.latest /\ b < next =>
          Kept(q.kind, chain[b].vc)
  <2> SUFFICES ASSUME NEW b \in DOMAIN chain, chain[b].kind = q.kind, b =< q.latest, b < next
               PROVE  b < q.next \/ b = q.next
    BY <1>1, <1>2 DEF CompleteStoring
  <2> QED BY <1>1, <1>3, <1>4
<1>11. CompleteStoring(syncs[p])'
  BY <1>1, <1>3, <1>5, <1>9, <1>10 DEF CompleteStoring, Kept
<1> QED BY <1>6, <1>8, <1>9, <1>11


\* A sync ends with every event of its index kept.
LEMMA EndSyncStep ==
    ASSUME HybridInv, NEW p \in Syncs, EndSync(p)
    PROVE  /\ index' \in [Kinds -> Index]
           /\ \A kind \in Kinds : CompleteIndex(kind, index[kind])'
           /\ syncs'[p] \in {NoSync} \cup Begun
           /\ \A o \in Syncs : o # p => syncs'[o] = syncs[o]
<1> DEFINE q == syncs[p]
<1>1. /\ q \in StoringEvents /\ q.kind \in Kinds /\ q.next \in Nat /\ q.latest \in Nat
      /\ q.base \in Index /\ q.forced \in BOOLEAN
      /\ q.next > q.latest /\ CompleteStoring(q) /\ HybridTypeOK
  BY Phases DEF EndSync, Stored, HybridInv, StoringEvents
<1>2. CompleteIndex(q.kind, q.base)
  BY <1>1 DEF CompleteStoring, CompleteIndex, HybridTypeOK, Index
<1>3. index' = [index EXCEPT ![q.kind] = q.base] /\ UNCHANGED <<chain, files>>
  BY DEF EndSync, NewIndex
<1>4. index' \in [Kinds -> Index]
  BY <1>1, <1>3 DEF HybridTypeOK
<1>5. ASSUME NEW kind \in Kinds PROVE CompleteIndex(kind, index[kind])'
  <2>1. CompleteIndex(kind, index[kind])
    BY DEF HybridInv
  <2> QED BY <1>1, <1>2, <1>3, <2>1 DEF CompleteIndex, Kept, HybridTypeOK
<1>6. syncs'[p] \in {NoSync} \cup Begun /\ \A o \in Syncs : o # p => syncs'[o] = syncs[o]
  BY <1>1 DEF EndSync, HybridTypeOK, Begun, Kinds
<1> QED BY <1>4, <1>5, <1>6


\* What a sync holds stays complete, whatever the others do.
LEMMA SyncStays ==
    ASSUME HybridInv, Grows, NEW p \in Syncs, syncs'[p] = syncs[p]
    PROVE  (/\ syncs[p].phase = "reading" => CompleteIndex(syncs[p].kind, syncs[p].base)
            /\ syncs[p].phase = "storing" => CompleteStoring(syncs[p]))'
<1>1. HybridTypeOK
  BY DEF HybridInv
<1>2. ASSUME syncs[p].phase = "reading"
      PROVE  CompleteIndex(syncs[p].kind, syncs[p].base)'
  <2>1. syncs[p].kind \in Kinds /\ syncs[p].base \in Index
    BY <1>1, <1>2, Phases DEF ReadingIndex
  <2>2. CompleteIndex(syncs[p].kind, syncs[p].base)
    BY <1>2 DEF HybridInv
  <2> QED BY <1>1, <2>1, <2>2, IndexStays DEF CompleteIndex, Kept
<1>3. ASSUME syncs[p].phase = "storing"
      PROVE  CompleteStoring(syncs[p])'
  <2>1. syncs[p] \in StoringEvents
    BY <1>1, <1>3, Phases
  <2>2. CompleteStoring(syncs[p])
    BY <1>3 DEF HybridInv
  <2> QED BY <1>1, <2>1, <2>2, StoringStays DEF CompleteStoring, Kept
<1> QED BY <1>2, <1>3

LEMMA HybridTypeStep == HybridInv /\ [HybridNext]_hybridVars => HybridTypeOK'
<1> SUFFICES ASSUME HybridInv, [HybridNext]_hybridVars
             PROVE  HybridTypeOK'
  OBVIOUS
<1>1. HybridTypeOK
  BY DEF HybridInv
<1> USE <1>1 DEF HybridTypeOK
<1>2. ASSUME NEW kind \in Kinds, NEW vc \in Creds, Register(kind, vc) PROVE HybridTypeOK'
  <2>1. chain' \in Seq(Registered) /\ Len(chain') \in Nat
    BY <1>2 DEF Register, Registered
  <2> QED BY <1>2, <2>1 DEF Register
<1>3. ASSUME NEW p \in Syncs, StartSync(p) PROVE HybridTypeOK'
  BY <1>3 DEF StartSync, Begun, Kinds
<1>4. ASSUME NEW p \in Syncs, ReadIndex(p) PROVE HybridTypeOK'
  BY <1>4, Phases DEF ReadIndex, Begun, ReadingIndex
<1>5. ASSUME NEW p \in Syncs, QueryEvents(p) PROVE HybridTypeOK'
  BY <1>5, QueryEventsStep DEF QueryEvents
<1>6. ASSUME NEW p \in Syncs, StoreEvent(p) PROVE HybridTypeOK'
  BY <1>6, StoreEventStep DEF StoreEvent
<1>12. ASSUME NEW p \in Syncs, StoreRow(p) PROVE HybridTypeOK'
  BY <1>12, StoreRowStep DEF StoreRow
<1>7. ASSUME NEW p \in Syncs, EndSync(p) PROVE HybridTypeOK'
  BY <1>7, EndSyncStep DEF EndSync
<1>8. ASSUME NEW p \in Syncs, SyncThrows(p) PROVE HybridTypeOK'
  BY <1>8 DEF SyncThrows
<1>9. ASSUME NEW b \in given, Listen(b) PROVE HybridTypeOK'
  <2>1. chain[b] \in Registered
    BY DEF HybridInv
  <2> QED BY <1>9, <2>1 DEF Listen, WriteFile, Registered
<1>13. ASSUME NEW b \in filed, ListenerRow(b) PROVE HybridTypeOK'
  <2>1. chain[b] \in Registered
    BY DEF HybridInv
  <2> QED BY <1>13, <2>1 DEF ListenerRow, TryRow, Registered
<1>10. CASE StopHybrid
  BY <1>10 DEF StopHybrid
<1>11. CASE UNCHANGED hybridVars
  BY <1>11 DEF hybridVars
<1> QED BY <1>2, <1>3, <1>4, <1>5, <1>6, <1>7, <1>8, <1>9, <1>10, <1>11, <1>12, <1>13
     DEF HybridNext

LEMMA HybridStep == HybridInv /\ [HybridNext]_hybridVars => HybridInv'
<1> SUFFICES ASSUME HybridInv, [HybridNext]_hybridVars
             PROVE  HybridInv'
  OBVIOUS
<1>1. HybridTypeOK /\ HybridTypeOK' /\ Grows
  BY StepGrows, HybridTypeStep DEF HybridInv
<1>2. (\A kind \in Kinds : CompleteIndex(kind, index[kind]))'
  <2>1. CASE index' = index
    <3>1. \A kind \in Kinds : index[kind] \in Index /\ CompleteIndex(kind, index[kind])
      BY <1>1 DEF HybridInv, HybridTypeOK
    <3> QED BY <1>1, <2>1, <3>1, IndexStays DEF CompleteIndex, Kept
  <2>2. ASSUME NEW p \in Syncs, EndSync(p)
        PROVE  (\A kind \in Kinds : CompleteIndex(kind, index[kind]))'
    BY <2>2, EndSyncStep
  <2> QED BY <2>1, <2>2
       DEF HybridNext, hybridVars, Register, StartSync, ReadIndex, QueryEvents, StoreEvent,
           StoreRow, SyncThrows, Listen, ListenerRow, StopHybrid
<1>3. ASSUME NEW p \in Syncs
      PROVE  (/\ syncs[p].phase = "reading" => CompleteIndex(syncs[p].kind, syncs[p].base)
              /\ syncs[p].phase = "storing" => CompleteStoring(syncs[p]))'
  <2> USE DEF HybridTypeOK
  <2>1. CASE syncs'[p] = syncs[p]
    BY <1>1, <2>1, SyncStays
  <2>2. CASE syncs'[p] \in {NoSync} \cup Begun
    BY <2>2 DEF NoSync, Begun
  <2>3. CASE ReadIndex(p)
    <3>1. syncs[p].kind \in Kinds /\ CompleteIndex(syncs[p].kind, index[syncs[p].kind])
      BY <1>1, <2>3, Phases DEF ReadIndex, Begun, HybridInv
    <3>2. /\ syncs'[p].phase = "reading" /\ syncs'[p].kind = syncs[p].kind
          /\ syncs'[p].base = index[syncs[p].kind] /\ UNCHANGED <<chain, files>>
      BY <1>1, <2>3 DEF ReadIndex
    <3> QED BY <3>1, <3>2 DEF CompleteIndex, Kept
  <2>4. CASE QueryEvents(p)
    <3>1. /\ syncs'[p].phase = "storing" /\ CompleteStoring(syncs'[p])
          /\ UNCHANGED <<chain, files>>
      BY <2>4, QueryEventsStep DEF QueryEvents, StoringEvents
    <3> QED BY <3>1 DEF CompleteStoring, Kept
  <2>5. CASE StoreEvent(p)
    <3>1. syncs'[p].phase = "storing" /\ CompleteStoring(syncs[p])'
      BY <2>5, StoreEventStep DEF StoringEvents
    <3> QED BY <3>1
  <2>11. CASE StoreRow(p)
    <3>1. syncs'[p].phase = "storing" /\ CompleteStoring(syncs[p])'
      BY <2>11, StoreRowStep DEF StoringEvents
    <3> QED BY <3>1
  <2>6. CASE EndSync(p)
    BY <2>2, <2>6, EndSyncStep
  <2>7. CASE StartSync(p) \/ SyncThrows(p)
    BY <1>1, <2>2, <2>7 DEF StartSync, SyncThrows, Begun, Kinds
  <2>8. ASSUME NEW o \in Syncs, o # p,
               StartSync(o) \/ ReadIndex(o) \/ QueryEvents(o) \/ StoreEvent(o) \/ StoreRow(o)
                   \/ EndSync(o) \/ SyncThrows(o)
        PROVE  syncs'[p] = syncs[p]
    BY <1>1, <2>8, QueryEventsStep, StoreEventStep, StoreRowStep, EndSyncStep
       DEF StartSync, ReadIndex, SyncThrows
  <2>9. CASE StopHybrid
    BY <2>2, <2>9 DEF StopHybrid
  <2>10. CASE UNCHANGED syncs
    BY <2>1, <2>10
  <2> QED BY <2>1, <2>3, <2>4, <2>5, <2>6, <2>7, <2>8, <2>9, <2>10, <2>11
       DEF HybridNext, hybridVars, Register, Listen, ListenerRow
<1>4. (given \cup filed \subseteq DOMAIN chain)'
  <2>1. given \cup filed \subseteq DOMAIN chain /\ DOMAIN chain \subseteq DOMAIN chain'
    BY <1>1, ChainGrows DEF HybridInv
  <2>2. \/ given' \cup filed' \subseteq given \cup filed
        \/ \E kind \in Kinds, vc \in Creds : Register(kind, vc)
    BY DEF HybridNext, hybridVars, StartSync, ReadIndex, QueryEvents, StoreEvent, StoreRow, EndSync,
           SyncThrows, Listen, ListenerRow, StopHybrid
  <2>3. ASSUME NEW kind \in Kinds, NEW vc \in Creds, Register(kind, vc)
        PROVE  /\ given' \cup filed' \subseteq given \cup filed \cup {Len(chain')}
               /\ Len(chain') \in DOMAIN chain'
    BY <1>1, <2>3 DEF Register, HybridTypeOK
  <2> QED BY <2>1, <2>2, <2>3
<1>5. (\A b \in filed : Kept(chain[b].kind, chain[b].vc))'
  <2> SUFFICES ASSUME NEW b \in filed' PROVE Kept(chain[b].kind, chain[b].vc)'
    OBVIOUS
  <2>1. CASE b \in filed
    <3>1. b \in DOMAIN chain /\ Kept(chain[b].kind, chain[b].vc)
      BY <2>1 DEF HybridInv
    <3>2. chain'[b] = chain[b]
      BY <1>1, <3>1, ChainGrows
    <3>3. chain[b].kind \in Kinds
      <4>1. chain[b] \in Registered
        BY <1>1, <3>1 DEF HybridTypeOK
      <4> QED BY <4>1 DEF Registered
    <3> QED BY <1>1, <3>1, <3>2, <3>3 DEF Kept, Grows
  <2>2. CASE b \notin filed
    <3>1. b \in given /\ Listen(b)
      BY <2>2 DEF HybridNext, hybridVars, Register, StartSync, ReadIndex, QueryEvents, StoreEvent,
             StoreRow, EndSync, SyncThrows, Listen, ListenerRow, StopHybrid
    <3>2. /\ chain' = chain
          /\ files' = [files EXCEPT ![chain[b].kind] = @ \cup {chain[b].vc}]
      BY <3>1 DEF Listen, WriteFile
    <3>3. b \in DOMAIN chain
      BY <3>1 DEF HybridInv
    <3>4. chain[b].kind \in Kinds
      <4>1. chain[b] \in Registered
        BY <1>1, <3>3 DEF HybridTypeOK
      <4> QED BY <4>1 DEF Registered
    <3> QED BY <1>1, <3>2, <3>4 DEF Kept, HybridTypeOK
  <2> QED BY <2>1, <2>2
<1>6. RowsAreFiled'
  <2>1. CASE table' = table
    BY <1>1, <2>1 DEF HybridInv, RowsAreFiled, Grows
  <2>2. ASSUME NEW p \in Syncs, StoreRow(p) PROVE RowsAreFiled'
    BY <2>2, StoreRowStep
  <2>3. ASSUME NEW b \in filed, ListenerRow(b) PROVE RowsAreFiled'
    BY <1>1, <2>3 DEF ListenerRow, TryRow, HybridInv, HybridTypeOK, RowsAreFiled, Kept
  <2> QED BY <2>1, <2>2, <2>3 DEF HybridNext, hybridVars, Register, StartSync, ReadIndex,
           QueryEvents, StoreEvent, EndSync, SyncThrows, Listen, StopHybrid
<1> QED BY <1>1, <1>2, <1>3, <1>4, <1>5, <1>6 DEF HybridInv

\* The invariant holds whatever syncs overlap and listeners write.
THEOREM HybridInductive == HybridSpec => []HybridInv
  BY HybridInitial, HybridStep, PTL DEF HybridSpec

\* HybridCredentialService's index and files miss no event below the mark, and its
\* tables have no row without a file, for any number of credentials and of syncs
\* that overlap, fail or are stopped.
THEOREM IndexesAreComplete == HybridSpec => []IndexIsComplete
<1>1. HybridInv => MarkedIsStored
  <2> SUFFICES ASSUME HybridInv, NEW b \in DOMAIN chain, b < index[chain[b].kind].mark
               PROVE  /\ chain[b].vc \in index[chain[b].kind].records
                      /\ Kept(chain[b].kind, chain[b].vc)
    BY DEF MarkedIsStored, Kept
  <2>1. chain[b] \in Registered
    BY DEF HybridInv, HybridTypeOK
  <2>2. chain[b].kind \in Kinds
    BY <2>1 DEF Registered
  <2> QED BY <2>2 DEF HybridInv, CompleteIndex
<1>2. HybridInv => RowsAreFiled
  BY DEF HybridInv
<1> QED BY <1>1, <1>2, HybridInductive, PTL DEF IndexIsComplete

-----------------------------------------------------------------------------
(* The parts of the verifier side by side, of which one moves.              *)

verifierVars == <<cacheVars, verifyVars, hybridVars, storeVars, service>>

\* Side by side, each part does what its own specification says.
THEOREM PartsAreIndependent == Spec => VerificationSpec /\ HybridSpec /\ StoreSpec
  <1>1. Init => VerificationInit /\ HybridInit /\ StoreInit
    BY DEF Init
  <1>2. [Next]_verifierVars =>
            [VerificationNext]_<<cacheVars, verifyVars>> /\ [HybridNext]_hybridVars
            /\ [StoreNext]_storeVars
    BY DEF Next, verifierVars
  <1> QED
    BY <1>1, <1>2, PTL DEF Spec, verifierVars, VerificationSpec, HybridSpec, StoreSpec

\* So all that is proved of each holds of them together.
THEOREM AllIsKept ==
    Spec => /\ [](PassesAreComplete /\ RecordsAreOnChain /\ ValidIsTrusted)
            /\ [](IndexIsComplete /\ TornOnlyIfShared)
  BY PartsAreIndependent, VerificationInductive, CacheInvImplies, ValidWasTrusted,
     IndexesAreComplete, TornBySharing, PTL

=============================================================================
