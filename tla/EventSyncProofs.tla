-------------------------- MODULE EventSyncProofs --------------------------
(***************************************************************************)
(* Proofs about EventSync for every set of credentials, issuers and passes *)
(* and any bounds.  SyncedIsIndexed says something of the end of a pass    *)
(* only, so the invariant follows each pass on its way: what its range     *)
(* leaves out has rows, and so has what its stages have stored.            *)
(*                                                                         *)
(* It holds of passes and listeners together while no pass starts from the *)
(* persisted mark, which listeners move past events nobody stored, and of  *)
(* passes started from that mark as long as nobody listens.  What is shown *)
(* of withdrawals needs passes that come one after the other, and is       *)
(* followed the same way (SettledInv); isSyncing needs no assumption.      *)
(***************************************************************************)
EXTENDS EventSync, FiniteSetTheorems, SequenceTheorems, TLAPS

\* What is assumed of a run: restarts and forced syncs, or listeners, not both;
\* and an administrator who forces a sync names no first block.
MarksAreLeftToPasses ==
    /\ StartBlocks \subseteq {0}
    /\ Listening => Restarts = 0 /\ Forced = 0

LogInv ==
    \A i \in DOMAIN log : /\ log[i].of \in About(log[i].kind)
                          /\ log[i].block \in 1 .. head

\* All events of a block before n have their rows.
Below(n) == \A i \in DOMAIN log : log[i].block < n => HasRow(log[i])

IssuedUpTo(n) ==
    \A i \in DOMAIN log :
        log[i].kind = "Issued" /\ log[i].block =< n => HasRow(log[i])

\* What a pass that is not asking for the head any more has done.
Stored(p) ==
    /\ pass[p].at \in Stage => Below(pass[p].from) /\ pass[p].from =< head + 1
    /\ pass[p].at \in Stage \ {"Issued"} => IssuedUpTo(pass[p].to)
    /\ pass[p].at = "AddedBlock" =>
          /\ \A i \in pass[p].todo : i \in DOMAIN log /\ log[i].kind = "Added"
          /\ \A i \in (DOMAIN log) \ pass[p].todo :
                log[i].kind = "Added" /\ InRange(p, i) => HasRow(log[i])
    /\ pass[p].at \in {"Removed", "RemovedBlock"} => Below(pass[p].to + 1)

PassInv(p) ==
    /\ pass[p].to =< head
    /\ pass[p].at = "head" /\ pass[p].full =>
          Below(pass[p].from) /\ pass[p].from =< head + 1
    /\ Stored(p)

MarksInv ==
    /\ dbBlock =< head /\ memBlock =< head
    /\ Below(memBlock + 1)
    /\ ~ Listening => Below(dbBlock + 1)

BudgetInv == Listening => left["restarts"] = 0 /\ left["forced"] = 0

HandlersInv ==
    /\ handlers \subseteq (DOMAIN log) \X Nat
    /\ ~ Listening => handlers = {}

IndInv ==
    /\ TypeOK /\ LogInv /\ MarksInv /\ BudgetInv /\ HandlersInv
    /\ \A p \in Passes : PassInv(p)

-----------------------------------------------------------------------------
(* Rows are never deleted, so that nothing known of the log is lost. *)

RowsStay ==
    /\ \A c \in Credentials : creds[c] # "absent" => creds'[c] # "absent"
    /\ \A a \in Accounts : issuers[a] # "absent" => issuers'[a] # "absent"

LEMMA LogDomain ==
    ASSUME TypeOK
    PROVE  /\ DOMAIN log = 1 .. Len(log) /\ Len(log) \in Nat
           /\ \A i \in DOMAIN log : log[i] \in Entry /\ log[i].block \in Nat
  <1>1. log \in Seq(Entry)
    BY DEF TypeOK
  <1>2. DOMAIN log = 1 .. Len(log) /\ Len(log) \in Nat
    BY <1>1
  <1>3. \A i \in DOMAIN log : log[i] \in Entry
    BY <1>1
  <1>4. \A e \in Entry : e.block \in Nat
    BY DEF Entry
  <1> QED
    BY <1>2, <1>3, <1>4

LEMMA InsertIssuedKeeps ==
    ASSUME TypeOK, NEW hashes, InsertIssued(hashes), UNCHANGED <<issuers, named, pending>>
    PROVE  /\ RowsStay
           /\ creds' \in [Credentials -> {"absent", "valid", "revoked"}]
           /\ \A c \in Credentials \cap hashes : creds'[c] # "absent"
  BY DEF InsertIssued, RowsStay, TypeOK

LEMMA UpdateRevokedKeeps ==
    ASSUME TypeOK, NEW hashes, UpdateRevoked(hashes), UNCHANGED <<issuers, named, pending>>
    PROVE  RowsStay /\ creds' \in [Credentials -> {"absent", "valid", "revoked"}]
  BY DEF UpdateRevoked, RowsStay, TypeOK

IssuersTyped ==
    /\ issuers' \in [Accounts -> {"absent", "active", "inactive"}]
    /\ named' \in [Accounts -> BOOLEAN]
    /\ pending' \in [Accounts -> BOOLEAN]

LEMMA InsertAddedKeeps ==
    ASSUME TypeOK, NEW a \in Accounts, InsertAdded(a), UNCHANGED creds
    PROVE  RowsStay /\ IssuersTyped /\ issuers'[a] # "absent"
  BY DEF InsertAdded, RowsStay, TypeOK, IssuersTyped

LEMMA UpdateRemovedKeeps ==
    ASSUME TypeOK, NEW a, UpdateRemoved(a), UNCHANGED creds
    PROVE  RowsStay /\ IssuersTyped
  BY DEF UpdateRemoved, RowsStay, TypeOK, IssuersTyped

LEMMA RowStays ==
    ASSUME LogInv, RowsStay, UNCHANGED log, NEW i \in DOMAIN log, HasRow(log[i])
    PROVE  HasRow(log[i])'
  BY DEF LogInv, RowsStay, HasRow, About

LEMMA BelowStays ==
    ASSUME LogInv, RowsStay, UNCHANGED log
    PROVE  /\ \A n \in Nat : Below(n) => Below(n)'
           /\ \A n \in Nat : IssuedUpTo(n) => IssuedUpTo(n)'
  BY RowStays DEF Below, IssuedUpTo

\* A pass whose place is unchanged keeps what it knows.
LEMMA PassStays ==
    ASSUME TypeOK, LogInv, RowsStay, UNCHANGED chain,
           NEW p \in Passes, PassInv(p), pass'[p] = pass[p]
    PROVE  PassInv(p)'
  <1>1. pass[p].from \in Nat /\ pass[p].to \in Nat /\ pass[p].to + 1 \in Nat
    BY DEF TypeOK, Place
  <1>2. UNCHANGED <<log, head>>
    BY DEF chain
  <1>3. \A n \in {pass[p].from, pass[p].to, pass[p].to + 1} :
           (Below(n) => Below(n)') /\ (IssuedUpTo(n) => IssuedUpTo(n)')
    BY <1>1, <1>2, BelowStays
  <1>4. \A i \in DOMAIN log : HasRow(log[i]) => HasRow(log[i])'
    BY <1>2, RowStays
  <1>5. \A i \in DOMAIN log : InRange(p, i)' <=> InRange(p, i)
    BY <1>2 DEF InRange
  <1> QED
    BY <1>1, <1>2, <1>3, <1>4, <1>5 DEF PassInv, Stored

-----------------------------------------------------------------------------
(* The places of a pass. *)

LEMMA Places ==
    /\ Idle \in Place
    /\ \A pl \in Place : /\ pl.at \in Stage \cup {"idle", "head"}
                         /\ pl.from \in Nat /\ pl.to \in Nat /\ pl.todo \subseteq Nat
    /\ \A pl \in Place : \A at \in Stage : [pl EXCEPT !.at = at] \in Place
    /\ \A pl \in Place : \A at \in Stage : \A todo \in SUBSET Nat :
          [pl EXCEPT !.at = at, !.todo = todo] \in Place
    /\ \A pl \in Place : \A todo \in SUBSET Nat : [pl EXCEPT !.todo = todo] \in Place
    /\ \A pl \in Place : \A from, to \in Nat :
          [pl EXCEPT !.at = "Issued", !.from = from, !.to = to] \in Place
  BY DEF Idle, Place, Stage

\* One pass moves on; the others keep what they know.
LEMMA PassStep ==
    ASSUME IndInv, RowsStay, UNCHANGED chain,
           NEW p \in Passes, NEW pl \in Place, pass' = [pass EXCEPT ![p] = pl],
           PassInv(p)'
    PROVE  /\ pass' \in [Passes -> Place]
           /\ \A q \in Passes : PassInv(q)'
  <1>1. TypeOK /\ LogInv /\ \A q \in Passes : PassInv(q)
    BY DEF IndInv
  <1>2. pass \in [Passes -> Place]
    BY <1>1 DEF TypeOK
  <1>3. \A q \in Passes \ {p} : pass'[q] = pass[q]
    BY <1>2
  <1> QED
    BY <1>1, <1>2, <1>3, PassStays

LEMMA PassesStay ==
    ASSUME IndInv, RowsStay, UNCHANGED chain, UNCHANGED pass
    PROVE  \A q \in Passes : PassInv(q)'
  BY PassStays DEF IndInv

LEMMA LogStays ==
    ASSUME IndInv, RowsStay, UNCHANGED chain, UNCHANGED <<dbBlock, memBlock>>
    PROVE  LogInv' /\ MarksInv'
  <1>1. dbBlock + 1 \in Nat /\ memBlock + 1 \in Nat
    BY DEF IndInv, TypeOK
  <1>2. UNCHANGED <<log, head>>
    BY DEF chain
  <1>3. LogInv'
    BY <1>2 DEF IndInv, LogInv
  <1> QED
    BY <1>1, <1>2, <1>3, BelowStays DEF IndInv, MarksInv

LEMMA Spending ==
    ASSUME TypeOK, BudgetInv, NEW what \in Bound, Spend(what)
    PROVE  /\ left' \in [Bound -> Nat]
           /\ BudgetInv'
           /\ what \in {"restarts", "forced"} => ~ Listening
  <1>1. left \in [Bound -> Nat] /\ left[what] > 0 /\ left[what] \in Nat
    BY DEF TypeOK, Spend
  <1>2. left' = [left EXCEPT ![what] = left[what] - 1] /\ left[what] - 1 \in Nat
    BY <1>1 DEF Spend
  <1>3. "restarts" \in Bound /\ "forced" \in Bound
    BY DEF Bound
  <1>4. CASE what \in {"restarts", "forced"}
    BY <1>1, <1>2, <1>4 DEF BudgetInv
  <1>5. CASE what \notin {"restarts", "forced"}
    BY <1>1, <1>2, <1>3, <1>5 DEF BudgetInv
  <1> QED
    BY <1>4, <1>5

-----------------------------------------------------------------------------
(* One lemma per action.  Those of a pass say where the pass is after it. *)

\* What a step of a pass that writes no table and no mark but seen and syncing
\* has to show.
LEMMA QuietStep ==
    ASSUME IndInv, NEW p \in Passes, NEW pl \in Place,
           pass' = [pass EXCEPT ![p] = pl], PassInv(p)',
           UNCHANGED <<chain, tables, dbBlock, memBlock, live>>,
           seen' \in Nat, syncing' \in BOOLEAN, left' \in [Bound -> Nat], BudgetInv'
    PROVE  IndInv'
  <1>1. RowsStay
    BY DEF RowsStay, tables
  <1>2. pass' \in [Passes -> Place] /\ \A q \in Passes : PassInv(q)'
    BY <1>1, PassStep
  <1>3. LogInv' /\ MarksInv'
    BY <1>1, LogStays
  <1>4. TypeOK'
    BY <1>2 DEF IndInv, TypeOK, chain, tables, live
  <1>5. HandlersInv'
    BY DEF IndInv, HandlersInv, chain, live
  <1> QED
    BY <1>2, <1>3, <1>4, <1>5 DEF IndInv

\* A pass that is idle, or asks for the head to go on from memory, knows nothing.
LEMMA AtRest ==
    ASSUME IndInv, UNCHANGED chain, NEW p \in Passes,
           pass'[p].to =< head,
           pass'[p].at = "idle" \/ (pass'[p].at = "head" /\ ~ pass'[p].full)
    PROVE  PassInv(p)'
  BY DEF PassInv, Stored, Stage, chain

LEMMA Asks ==
    ASSUME IndInv, NEW start \in {0}, ~ Listening
    PROVE  /\ Asking(start) \in Place
           /\ Asking(start) = [at |-> "head", full |-> TRUE, from |-> dbBlock,
                               to |-> head, todo |-> {}]
           /\ Below(dbBlock) /\ dbBlock =< head + 1
  <1>1. dbBlock \in Nat /\ head \in Nat /\ dbBlock =< head
    BY DEF IndInv, TypeOK, MarksInv
  <1>2. Asking(start) \in Place
    BY <1>1 DEF Asking, Place
  <1>3. Asking(start) = [at |-> "head", full |-> TRUE, from |-> dbBlock,
                         to |-> head, todo |-> {}]
    BY DEF Asking
  <1>4. \A i \in DOMAIN log : log[i].block \in Nat
    BY LogDomain DEF IndInv
  <1>5. Below(dbBlock)
    BY <1>1, <1>4 DEF IndInv, MarksInv, Below
  <1> QED
    BY <1>1, <1>2, <1>3, <1>5

LEMMA StartIncrementalKeeps ==
    ASSUME IndInv, NEW p \in Passes, StartIncremental(p)
    PROVE  IndInv'
  <1> DEFINE pl == [Idle EXCEPT !.at = "head", !.to = head]
  <1>1. pl \in Place /\ pl.at = "head" /\ pl.full = FALSE /\ pl.to = head
    BY DEF Idle, Place, IndInv, TypeOK
  <1> HIDE DEF pl
  <1>2. pass' = [pass EXCEPT ![p] = pl] /\ pass'[p] = pl
    BY DEF StartIncremental, IndInv, TypeOK, pl
  <1>3. head \in Nat /\ seen' \in Nat /\ syncing' \in BOOLEAN
    BY DEF StartIncremental, marks, IndInv, TypeOK
  <1>4. UNCHANGED chain /\ pass'[p].to =< head
    BY <1>1, <1>2, <1>3 DEF StartIncremental
  <1>5. PassInv(p)'
    BY <1>1, <1>2, <1>4, AtRest
  <1>6. left' \in [Bound -> Nat] /\ BudgetInv'
    BY DEF StartIncremental, IndInv, TypeOK, BudgetInv
  <1> QED
    BY <1>1, <1>2, <1>3, <1>5, <1>6, QuietStep DEF StartIncremental, marks

LEMMA StartForcedKeeps ==
    ASSUME IndInv, MarksAreLeftToPasses, NEW p \in Passes, StartForced(p)
    PROVE  IndInv'
  <1> PICK start \in {0} : pass' = [pass EXCEPT ![p] = Asking(start)]
    BY DEF StartForced, MarksAreLeftToPasses
  <1>1. left' \in [Bound -> Nat] /\ BudgetInv' /\ ~ Listening
    BY Spending DEF StartForced, IndInv, Bound
  <1> DEFINE pl == Asking(start)
  <1>2. /\ pl \in Place
        /\ pl = [at |-> "head", full |-> TRUE, from |-> dbBlock, to |-> head, todo |-> {}]
        /\ Below(dbBlock) /\ dbBlock =< head + 1
    BY <1>1, Asks
  <1> HIDE DEF pl
  <1>3. pass' = [pass EXCEPT ![p] = pl] /\ pass'[p] = pl
    BY DEF IndInv, TypeOK, pl
  <1>4. /\ UNCHANGED <<chain, tables, dbBlock, memBlock, live>>
        /\ UNCHANGED <<log, head, creds, issuers>>
        /\ seen' \in Nat /\ syncing' \in BOOLEAN /\ head \in Nat
    BY DEF StartForced, marks, chain, tables, IndInv, TypeOK
  <1>5. pass'[p].at = "head" /\ pass'[p].from = dbBlock /\ pass'[p].to = head
    BY <1>2, <1>3
  <1>6. Below(dbBlock)'
    BY <1>2, <1>4 DEF Below, HasRow
  <1>7. PassInv(p)'
    BY <1>2, <1>4, <1>5, <1>6 DEF PassInv, Stored, Stage, Below
  <1> QED
    BY <1>1, <1>2, <1>3, <1>4, <1>7, QuietStep

LEMMA HeadAnswer ==
    ASSUME IndInv, NEW p \in Passes, NEW current \in Heads(p)
    PROVE  current \in Nat /\ current =< head
  <1>1. pass[p].to \in Nat /\ head \in Nat
    BY Places DEF IndInv, TypeOK
  <1> QED
    BY <1>1 DEF Heads

LEMMA NothingNewKeeps ==
    ASSUME IndInv, NEW p \in Passes, NothingNew(p)
    PROVE  IndInv'
  <1> PICK current \in Heads(p) : seen' = current
    BY DEF NothingNew
  <1>1. /\ pass' = [pass EXCEPT ![p] = Idle] /\ pass'[p] = Idle
        /\ UNCHANGED <<chain, tables, dbBlock, memBlock, syncing, live, left>>
    BY DEF NothingNew, IndInv, TypeOK
  <1>2. pass'[p].at = "idle" /\ pass'[p].to =< head
    BY <1>1 DEF Idle, IndInv, TypeOK
  <1>3. PassInv(p)'
    BY <1>1, <1>2, AtRest
  <1>4. syncing' \in BOOLEAN /\ left' \in [Bound -> Nat] /\ BudgetInv'
    BY <1>1 DEF IndInv, TypeOK, BudgetInv
  <1> QED
    BY <1>1, <1>3, <1>4, HeadAnswer, Places, QuietStep

LEMMA RangeKnownKeeps ==
    ASSUME IndInv, NEW p \in Passes, RangeKnown(p)
    PROVE  IndInv'
  <1> PICK current \in Heads(p) :
          /\ seen' = current
          /\ pass' = [pass EXCEPT ![p] =
                [pass[p] EXCEPT !.at = "Issued", !.from = From(p), !.to = current]]
    BY DEF RangeKnown
  <1>1. current \in Nat /\ current =< head
    BY HeadAnswer
  <1>2. pass[p] \in Place /\ pass[p].from \in Nat /\ memBlock \in Nat /\ head \in Nat
    BY Places DEF IndInv, TypeOK
  <1>3. From(p) \in Nat /\ Below(From(p)) /\ From(p) =< head + 1
    BY <1>2 DEF RangeKnown, From, IndInv, MarksInv, PassInv
  <1> DEFINE pl == [pass[p] EXCEPT !.at = "Issued", !.from = From(p), !.to = current]
  <1>4. pl \in Place
    BY <1>1, <1>2, <1>3, Places
  <1>5. pl.at = "Issued" /\ pl.from = From(p) /\ pl.to = current
    BY <1>2 DEF Place
  <1> HIDE DEF pl
  <1>6. pass' = [pass EXCEPT ![p] = pl] /\ pass'[p] = pl
    BY DEF IndInv, TypeOK, pl
  <1>7. /\ UNCHANGED <<chain, tables, dbBlock, memBlock, live, left>>
        /\ UNCHANGED <<log, head, creds, issuers>> /\ syncing' \in BOOLEAN
    BY DEF RangeKnown, chain, tables
  <1> PICK from \in Nat : from = From(p)
    BY <1>3
  <1>8. Below(from) /\ from =< head + 1
    BY <1>3
  <1>9. RowsStay /\ LogInv
    BY <1>7 DEF RowsStay, IndInv
  <1>10. Below(from)'
    BY <1>7, <1>8, <1>9, BelowStays
  <1>11. pass'[p].at = "Issued" /\ pass'[p].from = from /\ pass'[p].to = current
    BY <1>5, <1>6
  <1>12. PassInv(p)'
    BY <1>1, <1>7, <1>8, <1>10, <1>11 DEF PassInv, Stored, Stage, Below
  <1>13. left' \in [Bound -> Nat] /\ BudgetInv'
    BY <1>7 DEF IndInv, TypeOK, BudgetInv
  <1> QED
    BY <1>1, <1>4, <1>6, <1>7, <1>12, <1>13, QuietStep

\* What a step of a pass that stores rows has to show.
LEMMA StoringStep ==
    ASSUME IndInv, RowsStay, NEW p \in Passes, NEW pl \in Place,
           pass' = [pass EXCEPT ![p] = pl], PassInv(p)',
           UNCHANGED <<chain, marks, live, left>>,
           creds' \in [Credentials -> {"absent", "valid", "revoked"}], IssuersTyped
    PROVE  IndInv'
  <1>1. pass' \in [Passes -> Place] /\ \A q \in Passes : PassInv(q)'
    BY PassStep
  <1>2. LogInv' /\ MarksInv'
    BY LogStays DEF marks
  <1>3. TypeOK'
    BY <1>1 DEF IndInv, TypeOK, IssuersTyped, chain, marks, live
  <1>4. HandlersInv' /\ BudgetInv'
    BY DEF IndInv, HandlersInv, BudgetInv, chain, live
  <1> QED
    BY <1>1, <1>2, <1>3, <1>4 DEF IndInv

\* What a pass that goes on to another stage still knows.
LEMMA NextStage ==
    ASSUME IndInv, RowsStay, UNCHANGED chain, NEW p \in Passes, pass[p].at \in Stage,
           pass'[p].from = pass[p].from, pass'[p].to = pass[p].to
    PROVE  /\ pass'[p].to =< head /\ Below(pass[p].from)'
           /\ pass[p].from =< head + 1
           /\ pass[p].at \in Stage \ {"Issued"} => IssuedUpTo(pass[p].to)'
           /\ \A i \in DOMAIN log : InRange(p, i)' <=> InRange(p, i)
  <1>1. pass[p].from \in Nat /\ pass[p].to \in Nat
    BY Places DEF IndInv, TypeOK
  <1>2. PassInv(p)
    BY DEF IndInv
  <1>3. UNCHANGED log
    BY DEF chain
  <1> QED
    BY <1>1, <1>2, <1>3, BelowStays DEF IndInv, PassInv, Stored, InRange


LEMMA SyncIssuedKeeps ==
    ASSUME IndInv, NEW p \in Passes, SyncIssued(p)
    PROVE  IndInv'
  <1> DEFINE pl == [pass[p] EXCEPT !.at = "Revoked"]
  <1>1. pass[p] \in Place /\ pass[p].at = "Issued"
    BY DEF IndInv, TypeOK, SyncIssued
  <1>a. "Revoked" \in Stage
    BY DEF Stage
  <1>b. pl \in Place
    BY <1>1, <1>a, Places
  <1>2. pl \in Place /\ pl.at = "Revoked" /\ pl.from = pass[p].from /\ pl.to = pass[p].to
    BY <1>1, <1>b DEF Place
  <1>3. pass' = [pass EXCEPT ![p] = pl] /\ pass'[p] = pl
    BY DEF SyncIssued, IndInv, TypeOK
  <1> HIDE DEF pl
  <1>4. /\ UNCHANGED <<chain, log, head, issuers, named, pending, marks, live, left>>
        /\ InsertIssued(Subjects(p, "Issued"))
    BY DEF SyncIssued, chain
  <1>5. /\ RowsStay
        /\ creds' \in [Credentials -> {"absent", "valid", "revoked"}]
        /\ \A c \in Credentials \cap Subjects(p, "Issued") : creds'[c] # "absent"
    BY <1>4, InsertIssuedKeeps DEF IndInv
  <1>6. IssuersTyped
    BY <1>4 DEF IssuersTyped, IndInv, TypeOK
  <1>7. pass'[p].to =< head /\ Below(pass[p].from)' /\ pass[p].from =< head + 1
    BY <1>1, <1>2, <1>3, <1>4, <1>5, NextStage DEF Stage
  <1>8. ASSUME NEW i \in DOMAIN log, log[i].kind = "Issued", log[i].block =< pass[p].to
        PROVE  HasRow(log[i])'
    <2>1. log[i].block \in Nat /\ pass[p].from \in Nat
      BY LogDomain, Places DEF IndInv, TypeOK
    <2>2. CASE log[i].block < pass[p].from
      <3>1. Below(pass[p].from) /\ LogInv
        BY <1>1 DEF IndInv, PassInv, Stored, Stage
      <3> QED
        BY <1>4, <1>5, <2>2, <3>1, RowStays DEF Below
    <2>3. CASE InRange(p, i)
      <3>1. log[i].of \in Credentials /\ log[i].of \in Subjects(p, "Issued")
        BY <1>8, <2>3 DEF Subjects, Found, IndInv, LogInv, About
      <3> QED
        BY <1>4, <1>5, <1>8, <3>1 DEF HasRow
    <2> QED
      BY <1>8, <2>1, <2>2, <2>3 DEF InRange
  <1>9. PassInv(p)'
    BY <1>2, <1>3, <1>4, <1>7, <1>8 DEF PassInv, Stored, Stage, IssuedUpTo
  <1> QED
    BY <1>2, <1>3, <1>4, <1>5, <1>6, <1>9, StoringStep

LEMMA SyncRevokedKeeps ==
    ASSUME IndInv, NEW p \in Passes, SyncRevoked(p)
    PROVE  IndInv'
  <1> DEFINE pl == [pass[p] EXCEPT !.at = "Added"]
  <1>1. pass[p] \in Place /\ pass[p].at = "Revoked"
    BY DEF IndInv, TypeOK, SyncRevoked
  <1>a. "Added" \in Stage
    BY DEF Stage
  <1>b. pl \in Place
    BY <1>1, <1>a, Places
  <1>2. pl \in Place /\ pl.at = "Added" /\ pl.from = pass[p].from /\ pl.to = pass[p].to
    BY <1>1, <1>b DEF Place
  <1>3. pass' = [pass EXCEPT ![p] = pl] /\ pass'[p] = pl
    BY DEF SyncRevoked, IndInv, TypeOK
  <1> HIDE DEF pl
  <1>4. /\ UNCHANGED <<chain, log, head, issuers, named, pending, marks, live, left>>
        /\ UpdateRevoked(Subjects(p, "Revoked"))
    BY DEF SyncRevoked, chain
  <1>5. RowsStay /\ creds' \in [Credentials -> {"absent", "valid", "revoked"}]
    BY <1>4, UpdateRevokedKeeps DEF IndInv
  <1>6. IssuersTyped
    BY <1>4 DEF IssuersTyped, IndInv, TypeOK
  <1>7. /\ pass'[p].to =< head /\ Below(pass[p].from)' /\ pass[p].from =< head + 1
        /\ IssuedUpTo(pass[p].to)'
    BY <1>1, <1>2, <1>3, <1>4, <1>5, NextStage DEF Stage
  <1>8. PassInv(p)'
    BY <1>2, <1>3, <1>4, <1>7 DEF PassInv, Stored, Stage, IssuedUpTo, Below
  <1> QED
    BY <1>2, <1>3, <1>4, <1>5, <1>6, <1>8, StoringStep

\* A range whose additions all have rows is stored.
LEMMA RangeStored ==
    ASSUME IndInv, NEW p \in Passes, Below(pass[p].from), IssuedUpTo(pass[p].to),
           \A i \in DOMAIN log : log[i].kind = "Added" /\ InRange(p, i) => HasRow(log[i])
    PROVE  Below(pass[p].to + 1)
  <1>1. pass[p].from \in Nat /\ pass[p].to \in Nat
    BY Places DEF IndInv, TypeOK
  <1> SUFFICES ASSUME NEW i \in DOMAIN log, log[i].block < pass[p].to + 1
               PROVE  HasRow(log[i])
    BY DEF Below
  <1>2. log[i].block \in Nat /\ log[i].block =< pass[p].to
    BY <1>1, LogDomain DEF IndInv
  <1>3. CASE log[i].kind = "Issued"
    BY <1>2, <1>3 DEF IssuedUpTo
  <1>4. CASE log[i].kind = "Added"
    BY <1>1, <1>2, <1>4 DEF InRange, Below
  <1> QED
    BY <1>3, <1>4 DEF HasRow

LEMMA FindAddedKeeps ==
    ASSUME IndInv, NEW p \in Passes, FindAdded(p)
    PROVE  IndInv'
  <1> DEFINE at == IF Found(p, "Added") = {} THEN "Removed" ELSE "AddedBlock"
             todo == Found(p, "Added")
             pl == [pass[p] EXCEPT !.at = at, !.todo = todo]
  <1>1. pass[p] \in Place /\ pass[p].at = "Added"
    BY DEF IndInv, TypeOK, FindAdded
  <1>2. todo \in SUBSET Nat /\ at \in Stage
    BY LogDomain DEF IndInv, Found, Stage
  <1>3. pl \in Place
    BY <1>1, <1>2, Places
  <1>4. /\ pl.at = at /\ pl.from = pass[p].from /\ pl.to = pass[p].to
        /\ pl.full = pass[p].full /\ pl.todo = todo
    BY <1>1 DEF Place
  <1>5. pass' = [pass EXCEPT ![p] = pl] /\ pass'[p] = pl
    BY DEF FindAdded, IndInv, TypeOK
  <1> HIDE DEF pl
  <1>6. UNCHANGED <<chain, tables, log, head, creds, issuers, marks, live, left>>
    BY DEF FindAdded, chain, tables
  <1>7. RowsStay /\ IssuersTyped
    BY <1>6 DEF RowsStay, IssuersTyped, tables, IndInv, TypeOK
  <1>8. /\ pass'[p].to =< head /\ Below(pass[p].from)' /\ pass[p].from =< head + 1
        /\ IssuedUpTo(pass[p].to)'
        /\ \A i \in DOMAIN log : InRange(p, i)' <=> InRange(p, i)
    BY <1>1, <1>4, <1>5, <1>6, <1>7, NextStage DEF Stage
  <1>9. CASE todo = {}
    <2>1. Below(pass[p].from) /\ IssuedUpTo(pass[p].to)
      BY <1>1 DEF IndInv, PassInv, Stored, Stage
    <2>2. Below(pass[p].to + 1)
      BY <1>9, <2>1, RangeStored DEF Found
    <2>3. pass[p].to + 1 \in Nat /\ pass'[p].to = pass[p].to
      BY <1>1, <1>4, <1>5 DEF Place
    <2>4. Below(pass[p].to + 1)'
      BY <1>6, <1>7, <2>2, <2>3, BelowStays DEF IndInv
    <2>5. PassInv(p)'
      BY <1>4, <1>5, <1>6, <1>8, <1>9, <2>4 DEF PassInv, Stored, Stage, IssuedUpTo, Below
    <2> QED
      BY <1>3, <1>5, <1>6, <1>7, <2>5, StoringStep DEF IndInv, TypeOK
  <1>10. CASE todo # {}
    <2>1. at = "AddedBlock"
      BY <1>10
    <2>2. ASSUME NEW i \in (DOMAIN log) \ todo, log[i].kind = "Added", InRange(p, i)
          PROVE  FALSE
      BY <2>2 DEF Found
    <2>3. \A i \in todo : i \in DOMAIN log /\ log[i].kind = "Added"
      BY DEF Found
    <2>4. PassInv(p)'
      BY <1>4, <1>5, <1>6, <1>8, <2>1, <2>2, <2>3 DEF PassInv, Stored, Stage, IssuedUpTo, Below
    <2> QED
      BY <1>3, <1>5, <1>6, <1>7, <2>4, StoringStep DEF IndInv, TypeOK
  <1> QED
    BY <1>9, <1>10

LEMMA SyncAddedKeeps ==
    ASSUME IndInv, NEW p \in Passes, SyncAdded(p)
    PROVE  IndInv'
  <1> PICK i \in DOMAIN log :
          /\ NextTodo(p, i)
          /\ InsertAdded(log[i].of)
          /\ pass' = [pass EXCEPT ![p] =
                [pass[p] EXCEPT !.at = IF pass[p].todo = {i} THEN "Removed" ELSE "AddedBlock",
                                !.todo = pass[p].todo \ {i}]]
    BY DEF SyncAdded
  <1> DEFINE at == IF pass[p].todo = {i} THEN "Removed" ELSE "AddedBlock"
             todo == pass[p].todo \ {i}
             pl == [pass[p] EXCEPT !.at = at, !.todo = todo]
  <1>1. pass[p] \in Place /\ pass[p].at = "AddedBlock"
    BY DEF IndInv, TypeOK, SyncAdded
  <1>2. todo \in SUBSET Nat /\ at \in Stage
    BY <1>1 DEF Place, Stage
  <1>3. pl \in Place
    BY <1>1, <1>2, Places
  <1>4. /\ pl.at = at /\ pl.from = pass[p].from /\ pl.to = pass[p].to
        /\ pl.full = pass[p].full /\ pl.todo = todo
    BY <1>1 DEF Place
  <1>5. pass' = [pass EXCEPT ![p] = pl] /\ pass'[p] = pl
    BY DEF IndInv, TypeOK
  <1> HIDE DEF pl
  <1>6. UNCHANGED <<chain, log, head, creds, marks, live, left>>
    BY DEF SyncAdded, chain
  <1>7. /\ creds' \in [Credentials -> {"absent", "valid", "revoked"}]
        /\ TypeOK /\ LogInv
    BY <1>6 DEF IndInv, TypeOK
  <1>8. log[i].kind = "Added"
    BY <1>1 DEF NextTodo, IndInv, PassInv, Stored
  <1>9. log[i].of \in Accounts
    BY <1>7, <1>8 DEF LogInv, About
  <1>10. RowsStay /\ IssuersTyped /\ issuers'[log[i].of] # "absent"
    BY <1>6, <1>7, <1>9, InsertAddedKeeps
  <1>11. /\ pass'[p].to =< head /\ Below(pass[p].from)' /\ pass[p].from =< head + 1
        /\ IssuedUpTo(pass[p].to)'
        /\ \A j \in DOMAIN log : InRange(p, j)' <=> InRange(p, j)
    BY <1>1, <1>4, <1>5, <1>6, <1>10, NextStage DEF Stage
  <1>12. ASSUME NEW j \in (DOMAIN log) \ todo, log[j].kind = "Added", InRange(p, j)
        PROVE  HasRow(log[j])'
    <2>1. CASE j = i
      BY <1>6, <1>8, <1>10, <2>1 DEF HasRow
    <2>2. CASE j # i
      <3>1. HasRow(log[j])
        BY <1>1, <1>12, <2>2 DEF IndInv, PassInv, Stored
      <3> QED
        BY <1>6, <1>7, <1>10, <3>1, RowStays
    <2> QED
      BY <2>1, <2>2
  <1>13. CASE at = "Removed"
    <2>1. ASSUME NEW j \in DOMAIN log, log[j].block < pass[p].to + 1
          PROVE  HasRow(log[j])'
      <3>1. /\ log[j].block \in Nat /\ pass[p].from \in Nat /\ pass[p].to \in Nat
            /\ log[j].block =< pass[p].to
        <4>1. log[j].block \in Nat
          BY <1>7, LogDomain
        <4>2. pass[p].from \in Nat /\ pass[p].to \in Nat
          BY <1>1 DEF Place
        <4> QED
          BY <2>1, <4>1, <4>2
      <3>2. CASE log[j].kind = "Issued"
        BY <1>4, <1>5, <1>6, <1>11, <3>1, <3>2 DEF IssuedUpTo
      <3>3. CASE log[j].kind = "Added" /\ InRange(p, j)
        <4>1. pass[p].todo = {i}
          BY <1>1, <1>13
        <4> QED
          BY <1>12, <3>3, <4>1
      <3>4. CASE log[j].kind = "Added" /\ ~ InRange(p, j)
        BY <1>4, <1>5, <1>6, <1>11, <3>1, <3>4 DEF InRange, Below
      <3> QED
        BY <1>6, <3>2, <3>3, <3>4 DEF HasRow
    <2>2. PassInv(p)'
      BY <1>4, <1>5, <1>6, <1>11, <1>13, <2>1 DEF PassInv, Stored, Stage, IssuedUpTo, Below
    <2> QED
      BY <1>3, <1>5, <1>6, <1>7, <1>10, <2>2, StoringStep
  <1>14. CASE at = "AddedBlock"
    <2>1. \A j \in todo : j \in DOMAIN log /\ log[j].kind = "Added"
      BY <1>1 DEF IndInv, PassInv, Stored
    <2>2. PassInv(p)'
      BY <1>4, <1>5, <1>6, <1>11, <1>12, <1>14, <2>1 DEF PassInv, Stored, Stage, IssuedUpTo, Below
    <2> QED
      BY <1>3, <1>5, <1>6, <1>7, <1>10, <2>2, StoringStep
  <1> QED
    BY <1>1, <1>13, <1>14

\* A filter that starts to listen at block n has passed a number of entries.
LEMMA CursorTyped ==
    ASSUME TypeOK
    PROVE  Cardinality({i \in DOMAIN log : log[i].block < head}) \in Nat
  <1>1. DOMAIN log = 1 .. Len(log) /\ Len(log) \in Nat
    BY LogDomain
  <1>2. IsFiniteSet(1 .. Len(log))
    BY <1>1, FS_Interval
  <1>3. IsFiniteSet({i \in DOMAIN log : log[i].block < head})
    BY <1>1, <1>2, FS_Subset
  <1> QED
    BY <1>3, FS_CardinalityType

LEMMA FinishKeeps ==
    ASSUME IndInv, RowsStay, NEW p \in Passes, Finish(p),
           pass[p].at \in {"Removed", "RemovedBlock"},
           UNCHANGED <<chain, left>>,
           creds' \in [Credentials -> {"absent", "valid", "revoked"}], IssuersTyped
    PROVE  IndInv'
  <1> PICK to \in Nat : to = pass[p].to
    BY Places DEF IndInv, TypeOK
  <1>1. UNCHANGED <<log, head>>
    BY DEF chain
  <1>2. /\ pass' = [pass EXCEPT ![p] = Idle] /\ pass'[p] = Idle
        /\ dbBlock' = to /\ memBlock' = to /\ syncing' = FALSE
        /\ UNCHANGED <<seen, handlers>>
    BY DEF Finish, IndInv, TypeOK
  <1>3. PassInv(p)
    BY DEF IndInv
  <1>4. to =< head /\ Below(to + 1) /\ to + 1 \in Nat
    BY <1>3 DEF PassInv, Stored, Stage
  <1>5. LogInv /\ LogInv'
    BY <1>1 DEF IndInv, LogInv
  <1>6. Below(to + 1)'
    BY <1>1, <1>4, <1>5, BelowStays
  <1>7. MarksInv'
    BY <1>1, <1>2, <1>4, <1>6 DEF MarksInv
  <1>8. pass'[p].at = "idle" /\ pass'[p].to =< head
    BY <1>2 DEF Idle, IndInv, TypeOK
  <1>9. PassInv(p)'
    BY <1>8, AtRest
  <1>10. pass' \in [Passes -> Place] /\ \A q \in Passes : PassInv(q)'
    BY <1>2, <1>9, PassStep, Places
  <1>11. listeners' \in Nat /\ cursor' \in [Kind -> Nat]
    BY CursorTyped DEF Finish, IndInv, TypeOK
  <1>12. TypeOK'
    BY <1>1, <1>2, <1>10, <1>11 DEF IndInv, TypeOK, IssuersTyped
  <1>13. HandlersInv' /\ BudgetInv'
    BY <1>1, <1>2 DEF IndInv, HandlersInv, BudgetInv
  <1> QED
    BY <1>5, <1>7, <1>10, <1>12, <1>13 DEF IndInv

\* A pass between the removals it found still knows that its range is stored.
LEMMA RemovalsKeep ==
    ASSUME IndInv, RowsStay, NEW p \in Passes, NEW pl \in Place,
           pass[p].at \in {"Removed", "RemovedBlock"},
           pl.at = "RemovedBlock", pl.from = pass[p].from, pl.to = pass[p].to,
           pass' = [pass EXCEPT ![p] = pl],
           UNCHANGED chain
    PROVE  PassInv(p)'
  <1>1. pass'[p] = pl /\ pass[p] \in Place
    BY DEF IndInv, TypeOK
  <1>2. UNCHANGED <<log, head>>
    BY DEF chain
  <1>3. /\ pass'[p].to =< head /\ Below(pass[p].from)' /\ pass[p].from =< head + 1
        /\ IssuedUpTo(pass[p].to)'
    BY <1>1, NextStage DEF Stage
  <1>4. Below(pass[p].to + 1) /\ pass[p].to + 1 \in Nat /\ pass'[p].to = pass[p].to
    BY <1>1 DEF IndInv, PassInv, Stored, Place
  <1>5. Below(pass[p].to + 1)'
    BY <1>2, <1>4, BelowStays DEF IndInv
  <1> QED
    BY <1>1, <1>2, <1>3, <1>5 DEF PassInv, Stored, Stage, IssuedUpTo, Below

LEMMA FindRemovedKeeps ==
    ASSUME IndInv, NEW p \in Passes, FindRemoved(p)
    PROVE  IndInv'
  <1>1. UNCHANGED <<chain, tables, left>> /\ pass[p].at = "Removed" /\ pass[p] \in Place
    BY DEF FindRemoved, IndInv, TypeOK
  <1>2. RowsStay /\ IssuersTyped /\ creds' \in [Credentials -> {"absent", "valid", "revoked"}]
    BY <1>1 DEF RowsStay, IssuersTyped, tables, IndInv, TypeOK
  <1>3. CASE Found(p, "Removed") = {} /\ Finish(p)
    BY <1>1, <1>2, <1>3, FinishKeeps
  <1>4. CASE /\ pass' = [pass EXCEPT ![p] =
                   [@ EXCEPT !.at = "RemovedBlock", !.todo = Found(p, "Removed")]]
             /\ UNCHANGED <<marks, live>>
    <2> DEFINE todo == Found(p, "Removed")
               pl == [pass[p] EXCEPT !.at = "RemovedBlock", !.todo = todo]
    <2>1. todo \in SUBSET Nat /\ "RemovedBlock" \in Stage
      BY LogDomain DEF IndInv, Found, Stage
    <2>2. pl \in Place
      BY <1>1, <2>1, Places
    <2>3. pl.at = "RemovedBlock" /\ pl.from = pass[p].from /\ pl.to = pass[p].to
      BY <1>1 DEF Place
    <2>4. pass' = [pass EXCEPT ![p] = pl]
      BY <1>4 DEF IndInv, TypeOK
    <2> HIDE DEF pl
    <2>5. PassInv(p)'
      BY <1>1, <1>2, <2>2, <2>3, <2>4, RemovalsKeep
    <2> QED
      BY <1>1, <1>2, <1>4, <2>2, <2>4, <2>5, StoringStep
  <1> QED
    BY <1>3, <1>4 DEF FindRemoved

LEMMA SyncRemovedKeeps ==
    ASSUME IndInv, NEW p \in Passes, SyncRemoved(p)
    PROVE  IndInv'
  <1>1. /\ UNCHANGED <<chain, creds, left>>
        /\ pass[p].at = "RemovedBlock" /\ pass[p] \in Place
        /\ creds' \in [Credentials -> {"absent", "valid", "revoked"}]
    BY DEF SyncRemoved, IndInv, TypeOK
  <1> PICK i \in DOMAIN log :
          /\ UpdateRemoved(log[i].of)
          /\ \/ Finish(p)
             \/ /\ pass' = [pass EXCEPT ![p] = [@ EXCEPT !.todo = pass[p].todo \ {i}]]
                /\ UNCHANGED <<marks, live>>
    BY DEF SyncRemoved
  <1>2. RowsStay /\ IssuersTyped
    BY <1>1, UpdateRemovedKeeps DEF IndInv
  <1>3. CASE Finish(p)
    BY <1>1, <1>2, <1>3, FinishKeeps
  <1>4. CASE /\ pass' = [pass EXCEPT ![p] = [@ EXCEPT !.todo = pass[p].todo \ {i}]]
             /\ UNCHANGED <<marks, live>>
    <2> DEFINE todo == pass[p].todo \ {i}
               pl == [pass[p] EXCEPT !.todo = todo]
    <2>1. todo \in SUBSET Nat
      BY <1>1 DEF Place
    <2>2. pl \in Place
      BY <1>1, <2>1, Places
    <2>3. pl.at = "RemovedBlock" /\ pl.from = pass[p].from /\ pl.to = pass[p].to
      BY <1>1 DEF Place
    <2>4. pass' = [pass EXCEPT ![p] = pl]
      BY <1>4 DEF IndInv, TypeOK
    <2> HIDE DEF pl
    <2>5. PassInv(p)'
      BY <1>1, <1>2, <2>2, <2>3, <2>4, RemovalsKeep
    <2> QED
      BY <1>1, <1>2, <1>4, <2>2, <2>4, <2>5, StoringStep
  <1> QED
    BY <1>3, <1>4

LEMMA FailKeeps ==
    ASSUME IndInv, NEW p \in Passes, Fail(p)
    PROVE  IndInv'
  <1>1. left' \in [Bound -> Nat] /\ BudgetInv'
    BY Spending DEF Fail, IndInv, Bound
  <1>2. /\ pass' = [pass EXCEPT ![p] = Idle] /\ pass'[p] = Idle
        /\ UNCHANGED <<chain, tables, dbBlock, memBlock, seen, live>>
        /\ seen' \in Nat /\ syncing' \in BOOLEAN
    BY DEF Fail, IndInv, TypeOK
  <1>3. pass'[p].at = "idle" /\ pass'[p].to =< head
    BY <1>2 DEF Idle, IndInv, TypeOK
  <1>4. PassInv(p)'
    BY <1>2, <1>3, AtRest
  <1> QED
    BY <1>1, <1>2, <1>4, Places, QuietStep

LEMMA RestartKeeps ==
    ASSUME IndInv, NEW p \in Passes, Restart(p)
    PROVE  IndInv'
  <1>1. left' \in [Bound -> Nat] /\ BudgetInv' /\ ~ Listening
    BY Spending DEF Restart, IndInv, Bound
  <1> DEFINE pl == Asking(0)
  <1>2. /\ pl \in Place /\ pl.at = "head" /\ pl.from = dbBlock /\ pl.to = head
        /\ Below(dbBlock) /\ dbBlock =< head + 1
    BY <1>1, Asks
  <1> HIDE DEF pl
  <1>3. /\ UNCHANGED <<chain, log, head, tables, creds, issuers, dbBlock>>
        /\ memBlock' = 0 /\ syncing' = FALSE /\ seen' = 0
        /\ listeners' = 0 /\ cursor' = [k \in Kind |-> 0] /\ handlers' = {}
    BY DEF Restart, chain, tables
  <1>4. \A q \in Passes : pass'[q] = IF q = p THEN pl ELSE Idle
    BY DEF Restart, pl
  <1>5. pass' \in [Passes -> Place]
    <2>1. pass' = [q \in Passes |-> IF q = p THEN pl ELSE Idle]
      BY DEF Restart, pl
    <2> QED
      BY <1>2, <2>1, Places
  <1>6. RowsStay /\ LogInv /\ LogInv'
    BY <1>3 DEF RowsStay, IndInv, LogInv
  <1>7. dbBlock \in Nat /\ dbBlock + 1 \in Nat /\ head \in Nat
    BY DEF IndInv, TypeOK
  <1>8. Below(dbBlock)' /\ Below(dbBlock + 1)'
    BY <1>1, <1>2, <1>3, <1>6, <1>7, BelowStays DEF IndInv, MarksInv
  <1>9. Below(memBlock + 1)'
    BY <1>3, <1>6 DEF Below, LogInv
  <1>10. MarksInv'
    BY <1>3, <1>7, <1>8, <1>9 DEF MarksInv, IndInv
  <1>11. ASSUME NEW q \in Passes PROVE PassInv(q)'
    <2>1. CASE q = p
      BY <1>2, <1>3, <1>4, <1>7, <1>8, <2>1 DEF PassInv, Stored, Stage, Below
    <2>2. CASE q # p
      <3>1. pass'[q].at = "idle" /\ pass'[q].to =< head
        BY <1>4, <1>7, <2>2 DEF Idle
      <3> QED
        BY <1>3, <3>1, AtRest
    <2> QED
      BY <2>1, <2>2
  <1>12. TypeOK'
    BY <1>1, <1>3, <1>5 DEF IndInv, TypeOK, tables
  <1>13. HandlersInv'
    BY <1>3 DEF HandlersInv
  <1> QED
    BY <1>1, <1>6, <1>10, <1>11, <1>12, <1>13 DEF IndInv

LEMMA PrepareIssuerKeeps ==
    ASSUME IndInv, NEW a \in Named, PrepareIssuer(a)
    PROVE  IndInv'
  <1>1. UNCHANGED <<chain, log, head, creds, issuers, named, marks, pass, live, left>>
    BY DEF PrepareIssuer, chain
  <1>2. pending' \in [Accounts -> BOOLEAN]
    BY NamedAssumption DEF PrepareIssuer, IndInv, TypeOK
  <1>3. RowsStay
    BY <1>1 DEF RowsStay
  <1>4. LogInv' /\ MarksInv' /\ \A q \in Passes : PassInv(q)'
    BY <1>1, <1>3, LogStays, PassesStay DEF marks
  <1>5. TypeOK' /\ HandlersInv' /\ BudgetInv'
    BY <1>1, <1>2 DEF IndInv, TypeOK, HandlersInv, BudgetInv, marks, live
  <1> QED
    BY <1>4, <1>5 DEF IndInv

LEMMA DeliverKeeps ==
    ASSUME IndInv, NEW kind \in Kind, Deliver(kind)
    PROVE  IndInv'
  <1>1. UNCHANGED <<chain, log, head, tables, creds, issuers, marks, pass, listeners, left>>
    BY DEF Deliver, chain, tables
  <1>2. RowsStay
    BY <1>1 DEF RowsStay
  <1>3. LogInv' /\ MarksInv' /\ \A q \in Passes : PassInv(q)'
    BY <1>1, <1>2, LogStays, PassesStay DEF marks
  <1> PICK i \in DOMAIN log :
          /\ cursor' = [cursor EXCEPT ![kind] = i]
          /\ handlers' = handlers \cup ({i} \X (1 .. listeners))
          /\ Listening
    BY DEF Deliver
  <1>4. i \in Nat /\ DOMAIN log \subseteq Nat
    BY LogDomain DEF IndInv
  <1>5. HandlersInv'
    BY <1>1 DEF HandlersInv, IndInv, TypeOK
  <1>6. cursor' \in [Kind -> Nat] /\ handlers' \subseteq Nat \X Nat
    BY <1>1, <1>4, <1>5 DEF HandlersInv, IndInv, TypeOK
  <1>7. TypeOK' /\ BudgetInv'
    BY <1>1, <1>6 DEF IndInv, TypeOK, BudgetInv, marks, tables
  <1> QED
    BY <1>3, <1>5, <1>7 DEF IndInv

LEMMA RunHandlerKeeps ==
    ASSUME IndInv, NEW h \in handlers, RunHandler(h)
    PROVE  IndInv'
  <1> PICK i \in DOMAIN log : i = h[1]
    BY DEF IndInv, HandlersInv
  <1>1. /\ UNCHANGED <<chain, log, head, memBlock, syncing, seen, pass, listeners, cursor, left>>
        /\ Apply(log[i]) /\ dbBlock' = log[i].block /\ handlers' = handlers \ {h}
    BY DEF RunHandler, chain
  <1>2. /\ TypeOK /\ LogInv /\ Listening
        /\ log[i].of \in About(log[i].kind) /\ log[i].block \in 1 .. head /\ head \in Nat
    BY DEF IndInv, HandlersInv, LogInv, TypeOK
  <1>3. /\ RowsStay /\ IssuersTyped
        /\ creds' \in [Credentials -> {"absent", "valid", "revoked"}]
    <2>1. CASE InsertIssued({log[i].of}) /\ UNCHANGED <<issuers, named, pending>>
      BY <1>2, <2>1, InsertIssuedKeeps DEF IssuersTyped, TypeOK
    <2>2. CASE UpdateRevoked({log[i].of}) /\ UNCHANGED <<issuers, named, pending>>
      BY <1>2, <2>2, UpdateRevokedKeeps DEF IssuersTyped, TypeOK
    <2>3. CASE log[i].kind = "Added" /\ InsertAdded(log[i].of) /\ UNCHANGED creds
      BY <1>2, <2>3, InsertAddedKeeps DEF TypeOK, About
    <2>4. CASE UpdateRemoved(log[i].of) /\ UNCHANGED creds
      BY <1>2, <2>4, UpdateRemovedKeeps DEF TypeOK
    <2> QED
      BY <1>1, <2>1, <2>2, <2>3, <2>4 DEF Apply
  <1>4. LogInv' /\ \A q \in Passes : PassInv(q)'
    BY <1>1, <1>3, PassesStay DEF LogInv, IndInv
  <1>5. MarksInv'
    <2>1. memBlock + 1 \in Nat /\ Below(memBlock + 1) /\ memBlock =< head
      BY DEF IndInv, MarksInv, TypeOK
    <2>2. Below(memBlock + 1)'
      BY <1>1, <1>2, <1>3, <2>1, BelowStays
    <2> QED
      BY <1>1, <1>2, <2>1, <2>2 DEF MarksInv
  <1>6. HandlersInv' /\ BudgetInv'
    BY <1>1, <1>2 DEF IndInv, HandlersInv, BudgetInv
  <1>7. dbBlock' \in Nat
    BY <1>1, <1>2
  <1>8. TypeOK'
    BY <1>1, <1>2, <1>3, <1>7 DEF TypeOK, IssuersTyped
  <1> QED
    BY <1>4, <1>5, <1>6, <1>8 DEF IndInv

\* The log with a new block: what it held, and entries of that block.
LEMMA MineGrows ==
    ASSUME TypeOK, Mine
    PROVE  /\ log' \in Seq(Entry)
           /\ DOMAIN log \subseteq DOMAIN log'
           /\ \A i \in DOMAIN log : log'[i] = log[i]
           /\ \A i \in (DOMAIN log') \ DOMAIN log :
                 log'[i].of \in About(log'[i].kind) /\ log'[i].block = head + 1
  <1> PICK n \in 0 .. MaxPerBlock :
          \E es \in [1 .. n -> Event] : log' = log \o Mined(es)
    BY DEF Mine
  <1> PICK es \in [1 .. n -> Event] : log' = log \o Mined(es)
    OBVIOUS
  <1>1. n \in Nat /\ head + 1 \in Nat
    BY BoundsAssumption DEF TypeOK
  <1>2. \A e \in Event : /\ [kind |-> e.kind, of |-> e.of, block |-> head + 1] \in Entry
                         /\ e.of \in About(e.kind)
    BY <1>1 DEF Event, Entry
  <1> DEFINE new == Mined(es)
  <1>3. new = [k \in 1 .. n |-> [kind |-> es[k].kind, of |-> es[k].of, block |-> head + 1]]
    BY DEF Mined
  <1>4. \A k \in 1 .. n : /\ new[k] \in Entry /\ new[k].block = head + 1
                          /\ new[k].of \in About(new[k].kind)
    BY <1>2, <1>3
  <1>5. new \in Seq(Entry) /\ Len(new) = n
    BY <1>1, <1>3, <1>4
  <1> HIDE DEF new
  <1>6. log \in Seq(Entry) /\ log' = log \o new
    BY DEF TypeOK, new
  <1>7. /\ log' \in Seq(Entry) /\ Len(log') = Len(log) + n
        /\ \A i \in 1 .. Len(log) + n :
              log'[i] = IF i <= Len(log) THEN log[i] ELSE new[i - Len(log)]
    BY <1>5, <1>6, ConcatProperties
  <1>8. /\ DOMAIN log = 1 .. Len(log) /\ Len(log) \in Nat
        /\ DOMAIN log' = 1 .. Len(log) + n
    BY <1>6, <1>7
  <1>9. \A i \in (1 .. Len(log) + n) \ (1 .. Len(log)) :
           log'[i] = new[i - Len(log)] /\ i - Len(log) \in 1 .. n
    BY <1>1, <1>7, <1>8
  <1>10. \A i \in 1 .. Len(log) : i \in 1 .. Len(log) + n /\ i <= Len(log)
    BY <1>1, <1>8
  <1> QED
    BY <1>4, <1>7, <1>8, <1>9, <1>10

LEMMA MineKeeps ==
    ASSUME IndInv, Mine
    PROVE  IndInv'
  <1>1. /\ log' \in Seq(Entry)
        /\ DOMAIN log \subseteq DOMAIN log'
        /\ \A i \in DOMAIN log : log'[i] = log[i]
        /\ \A i \in (DOMAIN log') \ DOMAIN log :
              log'[i].of \in About(log'[i].kind) /\ log'[i].block = head + 1
    BY MineGrows DEF IndInv
  <1>2. /\ head' = head + 1 /\ head \in Nat
        /\ UNCHANGED <<tables, marks, pass, live>>
        /\ UNCHANGED <<creds, issuers, dbBlock, memBlock, handlers>>
    BY DEF Mine, tables, marks, live, IndInv, TypeOK
  <1>3. left' \in [Bound -> Nat] /\ BudgetInv'
    BY Spending DEF Mine, IndInv, Bound
  <1>4. LogInv'
    BY <1>1, <1>2 DEF IndInv, LogInv
  <1>6. \A i \in DOMAIN log : HasRow(log[i]) => HasRow(log[i])'
    BY <1>1, <1>2 DEF HasRow
  <1>7. \A n \in Nat : n =< head + 1 /\ Below(n) => Below(n)'
    BY <1>1, <1>2, <1>6 DEF Below
  <1>8. \A n \in Nat : n =< head /\ IssuedUpTo(n) => IssuedUpTo(n)'
    BY <1>1, <1>2, <1>6 DEF IssuedUpTo
  <1>9. MarksInv'
    <2>1. /\ memBlock + 1 \in Nat /\ dbBlock + 1 \in Nat
          /\ memBlock =< head /\ dbBlock =< head
          /\ Below(memBlock + 1) /\ (~ Listening => Below(dbBlock + 1))
      BY DEF IndInv, MarksInv, TypeOK
    <2>a. /\ memBlock \in Nat /\ dbBlock \in Nat
          /\ memBlock + 1 =< head + 1 /\ dbBlock + 1 =< head + 1
      BY <1>2, <2>1 DEF IndInv, TypeOK
    <2>2. Below(memBlock + 1)' /\ (~ Listening => Below(dbBlock + 1)')
      BY <1>2, <1>7, <2>1, <2>a
    <2> QED
      BY <1>2, <2>1, <2>2 DEF MarksInv, IndInv, TypeOK
  <1>10. ASSUME NEW p \in Passes PROVE PassInv(p)'
    <2>1. PassInv(p) /\ pass[p].from \in Nat /\ pass[p].to \in Nat
      BY Places DEF IndInv, TypeOK
    <2>2. pass'[p] = pass[p]
      BY <1>2
    <2>3. pass[p].to =< head /\ pass[p].to + 1 =< head + 1 /\ pass[p].to + 1 \in Nat
      BY <1>2, <2>1 DEF PassInv
    <2>4. \A n \in {pass[p].from, pass[p].to + 1} :
             n =< head + 1 /\ Below(n) => Below(n)'
      BY <1>2, <1>7, <2>1, <2>3
    <2>5. IssuedUpTo(pass[p].to) => IssuedUpTo(pass[p].to)'
      BY <1>2, <1>8, <2>1, <2>3
    <2>6. ASSUME pass[p].at = "AddedBlock",
                 NEW i \in (DOMAIN log') \ pass[p].todo,
                 log'[i].kind = "Added", InRange(p, i)'
          PROVE  HasRow(log[i])'
      <3>1. CASE i \in DOMAIN log
        BY <1>1, <1>6, <2>1, <2>2, <2>6, <3>1 DEF PassInv, Stored, InRange
      <3>2. CASE i \notin DOMAIN log
        BY <1>1, <1>2, <2>1, <2>2, <2>3, <2>6, <3>2 DEF InRange
      <3> QED
        BY <3>1, <3>2
    <2>7. pass[p].at = "AddedBlock" =>
             \A i \in pass[p].todo : i \in DOMAIN log' /\ log'[i].kind = "Added"
      BY <1>1, <2>1 DEF PassInv, Stored
    <2>8. head + 1 =< head' + 1 /\ head =< head'
      BY <1>2
    <2> QED
      BY <1>2, <2>1, <2>2, <2>3, <2>4, <2>5, <2>6, <2>7, <2>8 DEF PassInv, Stored, Stage
  <1>11. HandlersInv'
    BY <1>1, <1>2 DEF IndInv, HandlersInv
  <1>12. TypeOK'
    BY <1>1, <1>2, <1>3 DEF IndInv, TypeOK, tables, marks, live
  <1> QED
    BY <1>3, <1>4, <1>9, <1>10, <1>11, <1>12 DEF IndInv

-----------------------------------------------------------------------------
(* The theorems. *)

LEMMA Initial == MarksAreLeftToPasses /\ Init => IndInv
  <1> SUFFICES ASSUME MarksAreLeftToPasses, Init PROVE IndInv
    OBVIOUS
  <1>1. DOMAIN log = {} /\ log \in Seq(Entry)
    BY DEF Init
  <1> PICK p \in Passes : pass = [q \in Passes |-> IF q = p THEN Asking(0) ELSE Idle]
    BY DEF Init
  <1>2. dbBlock = 0 /\ memBlock = 0 /\ head = 0 /\ handlers = {}
    BY DEF Init
  <1>3. Asking(0) \in Place
    BY <1>2 DEF Asking, Place
  <1>4. /\ Asking(0).at = "head" /\ Asking(0).to = 0 /\ Asking(0).from = 0
        /\ Idle.at = "idle" /\ Idle.to = 0
    BY <1>2 DEF Asking, Idle
  <1>5. pass \in [Passes -> Place]
    BY <1>3, Places
  <1>6. \A q \in Passes : PassInv(q)
    BY <1>1, <1>2, <1>4 DEF PassInv, Stored, Stage, Below
  <1>7. left \in [Bound -> Nat]
    <2>1. \A b \in Bound : (CASE b = "blocks" -> MaxBlock [] b = "restarts" -> Restarts
                             [] b = "failures" -> Failures [] b = "forced" -> Forced) \in Nat
      BY BoundsAssumption DEF Bound
    <2> QED
      BY <2>1 DEF Init
  <1>8. BudgetInv
    <2>1. left["restarts"] = Restarts /\ left["forced"] = Forced
      BY DEF Init, Bound
    <2> QED
      BY <2>1 DEF BudgetInv, MarksAreLeftToPasses
  <1>9. TypeOK
    <2>1. /\ creds \in [Credentials -> {"absent", "valid", "revoked"}]
          /\ issuers \in [Accounts -> {"absent", "active", "inactive"}]
          /\ named \in [Accounts -> BOOLEAN] /\ pending \in [Accounts -> BOOLEAN]
          /\ cursor \in [Kind -> Nat]
      BY DEF Init
    <2>2. syncing = FALSE /\ seen = 0 /\ listeners = 0
      BY DEF Init
    <2> QED
      BY <1>1, <1>2, <1>5, <1>7, <2>1, <2>2 DEF TypeOK
  <1>10. LogInv /\ MarksInv /\ HandlersInv
    BY <1>1, <1>2 DEF LogInv, MarksInv, HandlersInv, Below
  <1> QED
    BY <1>6, <1>8, <1>9, <1>10 DEF IndInv

LEMMA StutterKeeps ==
    ASSUME IndInv, UNCHANGED vars
    PROVE  IndInv'
  <1>1. UNCHANGED <<chain, log, head, tables, creds, issuers, named, pending, marks, dbBlock,
                    memBlock, syncing, seen, pass, live, listeners, cursor, handlers, left>>
    BY DEF vars, chain, tables, marks, live
  <1>2. RowsStay
    BY <1>1 DEF RowsStay
  <1>3. LogInv' /\ MarksInv' /\ \A q \in Passes : PassInv(q)'
    BY <1>1, <1>2, LogStays, PassesStay
  <1>4. TypeOK' /\ HandlersInv' /\ BudgetInv'
    BY <1>1 DEF IndInv, TypeOK, HandlersInv, BudgetInv
  <1> QED
    BY <1>3, <1>4 DEF IndInv

LEMMA ProceedKeeps ==
    ASSUME IndInv, NEW p \in Passes, Proceed(p)
    PROVE  IndInv'
  BY NothingNewKeeps, RangeKnownKeeps, SyncIssuedKeeps, SyncRevokedKeeps, FindAddedKeeps,
     SyncAddedKeeps, FindRemovedKeeps, SyncRemovedKeeps DEF Proceed

LEMMA Inductive ==
    ASSUME MarksAreLeftToPasses, IndInv, [Next]_vars
    PROVE  IndInv'
  <1>1. CASE Mine
    BY <1>1, MineKeeps
  <1>2. ASSUME NEW a \in Named, PrepareIssuer(a) PROVE IndInv'
    BY <1>2, PrepareIssuerKeeps
  <1>3. ASSUME NEW p \in Passes, StartIncremental(p) PROVE IndInv'
    BY <1>3, StartIncrementalKeeps
  <1>4. ASSUME NEW p \in Passes, StartForced(p) PROVE IndInv'
    BY <1>4, StartForcedKeeps
  <1>5. ASSUME NEW p \in Passes, Proceed(p) PROVE IndInv'
    BY <1>5, ProceedKeeps
  <1>6. ASSUME NEW p \in Passes, Fail(p) PROVE IndInv'
    BY <1>6, FailKeeps
  <1>7. ASSUME NEW p \in Passes, Restart(p) PROVE IndInv'
    BY <1>7, RestartKeeps
  <1>8. ASSUME NEW kind \in Kind, Deliver(kind) PROVE IndInv'
    BY <1>8, DeliverKeeps
  <1>9. ASSUME NEW h \in handlers, RunHandler(h) PROVE IndInv'
    BY <1>9, RunHandlerKeeps
  <1>10. CASE UNCHANGED vars
    BY <1>10, StutterKeeps
  <1> QED
    BY <1>1, <1>2, <1>3, <1>4, <1>5, <1>6, <1>7, <1>8, <1>9, <1>10 DEF Next

\* Under the assumption above, the invariant holds for every set of
\* credentials, issuers and passes, and any number of blocks and failures.
THEOREM Invariance ==
    ASSUME MarksAreLeftToPasses
    PROVE  Spec => []IndInv
  <1>1. Init => IndInv
    BY Initial
  <1>2. IndInv /\ [Next]_vars => IndInv'
    BY Inductive
  <1> QED
    BY <1>1, <1>2, PTL DEF Spec

\* Every variable keeps its type.
THEOREM TypeCorrect ==
    ASSUME MarksAreLeftToPasses
    PROVE  Spec => []TypeOK
  <1>1. IndInv => TypeOK
    BY DEF IndInv
  <1> QED
    BY <1>1, Invariance, PTL

\* The mark of memory never passes a block whose events have no row: no two
\* passes, failures or listeners make syncHistoricalEvents skip a block.
THEOREM SyncSkipsNothing ==
    ASSUME MarksAreLeftToPasses
    PROVE  Spec => []SyncedIsIndexed
  <1>1. IndInv => SyncedIsIndexed
    <2> SUFFICES ASSUME IndInv, NEW i \in DOMAIN log, log[i].block =< memBlock
                 PROVE  HasRow(log[i])
      BY DEF SyncedIsIndexed
    <2>1. log[i].block \in Nat /\ memBlock \in Nat
      BY LogDomain DEF IndInv, TypeOK
    <2>2. log[i].block < memBlock + 1
      BY <2>1
    <2> QED
      BY <2>2 DEF IndInv, MarksInv, Below
  <1> QED
    BY <1>1, Invariance, PTL

\* With passes and no listeners, the mark in the database, where a restarted
\* server goes on, passes no such block either.
THEOREM ResumeSkipsNothing ==
    ASSUME MarksAreLeftToPasses, ~ Listening
    PROVE  Spec => [](Below(dbBlock + 1))
  <1>1. IndInv => Below(dbBlock + 1)
    BY DEF IndInv, MarksInv
  <1> QED
    BY <1>1, Invariance, PTL

-----------------------------------------------------------------------------
(* isSyncing.  Nothing is assumed of the run. *)

\* A pass has its place; nothing else is needed of the types here.
Shaped == /\ DOMAIN pass = Passes
          /\ \A p \in Passes : "at" \in DOMAIN pass[p]

SyncingInv == Shaped /\ SyncingIsTemporary

\* One pass moves on: one in no stage of its range leaves isSyncing alone.
LEMMA SyncingStep ==
    ASSUME SyncingInv, NEW p \in Passes, NEW pl,
           pass' = [pass EXCEPT ![p] = pl], "at" \in DOMAIN pl,
           syncing' => pl.at \in Stage \/ (syncing /\ pass[p].at \notin Stage)
    PROVE  SyncingInv'
  <1>1. DOMAIN pass' = Passes /\ pass'[p] = pl
    BY DEF SyncingInv, Shaped
  <1>2. \A q \in Passes \ {p} : pass'[q] = pass[q]
    BY DEF SyncingInv, Shaped
  <1>3. Shaped'
    BY <1>1, <1>2 DEF SyncingInv, Shaped
  <1>4. ASSUME syncing' PROVE \E q \in Passes : pass'[q].at \in Stage
    <2>1. CASE pl.at \in Stage
      BY <1>1, <2>1
    <2>2. CASE syncing /\ pass[p].at \notin Stage
      <3> PICK q \in Passes : pass[q].at \in Stage
        BY <2>2 DEF SyncingInv, SyncingIsTemporary
      <3> QED
        BY <1>2, <2>2
    <2> QED
      BY <1>4, <2>1, <2>2
  <1> QED
    BY <1>3, <1>4 DEF SyncingInv, SyncingIsTemporary

LEMMA SyncingRests ==
    ASSUME SyncingInv, UNCHANGED <<pass, syncing>>
    PROVE  SyncingInv'
  BY DEF SyncingInv, Shaped, SyncingIsTemporary

LEMMA IdlePlace == "at" \in DOMAIN Idle /\ Idle.at = "idle"
  BY DEF Idle

LEMMA PlaceAt ==
    ASSUME SyncingInv, NEW p \in Passes
    PROVE  /\ \A at : LET pl == [pass[p] EXCEPT !.at = at]
                      IN  "at" \in DOMAIN pl /\ pl.at = at
           /\ \A at, todo : LET pl == [pass[p] EXCEPT !.at = at, !.todo = todo]
                            IN  "at" \in DOMAIN pl /\ pl.at = at
           /\ \A at, from, to : LET pl == [pass[p] EXCEPT !.at = at, !.from = from, !.to = to]
                                IN  "at" \in DOMAIN pl /\ pl.at = at
           /\ \A todo : LET pl == [pass[p] EXCEPT !.todo = todo]
                        IN  "at" \in DOMAIN pl /\ pl.at = pass[p].at
  BY DEF SyncingInv, Shaped

\* The end of a pass, and its failure, take isSyncing back.
LEMMA FinishEnds ==
    ASSUME SyncingInv, NEW p \in Passes, Finish(p)
    PROVE  SyncingInv'
  BY SyncingStep, IdlePlace DEF Finish

LEMMA ProceedEnds ==
    ASSUME SyncingInv, NEW p \in Passes, Proceed(p)
    PROVE  SyncingInv'
  <1>1. CASE NothingNew(p)
    <2>1. pass' = [pass EXCEPT ![p] = Idle] /\ syncing' = syncing /\ pass[p].at = "head"
      BY <1>1 DEF NothingNew
    <2> QED
      BY <2>1, SyncingStep, IdlePlace DEF Stage
  <1>2. CASE RangeKnown(p)
    <2> PICK current : pass' = [pass EXCEPT ![p] =
                [pass[p] EXCEPT !.at = "Issued", !.from = From(p), !.to = current]]
      BY <1>2 DEF RangeKnown
    <2> DEFINE pl == [pass[p] EXCEPT !.at = "Issued", !.from = From(p), !.to = current]
    <2>1. "at" \in DOMAIN pl /\ pl.at = "Issued"
      BY PlaceAt
    <2>2. pass' = [pass EXCEPT ![p] = pl]
      OBVIOUS
    <2> HIDE DEF pl
    <2> QED
      BY <2>1, <2>2, SyncingStep DEF Stage
  <1>3. CASE SyncIssued(p)
    <2> DEFINE pl == [pass[p] EXCEPT !.at = "Revoked"]
    <2>1. "at" \in DOMAIN pl /\ pl.at = "Revoked"
      BY PlaceAt
    <2>2. pass' = [pass EXCEPT ![p] = pl]
      BY <1>3 DEF SyncIssued
    <2> HIDE DEF pl
    <2> QED
      BY <2>1, <2>2, SyncingStep DEF Stage
  <1>4. CASE SyncRevoked(p)
    <2> DEFINE pl == [pass[p] EXCEPT !.at = "Added"]
    <2>1. "at" \in DOMAIN pl /\ pl.at = "Added"
      BY PlaceAt
    <2>2. pass' = [pass EXCEPT ![p] = pl]
      BY <1>4 DEF SyncRevoked
    <2> HIDE DEF pl
    <2> QED
      BY <2>1, <2>2, SyncingStep DEF Stage
  <1>5. CASE FindAdded(p)
    <2> DEFINE at == IF Found(p, "Added") = {} THEN "Removed" ELSE "AddedBlock"
               pl == [pass[p] EXCEPT !.at = at, !.todo = Found(p, "Added")]
    <2>1. pass' = [pass EXCEPT ![p] = pl]
      BY <1>5 DEF FindAdded
    <2>2. at \in Stage
      BY DEF Stage
    <2> HIDE DEF at
    <2>3. "at" \in DOMAIN pl /\ pl.at = at
      BY PlaceAt
    <2> HIDE DEF pl
    <2> QED
      BY <2>1, <2>2, <2>3, SyncingStep
  <1>6. CASE SyncAdded(p)
    <2> PICK i \in DOMAIN log : pass' = [pass EXCEPT ![p] =
                [pass[p] EXCEPT !.at = IF pass[p].todo = {i} THEN "Removed" ELSE "AddedBlock",
                                !.todo = pass[p].todo \ {i}]]
      BY <1>6 DEF SyncAdded
    <2> DEFINE at == IF pass[p].todo = {i} THEN "Removed" ELSE "AddedBlock"
               pl == [pass[p] EXCEPT !.at = at, !.todo = pass[p].todo \ {i}]
    <2>1. pass' = [pass EXCEPT ![p] = pl]
      OBVIOUS
    <2>2. at \in Stage
      BY DEF Stage
    <2> HIDE DEF at
    <2>3. "at" \in DOMAIN pl /\ pl.at = at
      BY PlaceAt
    <2> HIDE DEF pl
    <2> QED
      BY <2>1, <2>2, <2>3, SyncingStep
  <1>7. CASE FindRemoved(p)
    <2>1. CASE Finish(p)
      BY <2>1, FinishEnds
    <2>2. CASE pass' = [pass EXCEPT ![p] =
                  [pass[p] EXCEPT !.at = "RemovedBlock", !.todo = Found(p, "Removed")]]
      <3> DEFINE pl == [pass[p] EXCEPT !.at = "RemovedBlock", !.todo = Found(p, "Removed")]
      <3>1. "at" \in DOMAIN pl /\ pl.at = "RemovedBlock"
        BY PlaceAt
      <3>2. pass' = [pass EXCEPT ![p] = pl]
        BY <2>2
      <3> HIDE DEF pl
      <3> QED
        BY <3>1, <3>2, SyncingStep DEF Stage
    <2> QED
      BY <1>7, <2>1, <2>2 DEF FindRemoved
  <1>8. CASE SyncRemoved(p)
    <2> PICK i : \/ Finish(p)
                 \/ pass' = [pass EXCEPT ![p] = [pass[p] EXCEPT !.todo = pass[p].todo \ {i}]]
      BY <1>8 DEF SyncRemoved
    <2>1. CASE Finish(p)
      BY <2>1, FinishEnds
    <2>2. CASE pass' = [pass EXCEPT ![p] = [pass[p] EXCEPT !.todo = pass[p].todo \ {i}]]
      <3> DEFINE pl == [pass[p] EXCEPT !.todo = pass[p].todo \ {i}]
      <3>1. "at" \in DOMAIN pl /\ pl.at = "RemovedBlock"
        BY <1>8, PlaceAt DEF SyncRemoved
      <3>2. pass' = [pass EXCEPT ![p] = pl]
        BY <2>2
      <3> HIDE DEF pl
      <3> QED
        BY <3>1, <3>2, SyncingStep DEF Stage
    <2> QED
      BY <2>1, <2>2
  <1> QED
    BY <1>1, <1>2, <1>3, <1>4, <1>5, <1>6, <1>7, <1>8 DEF Proceed

LEMMA SyncingInductive ==
    ASSUME SyncingInv, [Next]_vars
    PROVE  SyncingInv'
  <1>1. CASE Mine
    BY <1>1, SyncingRests DEF Mine, marks
  <1>2. ASSUME NEW a \in Named, PrepareIssuer(a) PROVE SyncingInv'
    BY <1>2, SyncingRests DEF PrepareIssuer, marks
  <1>3. ASSUME NEW p \in Passes, StartIncremental(p) PROVE SyncingInv'
    <2> DEFINE pl == [Idle EXCEPT !.at = "head", !.to = head]
    <2>1. "at" \in DOMAIN pl
      BY DEF Idle
    <2>2. pass' = [pass EXCEPT ![p] = pl] /\ syncing' = syncing /\ pass[p].at = "idle"
      BY <1>3 DEF StartIncremental, Running, marks
    <2> HIDE DEF pl
    <2> QED
      BY <2>1, <2>2, SyncingStep DEF Stage
  <1>4. ASSUME NEW p \in Passes, StartForced(p) PROVE SyncingInv'
    <2> PICK start : pass' = [pass EXCEPT ![p] = Asking(start)]
      BY <1>4 DEF StartForced
    <2>1. "at" \in DOMAIN Asking(start)
      BY DEF Asking
    <2>2. syncing' = syncing /\ pass[p].at = "idle"
      BY <1>4 DEF StartForced, Running, marks
    <2> QED
      BY <2>1, <2>2, SyncingStep DEF Stage
  <1>5. ASSUME NEW p \in Passes, Proceed(p) PROVE SyncingInv'
    BY <1>5, ProceedEnds
  <1>6. ASSUME NEW p \in Passes, Fail(p) PROVE SyncingInv'
    <2>1. pass' = [pass EXCEPT ![p] = Idle]
      BY <1>6 DEF Fail
    <2>2. syncing' => syncing /\ pass[p].at = "head"
      BY <1>6 DEF Fail
    <2> QED
      BY <2>1, <2>2, SyncingStep, IdlePlace DEF Stage
  <1>7. ASSUME NEW p \in Passes, Restart(p) PROVE SyncingInv'
    <2>1. pass' = [q \in Passes |-> IF q = p THEN Asking(0) ELSE Idle] /\ syncing' = FALSE
      BY <1>7 DEF Restart
    <2>2. "at" \in DOMAIN Asking(0)
      BY DEF Asking
    <2> QED
      BY <2>1, <2>2, IdlePlace DEF SyncingInv, Shaped, SyncingIsTemporary
  <1>8. ASSUME NEW kind \in Kind, Deliver(kind) PROVE SyncingInv'
    BY <1>8, SyncingRests DEF Deliver, marks
  <1>9. ASSUME NEW h \in handlers, RunHandler(h) PROVE SyncingInv'
    BY <1>9, SyncingRests DEF RunHandler
  <1>10. CASE UNCHANGED vars
    BY <1>10, SyncingRests DEF vars, marks
  <1> QED
    BY <1>1, <1>2, <1>3, <1>4, <1>5, <1>6, <1>7, <1>8, <1>9, <1>10 DEF Next

\* Whatever passes overlap, fail or are cut short, isSyncing is on only while
\* one of them works on its range: no pass leaves it on for good, and with it
\* every later pass skipped.
THEOREM SyncingEnds == Spec => []SyncingIsTemporary
  <1>1. Init => SyncingInv
    <2> SUFFICES ASSUME Init PROVE SyncingInv
      OBVIOUS
    <2> PICK p \in Passes : pass = [q \in Passes |-> IF q = p THEN Asking(0) ELSE Idle]
      BY DEF Init
    <2>1. "at" \in DOMAIN Asking(0) /\ ~ syncing
      BY DEF Asking, Init
    <2> QED
      BY <2>1, IdlePlace DEF SyncingInv, Shaped, SyncingIsTemporary
  <1>2. SyncingInv /\ [Next]_vars => SyncingInv'
    BY SyncingInductive
  <1>3. SyncingInv => SyncingIsTemporary
    BY DEF SyncingInv
  <1> QED
    BY <1>1, <1>2, <1>3, PTL DEF Spec

-----------------------------------------------------------------------------
(* Withdrawals. *)

\* What is assumed of a run here: passes come one after the other, nobody
\* listens, an administrator who forces a sync names no first block; and no
\* request fails, or the server neither restarts nor is forced.  A first pass that
\* failed leaves the mark of memory at 0: the next one replays everything, and a
\* restart in the middle of it would go on from the persisted mark.
OnePassAtATime ==
    /\ \E p : Passes = {p}
    /\ ~ Listening /\ StartBlocks \subseteq {0}
    /\ Failures = 0 \/ (Restarts = 0 /\ Forced = 0)

\* The log is in the order of its blocks, and withdraws only what it gave.
LogTells ==
    /\ \A i, j \in DOMAIN log : i =< j => log[i].block =< log[j].block
    /\ \A i \in DOMAIN log : log[i].kind \in {"Revoked", "Removed"} =>
          \E j \in DOMAIN log :
             /\ j =< i /\ log[j].of = log[i].of
             /\ log[j].kind = IF log[i].kind = "Revoked" THEN "Issued" ELSE "Added"

Last(i) == \A j \in DOMAIN log : log[j].of = log[i].of => j =< i

ShownAt(i) ==
    /\ log[i].kind = "Revoked" => creds[log[i].of] = "revoked"
    /\ log[i].kind = "Removed" => issuers[log[i].of] = "inactive"

\* What was withdrawn for good before block n is shown so.
ShownBelow(n) == \A i \in DOMAIN log : Last(i) /\ log[i].block < n => ShownAt(i)

RevokedUpTo(n) ==
    \A i \in DOMAIN log :
        Last(i) /\ log[i].block =< n /\ log[i].kind = "Revoked" => creds[log[i].of] = "revoked"

\* A pass starts where the marks say, disturbs nothing that was settled before its
\* range, and goes through the range in the order of its stages.
Settles(p) ==
    /\ pass[p].at = "idle" \/ ~ pass[p].full => memBlock = dbBlock
    /\ pass[p].at # "idle" /\ pass[p].full => pass[p].from = dbBlock
    /\ pass[p].at \notin Stage => ShownBelow(memBlock + 1)
    /\ pass[p].at = "head" => ShownBelow(dbBlock)
    /\ pass[p].at \in Stage =>
          /\ ShownBelow(pass[p].from)
          /\ ~ pass[p].full => pass[p].from = memBlock + 1
    /\ pass[p].at \in Stage \ {"Issued", "Revoked"} => RevokedUpTo(pass[p].to)
    /\ pass[p].at = "AddedBlock" => \A i \in pass[p].todo : InRange(p, i)
    /\ pass[p].at = "RemovedBlock" =>
          \A i \in (DOMAIN log) \ pass[p].todo :
             Last(i) /\ log[i].kind = "Removed" /\ InRange(p, i) => issuers[log[i].of] = "inactive"

\* A pass that may fail starts from the first block or from both marks.
MayFail ==
    left["failures"] # 0 =>
        /\ left["restarts"] = 0 /\ left["forced"] = 0 /\ memBlock = dbBlock
        /\ \A p \in Passes : pass[p].at # "idle" /\ pass[p].full => memBlock = 0

SettledInv == LogTells /\ MayFail /\ \A p \in Passes : Settles(p)

\* The types of what a pass and the log say in numbers.
LEMMA NumbersOf ==
    ASSUME IndInv, NEW p \in Passes
    PROVE  /\ pass[p] \in Place /\ pass[p].from \in Nat /\ pass[p].to \in Nat
           /\ memBlock \in Nat /\ dbBlock \in Nat /\ head \in Nat
           /\ \A i \in DOMAIN log : /\ i \in Nat /\ log[i].block \in Nat /\ log[i].block # 0
                                    /\ log[i].block =< head /\ log[i].of \in About(log[i].kind)
  <1>1. pass[p] \in Place /\ memBlock \in Nat /\ dbBlock \in Nat /\ head \in Nat
    BY DEF IndInv, TypeOK
  <1>2. pass[p].from \in Nat /\ pass[p].to \in Nat
    BY <1>1, Places
  <1>3. \A i \in DOMAIN log : i \in Nat /\ log[i].block \in Nat
    BY LogDomain DEF IndInv
  <1>4. \A i \in DOMAIN log : /\ log[i].block # 0 /\ log[i].block =< head
                              /\ log[i].of \in About(log[i].kind)
    BY <1>1 DEF IndInv, LogInv
  <1> QED
    BY <1>1, <1>2, <1>3, <1>4

-----------------------------------------------------------------------------
(* What is shown stays shown. *)

LEMMA ShownStays ==
    ASSUME UNCHANGED <<log, creds, issuers>>
    PROVE  /\ \A n \in Nat : ShownBelow(n) => ShownBelow(n)'
           /\ \A n \in Nat : RevokedUpTo(n) => RevokedUpTo(n)'
           /\ LogTells => LogTells'
  BY DEF ShownBelow, RevokedUpTo, LogTells, Last, ShownAt

LEMMA ShownLess ==
    ASSUME IndInv, NEW m \in Nat, NEW n \in Nat, m =< n, ShownBelow(n)
    PROVE  ShownBelow(m)
  <1>1. \A i \in DOMAIN log : log[i].block \in Nat
    BY LogDomain DEF IndInv
  <1> QED
    BY <1>1 DEF ShownBelow

LEMMA NoneBelowOne ==
    ASSUME IndInv
    PROVE  ShownBelow(1)
  <1>1. \A i \in DOMAIN log : log[i].block \in 1 .. head
    BY DEF IndInv, LogInv
  <1> QED
    BY <1>1 DEF ShownBelow, IndInv, TypeOK

\* A range that is read again writes nothing about what was withdrawn for good
\* before it.
LEMMA NoneFromBefore ==
    ASSUME LogTells, NEW n \in Nat, NEW i \in DOMAIN log, NEW j \in DOMAIN log,
           log[i].block \in Nat, log[j].block \in Nat,
           Last(i), log[i].block < n, n =< log[j].block
    PROVE  log[j].of # log[i].of
  <1> SUFFICES ASSUME log[j].of = log[i].of PROVE FALSE
    OBVIOUS
  <1>1. j =< i
    BY DEF Last
  <1>2. log[j].block =< log[i].block
    BY <1>1 DEF LogTells
  <1> QED
    BY <1>2

\* The stages of a pass leave what was withdrawn before its range as it is.
LEMMA IssuedAfter ==
    ASSUME IndInv, LogTells, NEW p \in Passes, NEW n \in Nat, n = pass[p].from,
           InsertIssued(Subjects(p, "Issued")), UNCHANGED <<log, issuers>>, ShownBelow(n)
    PROVE  ShownBelow(n)'
  <1> SUFFICES ASSUME NEW i \in DOMAIN log, Last(i), log[i].block < n
               PROVE  ShownAt(i)'
    BY DEF ShownBelow, Last
  <1>1. ShownAt(i) /\ log[i].of \in About(log[i].kind)
    BY DEF ShownBelow, IndInv, LogInv
  <1>2. log[i].of \notin Subjects(p, "Issued")
    <2>1. \A j \in Found(p, "Issued") : j \in DOMAIN log /\ n =< log[j].block
      BY DEF Found, InRange
    <2>2. \A j \in Found(p, "Issued") : log[j].of # log[i].of
      BY <2>1, NumbersOf, NoneFromBefore
    <2> QED
      BY <2>2 DEF Subjects
  <1>3. log[i].kind = "Revoked" => log[i].of \in Credentials
    BY <1>1 DEF About
  <1> QED
    BY <1>1, <1>2, <1>3 DEF InsertIssued, ShownAt

LEMMA RevokedAfter ==
    ASSUME IndInv, NEW hashes, UpdateRevoked(hashes), UNCHANGED <<log, issuers>>,
           NEW n \in Nat, ShownBelow(n)
    PROVE  ShownBelow(n)'
  <1> SUFFICES ASSUME NEW i \in DOMAIN log, Last(i), log[i].block < n
               PROVE  ShownAt(i)'
    BY DEF ShownBelow, Last
  <1>1. ShownAt(i) /\ log[i].of \in About(log[i].kind)
    BY DEF ShownBelow, IndInv, LogInv
  <1>2. log[i].kind = "Revoked" => log[i].of \in Credentials
    BY <1>1 DEF About
  <1> QED
    BY <1>1, <1>2 DEF UpdateRevoked, ShownAt

LEMMA AddedAfter ==
    ASSUME IndInv, LogTells, NEW p \in Passes, NEW n \in Nat, n = pass[p].from,
           NEW j \in DOMAIN log, InRange(p, j), InsertAdded(log[j].of),
           UNCHANGED <<log, creds>>, ShownBelow(n)
    PROVE  ShownBelow(n)'
  <1> SUFFICES ASSUME NEW i \in DOMAIN log, Last(i), log[i].block < n
               PROVE  ShownAt(i)'
    BY DEF ShownBelow, Last
  <1>1. ShownAt(i)
    BY DEF ShownBelow
  <1>2. log[j].of # log[i].of
    BY NumbersOf, NoneFromBefore DEF InRange
  <1>3. issuers' = [issuers EXCEPT ![log[j].of] = "active"]
    BY DEF InsertAdded
  <1>4. issuers'[log[i].of] = issuers[log[i].of] \/ log[i].of \notin Accounts
    BY <1>2, <1>3 DEF IndInv, TypeOK
  <1>5. log[i].kind = "Removed" => log[i].of \in Accounts
    BY DEF IndInv, LogInv, About
  <1> QED
    BY <1>1, <1>4, <1>5 DEF ShownAt

LEMMA RemovedAfter ==
    ASSUME IndInv, NEW a, UpdateRemoved(a), UNCHANGED <<log, creds>>,
           NEW n \in Nat, ShownBelow(n)
    PROVE  ShownBelow(n)'
  <1> SUFFICES ASSUME NEW i \in DOMAIN log, Last(i), log[i].block < n
               PROVE  ShownAt(i)'
    BY DEF ShownBelow, Last
  <1>1. ShownAt(i)
    BY DEF ShownBelow
  <1>2. log[i].kind = "Removed" => log[i].of \in Accounts
    BY DEF IndInv, LogInv, About
  <1>3. \A b \in Accounts : issuers[b] = "inactive" => issuers'[b] = "inactive"
    BY DEF UpdateRemoved, IndInv, TypeOK
  <1> QED
    BY <1>1, <1>2, <1>3 DEF ShownAt

\* What a stored range withdraws has a row to be shown in.
LEMMA RowToRevoke ==
    ASSUME IndInv, LogTells, NEW n \in Nat, IssuedUpTo(n),
           NEW i \in DOMAIN log, log[i].kind = "Revoked", log[i].block =< n
    PROVE  log[i].of \in Credentials /\ creds[log[i].of] # "absent"
  <1> PICK j \in DOMAIN log : j =< i /\ log[j].of = log[i].of /\ log[j].kind = "Issued"
    BY DEF LogTells
  <1>1. log[j].block =< log[i].block
    BY DEF LogTells
  <1>2. log[j].block =< n
    BY <1>1, NumbersOf, LogDomain DEF IndInv
  <1>3. HasRow(log[j])
    BY <1>2 DEF IssuedUpTo
  <1>4. log[i].of \in Credentials
    BY DEF IndInv, LogInv, About
  <1> QED
    BY <1>3, <1>4 DEF HasRow

LEMMA RowToRemove ==
    ASSUME IndInv, LogTells, NEW n \in Nat, Below(n + 1),
           NEW i \in DOMAIN log, log[i].kind = "Removed", log[i].block =< n
    PROVE  log[i].of \in Accounts /\ issuers[log[i].of] # "absent"
  <1> PICK j \in DOMAIN log : j =< i /\ log[j].of = log[i].of /\ log[j].kind = "Added"
    BY DEF LogTells
  <1>1. log[j].block =< log[i].block
    BY DEF LogTells
  <1>2. log[j].block < n + 1
    BY <1>1, LogDomain DEF IndInv
  <1>3. HasRow(log[j])
    BY <1>2 DEF Below
  <1>4. log[i].of \in Accounts
    BY DEF IndInv, LogInv, About
  <1> QED
    BY <1>3, <1>4 DEF HasRow

-----------------------------------------------------------------------------
(* A new block. *)

\* What may follow withdraws only what the log so far gave.
LEMMA FollowsWhatGave ==
    ASSUME NEW l \in Seq(Entry), NEW e \in Event, MayFollow(l, e),
           e.kind \in {"Revoked", "Removed"}
    PROVE  \E j \in DOMAIN l :
              /\ l[j].of = e.of
              /\ l[j].kind = IF e.kind = "Revoked" THEN "Issued" ELSE "Added"
  <1>1. CASE e.kind = "Revoked"
    BY <1>1 DEF MayFollow
  <1>2. CASE e.kind = "Removed"
    <2> DEFINE of(kind) == {i \in DOMAIN l : l[i].kind = kind /\ l[i].of = e.of}
    <2>1. Cardinality(of("Added")) > Cardinality(of("Removed"))
      BY <1>2 DEF MayFollow
    <2>2. DOMAIN l = 1 .. Len(l) /\ Len(l) \in Nat
      OBVIOUS
    <2>3. IsFiniteSet(of("Removed"))
      <3>1. IsFiniteSet(1 .. Len(l))
        BY <2>2, FS_Interval
      <3> QED
        BY <2>2, <3>1, FS_Subset
    <2>4. Cardinality(of("Removed")) \in Nat
      BY <2>3, FS_CardinalityType
    <2>5. of("Added") # {}
      <3> SUFFICES ASSUME of("Added") = {} PROVE FALSE
        OBVIOUS
      <3>1. Cardinality(of("Added")) = 0
        BY FS_EmptySet
      <3> HIDE DEF of
      <3> QED
        BY <2>1, <2>4, <3>1
    <2> QED
      BY <1>2, <2>5
  <1> QED
    BY <1>1, <1>2

\* The log with a new block still withdraws only what it gave.
LEMMA MineTells ==
    ASSUME TypeOK, Mine,
           NEW i \in (DOMAIN log') \ DOMAIN log, log'[i].kind \in {"Revoked", "Removed"}
    PROVE  \E j \in DOMAIN log' :
              /\ j =< i /\ log'[j].of = log'[i].of
              /\ log'[j].kind = IF log'[i].kind = "Revoked" THEN "Issued" ELSE "Added"
  <1> PICK n \in 0 .. MaxPerBlock :
          \E es \in [1 .. n -> Event] :
             /\ \A k \in 1 .. n : MayFollow(log \o SubSeq(Mined(es), 1, k - 1), es[k])
             /\ log' = log \o Mined(es)
    BY DEF Mine
  <1> PICK es \in [1 .. n -> Event] :
          /\ \A k \in 1 .. n : MayFollow(log \o SubSeq(Mined(es), 1, k - 1), es[k])
          /\ log' = log \o Mined(es)
    OBVIOUS
  <1>1. n \in Nat /\ head + 1 \in Nat
    BY BoundsAssumption DEF TypeOK
  <1> DEFINE new == Mined(es)
  <1>3. new = [k \in 1 .. n |-> [kind |-> es[k].kind, of |-> es[k].of, block |-> head + 1]]
    BY DEF Mined
  <1>4. \A k \in 1 .. n : new[k] \in Entry /\ new[k].kind = es[k].kind /\ new[k].of = es[k].of
    BY <1>1, <1>3 DEF Event, Entry
  <1>5. new \in Seq(Entry) /\ Len(new) = n
    BY <1>1, <1>3, <1>4
  <1>a. /\ log' = log \o new
        /\ \A k \in 1 .. n : MayFollow(log \o SubSeq(new, 1, k - 1), es[k])
    OBVIOUS
  <1> HIDE DEF new
  <1>6. log \in Seq(Entry)
    BY DEF TypeOK
  <1>7. /\ Len(log) \in Nat /\ DOMAIN log = 1 .. Len(log)
        /\ Len(log') = Len(log) + n /\ DOMAIN log' = 1 .. Len(log) + n
        /\ \A m \in 1 .. Len(log) + n :
              log'[m] = IF m =< Len(log) THEN log[m] ELSE new[m - Len(log)]
    BY <1>a, <1>5, <1>6, ConcatProperties
  <1> DEFINE k == i - Len(log)
  <1>8. k \in 1 .. n /\ log'[i] = new[k] /\ i = Len(log) + k /\ i \in Nat
    BY <1>1, <1>7
  <1> HIDE DEF k
  <1> DEFINE old == SubSeq(new, 1, k - 1)
  <1>9. /\ old \in Seq(Entry) /\ Len(old) = k - 1
        /\ \A m \in 1 .. k - 1 : old[m] = new[m]
    <2>1. k - 1 \in 0 .. n /\ k - 1 \in Nat
      BY <1>1, <1>8
    <2>2. \A m \in 1 .. k - 1 : new[m] \in Entry
      BY <1>1, <1>4, <1>8
    <2> QED
      BY <1>5, <2>1, <2>2, SubSeqProperties
  <1>10. MayFollow(log \o old, es[k])
    BY <1>a, <1>8
  <1> HIDE DEF old
  <1> DEFINE l == log \o old
  <1>b. k - 1 \in Nat /\ Len(log) + (k - 1) < Len(log) + n + 1 /\ Len(log) + (k - 1) < i
    BY <1>1, <1>7, <1>8
  <1>11. /\ l \in Seq(Entry) /\ DOMAIN l = 1 .. Len(log) + (k - 1)
         /\ \A m \in 1 .. Len(log) + (k - 1) :
              l[m] = IF m =< Len(log) THEN log[m] ELSE old[m - Len(log)]
    <2>1. /\ l \in Seq(Entry) /\ Len(l) = Len(log) + (k - 1)
          /\ \A m \in 1 .. Len(log) + (k - 1) :
               l[m] = IF m =< Len(log) THEN log[m] ELSE old[m - Len(log)]
      BY <1>6, <1>9, ConcatProperties
    <2> HIDE DEF l
    <2> QED
      BY <2>1
  <1>12. \A m \in DOMAIN l : m \in DOMAIN log' /\ m =< i /\ log'[m] = l[m]
    <2> SUFFICES ASSUME NEW m \in 1 .. Len(log) + (k - 1)
                 PROVE  m \in DOMAIN log' /\ m =< i /\ log'[m] = l[m]
      BY <1>11
    <2>1. m \in 1 .. Len(log) + n /\ m =< i
      BY <1>1, <1>7, <1>8, <1>b
    <2>2. CASE m =< Len(log)
      BY <1>7, <1>11, <2>1, <2>2
    <2>3. CASE ~ (m =< Len(log))
      <3>1. m - Len(log) \in 1 .. k - 1
        BY <1>7, <1>8, <2>3
      <3> QED
        BY <1>7, <1>9, <1>11, <2>1, <2>3, <3>1
    <2> QED
      BY <2>2, <2>3
  <1>13. MayFollow(l, es[k])
    BY <1>10
  <1> HIDE DEF l
  <1>14. es[k] \in Event /\ es[k].kind = log'[i].kind /\ es[k].of = log'[i].of
    BY <1>4, <1>8
  <1>15. \E j \in DOMAIN l :
              /\ l[j].of = es[k].of
              /\ l[j].kind = IF es[k].kind = "Revoked" THEN "Issued" ELSE "Added"
    BY <1>11, <1>13, <1>14, FollowsWhatGave
  <1> QED
    BY <1>12, <1>14, <1>15

\* A new block changes nothing about the blocks before it.
LEMMA SettledMine ==
    ASSUME IndInv, SettledInv, NEW p \in Passes, Passes = {p}, Mine
    PROVE  SettledInv'
  <1>1. /\ log' \in Seq(Entry)
        /\ DOMAIN log \subseteq DOMAIN log'
        /\ \A i \in DOMAIN log : log'[i] = log[i]
        /\ \A i \in (DOMAIN log') \ DOMAIN log :
              log'[i].of \in About(log'[i].kind) /\ log'[i].block = head + 1
    BY MineGrows DEF IndInv
  <1>2. UNCHANGED <<creds, issuers, dbBlock, memBlock, pass>>
    BY DEF Mine, tables, marks
  <1>3. UNCHANGED <<left["failures"], left["restarts"], left["forced"]>>
    BY DEF Mine, Spend, IndInv, TypeOK, Bound
  <1>4. MayFail'
    BY <1>2, <1>3 DEF SettledInv, MayFail
  <1>5. \A i \in DOMAIN log : Last(i)' => Last(i)
    BY <1>1 DEF Last
  <1>6. \A n \in Nat : n =< head + 1 /\ ShownBelow(n) => ShownBelow(n)'
    <2> SUFFICES ASSUME NEW n \in Nat, n =< head + 1, ShownBelow(n),
                        NEW i \in DOMAIN log', Last(i)', log'[i].block < n
                 PROVE  ShownAt(i)'
      BY DEF ShownBelow
    <2>1. i \in DOMAIN log /\ log'[i] = log[i]
      BY <1>1, NumbersOf
    <2>2. ShownAt(i)
      BY <1>5, <2>1 DEF ShownBelow
    <2> QED
      BY <1>2, <2>1, <2>2 DEF ShownAt
  <1>7. \A n \in Nat : n =< head /\ RevokedUpTo(n) => RevokedUpTo(n)'
    <2> SUFFICES ASSUME NEW n \in Nat, n =< head, RevokedUpTo(n),
                        NEW i \in DOMAIN log', Last(i)', log'[i].block =< n,
                        log'[i].kind = "Revoked"
                 PROVE  creds'[log'[i].of] = "revoked"
      BY DEF RevokedUpTo
    <2>1. i \in DOMAIN log /\ log'[i] = log[i]
      BY <1>1, NumbersOf
    <2> QED
      BY <1>2, <1>5, <2>1 DEF RevokedUpTo
  <1>8. LogTells'
    <2>1. ASSUME NEW i \in DOMAIN log', NEW j \in DOMAIN log', i =< j
          PROVE  log'[i].block =< log'[j].block
      <3>1. i \in Nat /\ j \in Nat /\ 1 =< i
        <4>1. DOMAIN log' = 1 .. Len(log')
          BY <1>1
        <4> QED
          BY <4>1
      <3>2. CASE j \in DOMAIN log
        <4>1. i \in DOMAIN log
          <5>1. DOMAIN log = 1 .. Len(log) /\ Len(log) \in Nat
            BY LogDomain DEF IndInv
          <5> QED
            BY <2>1, <3>1, <3>2, <5>1
        <4> QED
          BY <1>1, <2>1, <3>2, <4>1 DEF SettledInv, LogTells
      <3>3. CASE j \notin DOMAIN log
        BY <1>1, <3>3, NumbersOf
      <3> QED
        BY <3>2, <3>3
    <2>2. ASSUME NEW i \in DOMAIN log', log'[i].kind \in {"Revoked", "Removed"}
          PROVE  \E j \in DOMAIN log' :
                    /\ j =< i /\ log'[j].of = log'[i].of
                    /\ log'[j].kind = IF log'[i].kind = "Revoked" THEN "Issued" ELSE "Added"
      <3>1. CASE i \in DOMAIN log
        BY <1>1, <2>2, <3>1 DEF SettledInv, LogTells
      <3>2. CASE i \notin DOMAIN log
        BY <2>2, <3>2, MineTells DEF IndInv
      <3> QED
        BY <3>1, <3>2
    <2> QED
      BY <2>1, <2>2 DEF LogTells
  <1> PICK from \in Nat, to \in Nat : from = pass[p].from /\ to = pass[p].to
    BY NumbersOf
  <1>9. /\ memBlock \in Nat /\ memBlock + 1 \in Nat /\ dbBlock \in Nat
        /\ memBlock + 1 =< head + 1 /\ dbBlock =< head + 1 /\ to =< head
        /\ pass[p].at \in Stage => from =< head + 1
    BY NumbersOf DEF IndInv, MarksInv, PassInv, Stored
  <1>10. /\ ShownBelow(memBlock + 1) => ShownBelow(memBlock + 1)'
         /\ ShownBelow(dbBlock) => ShownBelow(dbBlock)'
         /\ RevokedUpTo(to) => RevokedUpTo(to)'
         /\ pass[p].at \in Stage /\ ShownBelow(from) => ShownBelow(from)'
    BY <1>2, <1>6, <1>7, <1>9
  <1>11. ASSUME pass[p].at = "AddedBlock", NEW i \in pass[p].todo
         PROVE  InRange(p, i)'
    <2>1. i \in DOMAIN log /\ InRange(p, i)
      BY <1>11 DEF IndInv, PassInv, Stored, SettledInv, Settles
    <2> QED
      BY <1>1, <1>2, <2>1 DEF InRange
  <1>12. ASSUME pass[p].at = "RemovedBlock", NEW i \in (DOMAIN log') \ pass[p].todo,
                Last(i)', log'[i].kind = "Removed", InRange(p, i)'
         PROVE  issuers'[log'[i].of] = "inactive"
    <2>1. i \in DOMAIN log /\ InRange(p, i) /\ log'[i] = log[i]
      BY <1>1, <1>2, <1>9, <1>12, NumbersOf DEF InRange
    <2> QED
      BY <1>2, <1>5, <1>12, <2>1 DEF SettledInv, Settles
  <1>13. Settles(p)
    BY DEF SettledInv
  <1>14. Settles(p)'
    BY <1>2, <1>10, <1>11, <1>12, <1>13 DEF Settles
  <1> QED
    BY <1>4, <1>8, <1>14 DEF SettledInv

-----------------------------------------------------------------------------
(* The steps of the pass. *)

\* A pass asks for the head: it is idle before, and both marks are the same.
LEMMA SettledStart ==
    ASSUME IndInv, SettledInv, NEW p \in Passes, Passes = {p},
           UNCHANGED <<log, creds, issuers, dbBlock, memBlock>>,
           pass[p].at = "idle", pass'[p].at = "head",
           pass'[p].full => pass'[p].from = dbBlock /\ left'["failures"] = 0,
           ~ pass'[p].full => left' = left
    PROVE  SettledInv'
  <1>1. Settles(p) /\ LogTells' /\ memBlock \in Nat /\ dbBlock \in Nat
    BY ShownStays, NumbersOf DEF SettledInv
  <1>2. memBlock = dbBlock /\ ShownBelow(memBlock + 1)
    BY <1>1 DEF Settles, Stage
  <1>3. ShownBelow(memBlock + 1)' /\ ShownBelow(dbBlock)'
    <2>1. ShownBelow(dbBlock)
      BY <1>1, <1>2, ShownLess
    <2>2. /\ ShownBelow(memBlock + 1) => ShownBelow(memBlock + 1)'
          /\ ShownBelow(dbBlock) => ShownBelow(dbBlock)'
      <3>1. PICK n \in Nat : n = memBlock + 1
        BY <1>1
      <3> QED
        BY <1>1, <3>1, ShownStays
    <2> QED
      BY <1>2, <2>1, <2>2
  <1>4. Settles(p)'
    BY <1>1, <1>2, <1>3 DEF Settles, Stage
  <1>5. MayFail'
    BY <1>1, <1>2 DEF SettledInv, MayFail
  <1> QED
    BY <1>1, <1>4, <1>5 DEF SettledInv

\* A pass ends without moving a mark.
LEMMA SettledEnd ==
    ASSUME IndInv, SettledInv, NEW p \in Passes, Passes = {p},
           UNCHANGED <<log, creds, issuers, dbBlock, memBlock>>,
           pass'[p].at = "idle", memBlock = dbBlock, ShownBelow(memBlock + 1),
           \A b \in {"restarts", "forced"} : left'[b] = left[b],
           left'["failures"] # 0 => left["failures"] # 0
    PROVE  SettledInv'
  <1>1. LogTells' /\ memBlock \in Nat
    BY ShownStays, NumbersOf DEF SettledInv
  <1>2. ShownBelow(memBlock + 1)'
    <2>1. PICK n \in Nat : n = memBlock + 1
      BY <1>1
    <2> QED
      BY <1>1, <2>1, ShownStays
  <1>3. Settles(p)'
    BY <1>2 DEF Settles, Stage
  <1>4. MayFail'
    BY DEF SettledInv, MayFail
  <1> QED
    BY <1>1, <1>3, <1>4 DEF SettledInv

LEMMA SettledNothingNew ==
    ASSUME IndInv, SettledInv, NEW p \in Passes, Passes = {p}, NothingNew(p)
    PROVE  SettledInv'
  <1>1. /\ UNCHANGED <<log, creds, issuers, dbBlock, memBlock, left>>
        /\ pass'[p].at = "idle" /\ pass[p].at = "head" /\ ~ pass[p].full
    BY DEF NothingNew, chain, tables, Idle, IndInv, TypeOK
  <1>2. memBlock = dbBlock /\ ShownBelow(memBlock + 1)
    BY <1>1 DEF SettledInv, Settles, Stage
  <1> QED
    BY <1>1, <1>2, SettledEnd

LEMMA SettledFail ==
    ASSUME IndInv, SettledInv, NEW p \in Passes, Passes = {p}, Fail(p)
    PROVE  SettledInv'
  <1>1. /\ UNCHANGED <<log, creds, issuers, dbBlock, memBlock>>
        /\ pass'[p].at = "idle" /\ pass[p].at # "idle"
    BY DEF Fail, Running, chain, tables, Idle, IndInv, TypeOK
  <1>2. /\ left["failures"] # 0
        /\ \A b \in {"restarts", "forced"} : left'[b] = left[b]
    BY DEF Fail, Spend, IndInv, TypeOK, Bound
  <1>3. memBlock = dbBlock /\ (pass[p].full => memBlock = 0)
    BY <1>1, <1>2 DEF SettledInv, MayFail
  <1>4. ShownBelow(memBlock + 1)
    <2>1. CASE pass[p].at \notin Stage
      BY <2>1 DEF SettledInv, Settles
    <2>2. CASE pass[p].at \in Stage /\ pass[p].full
      BY <1>3, <2>2, NoneBelowOne
    <2>3. CASE pass[p].at \in Stage /\ ~ pass[p].full
      BY <2>3 DEF SettledInv, Settles
    <2> QED
      BY <2>1, <2>2, <2>3
  <1> QED
    BY <1>1, <1>2, <1>3, <1>4, SettledEnd

LEMMA SettledStartIncremental ==
    ASSUME IndInv, SettledInv, NEW p \in Passes, Passes = {p}, StartIncremental(p)
    PROVE  SettledInv'
  <1>1. /\ UNCHANGED <<log, creds, issuers, dbBlock, memBlock, left>>
        /\ pass[p].at = "idle"
    BY DEF StartIncremental, Running, chain, tables, marks
  <1>2. pass'[p].at = "head" /\ pass'[p].full = FALSE
    BY DEF StartIncremental, Idle, IndInv, TypeOK
  <1> QED
    BY <1>1, <1>2, SettledStart

LEMMA SettledStartForced ==
    ASSUME IndInv, SettledInv, OnePassAtATime, NEW p \in Passes, Passes = {p}, StartForced(p)
    PROVE  SettledInv'
  <1>1. /\ UNCHANGED <<log, creds, issuers, dbBlock, memBlock>>
        /\ pass[p].at = "idle"
    BY DEF StartForced, Running, chain, tables, marks
  <1>2. pass' = [pass EXCEPT ![p] = Asking(0)]
    BY DEF StartForced, OnePassAtATime
  <1>3. pass'[p].at = "head" /\ pass'[p].full = TRUE /\ pass'[p].from = dbBlock
    BY <1>2 DEF Asking, IndInv, TypeOK
  <1>4. left["forced"] # 0 /\ left'["failures"] = left["failures"]
    BY DEF StartForced, Spend, IndInv, TypeOK, Bound
  <1>5. left["failures"] = 0
    BY <1>4 DEF SettledInv, MayFail
  <1> QED
    BY <1>1, <1>3, <1>4, <1>5, SettledStart

LEMMA SettledRestart ==
    ASSUME IndInv, SettledInv, NEW p \in Passes, Passes = {p}, Restart(p)
    PROVE  SettledInv'
  <1>1. /\ UNCHANGED <<log, creds, issuers, dbBlock>> /\ memBlock' = 0
        /\ pass' = [q \in Passes |-> IF q = p THEN Asking(0) ELSE Idle]
    BY DEF Restart, chain, tables
  <1>2. pass'[p].at = "head" /\ pass'[p].full = TRUE /\ pass'[p].from = dbBlock
    BY <1>1 DEF Asking
  <1>3. left["restarts"] # 0 /\ left'["failures"] = left["failures"]
    BY DEF Restart, Spend, IndInv, TypeOK, Bound
  <1>4. left'["failures"] = 0
    BY <1>3 DEF SettledInv, MayFail
  <1>5. ShownBelow(dbBlock)
    <2>1. /\ memBlock \in Nat /\ dbBlock \in Nat /\ Settles(p)
          /\ pass[p].at \in Stage \cup {"idle", "head"}
      BY NumbersOf, Places DEF SettledInv
    <2>2. CASE pass[p].at = "idle"
      <3>1. memBlock = dbBlock /\ ShownBelow(memBlock + 1)
        BY <2>1, <2>2 DEF Settles, Stage
      <3> QED
        BY <2>1, <3>1, ShownLess
    <2>3. CASE pass[p].at = "head"
      BY <2>1, <2>3 DEF Settles
    <2>4. CASE pass[p].at \in Stage /\ pass[p].full
      <3>1. pass[p].from = dbBlock
        BY <2>1, <2>4 DEF Settles, Stage
      <3> QED
        BY <2>1, <2>4, <3>1 DEF Settles
    <2>5. CASE pass[p].at \in Stage /\ ~ pass[p].full
      <3>1. ShownBelow(dbBlock + 1)
        BY <2>1, <2>5 DEF Settles
      <3> QED
        BY <2>1, <3>1, ShownLess
    <2> QED
      BY <2>1, <2>2, <2>3, <2>4, <2>5
  <1>6. LogTells' /\ ShownBelow(dbBlock)' /\ ShownBelow(1)'
    <2>1. dbBlock \in Nat
      BY NumbersOf
    <2> QED
      BY <1>1, <1>5, <2>1, ShownStays, NoneBelowOne DEF SettledInv
  <1>7. ShownBelow(memBlock + 1)'
    <2>1. memBlock' + 1 = 1
      BY <1>1
    <2> QED
      BY <1>6, <2>1
  <1>8. Settles(p)' /\ MayFail'
    BY <1>1, <1>2, <1>4, <1>6, <1>7 DEF Settles, MayFail, Stage
  <1> QED
    BY <1>6, <1>8 DEF SettledInv

\* What a pass that goes on in its range has to show.
LEMMA SettledStage ==
    ASSUME IndInv, SettledInv, NEW p \in Passes, Passes = {p}, pass[p].at \in Stage,
           NEW n \in Nat, NEW m \in Nat, n = pass[p].from, m = pass[p].to,
           UNCHANGED <<log, dbBlock, memBlock, left>>,
           NEW pl, pass' = [pass EXCEPT ![p] = pl],
           pl.full = pass[p].full, pl.from = n, pl.to = m, pl.at \in Stage,
           ShownBelow(n)',
           pl.at \in Stage \ {"Issued", "Revoked"} => RevokedUpTo(m)',
           pl.at = "AddedBlock" => \A i \in pl.todo : InRange(p, i),
           pl.at = "RemovedBlock" =>
              \A i \in (DOMAIN log) \ pl.todo :
                 Last(i) /\ log[i].kind = "Removed" /\ InRange(p, i)
                    => issuers'[log[i].of] = "inactive"
    PROVE  SettledInv'
  <1>1. pass'[p] = pl
    BY DEF IndInv, TypeOK
  <1>2. LogTells' /\ \A i \in DOMAIN log : (Last(i)' <=> Last(i)) /\ (InRange(p, i)' <=> InRange(p, i))
    BY <1>1 DEF SettledInv, LogTells, Last, InRange
  <1>3. Settles(p) /\ pl.at # "idle" /\ pl.at # "head" /\ pass[p].at # "idle"
    BY DEF SettledInv, Stage
  <1>4. ASSUME pl.at = "AddedBlock", NEW i \in pl.todo PROVE InRange(p, i)'
    BY <1>1, <1>4 DEF InRange
  <1>5. Settles(p)'
    BY <1>1, <1>2, <1>3, <1>4 DEF Settles
  <1>6. MayFail'
    BY <1>1, <1>3 DEF SettledInv, MayFail
  <1> QED
    BY <1>2, <1>5, <1>6 DEF SettledInv

LEMMA SettledRangeKnown ==
    ASSUME IndInv, SettledInv, NEW p \in Passes, Passes = {p}, RangeKnown(p)
    PROVE  SettledInv'
  <1> PICK current : pass' = [pass EXCEPT ![p] =
                [pass[p] EXCEPT !.at = "Issued", !.from = From(p), !.to = current]]
    BY DEF RangeKnown
  <1>1. /\ pass'[p].at = "Issued" /\ pass'[p].from = From(p)
        /\ pass'[p].full = pass[p].full /\ pass[p].at = "head"
    BY NumbersOf DEF RangeKnown, Place, IndInv, TypeOK
  <1>2. UNCHANGED <<log, creds, issuers, dbBlock, memBlock, left>>
    BY DEF RangeKnown, chain, tables
  <1>3. Settles(p) /\ memBlock + 1 \in Nat /\ From(p) \in Nat
    BY NumbersOf DEF SettledInv, From
  <1>4. ShownBelow(From(p))
    <2>1. CASE pass[p].full
      <3>1. From(p) = dbBlock /\ ShownBelow(dbBlock)
        BY <1>1, <1>3, <2>1 DEF Settles, From
      <3> QED
        BY <3>1
    <2>2. CASE ~ pass[p].full
      <3>1. From(p) = memBlock + 1 /\ ShownBelow(memBlock + 1)
        BY <1>1, <1>3, <2>2 DEF Settles, From, Stage
      <3> QED
        BY <3>1
    <2> QED
      BY <2>1, <2>2
  <1> PICK n \in Nat : n = From(p)
    BY <1>3
  <1>5. ShownBelow(n)' /\ LogTells'
    BY <1>2, <1>4, ShownStays DEF SettledInv
  <1>6. Settles(p)'
    <2>1. pass[p].full => n = dbBlock
      BY <1>1, <1>3 DEF Settles, From
    <2>2. ~ pass[p].full => n = memBlock + 1 /\ memBlock = dbBlock
      BY <1>1, <1>3 DEF Settles, From
    <2> QED
      BY <1>1, <1>2, <1>5, <2>1, <2>2 DEF Settles, Stage
  <1>7. MayFail'
    BY <1>1, <1>2 DEF SettledInv, MayFail
  <1> QED
    BY <1>5, <1>6, <1>7 DEF SettledInv

LEMMA SettledSyncIssued ==
    ASSUME IndInv, SettledInv, NEW p \in Passes, Passes = {p}, SyncIssued(p)
    PROVE  SettledInv'
  <1> PICK n \in Nat, m \in Nat : n = pass[p].from /\ m = pass[p].to
    BY NumbersOf
  <1>1. /\ UNCHANGED <<log, issuers, dbBlock, memBlock, left>>
        /\ InsertIssued(Subjects(p, "Issued")) /\ pass[p].at = "Issued"
    BY DEF SyncIssued, chain, marks
  <1> DEFINE pl == [pass[p] EXCEPT !.at = "Revoked"]
  <1>2. pass' = [pass EXCEPT ![p] = pl]
    BY DEF SyncIssued
  <1>3. pl.at = "Revoked" /\ pl.full = pass[p].full /\ pl.from = n /\ pl.to = m
    BY NumbersOf DEF Place
  <1> HIDE DEF pl
  <1>4. ShownBelow(n) /\ LogTells
    BY <1>1 DEF SettledInv, Settles, Stage
  <1>5. ShownBelow(n)'
    BY <1>1, <1>4, IssuedAfter
  <1> QED
    BY <1>1, <1>2, <1>3, <1>5, SettledStage DEF Stage

LEMMA SettledSyncRevoked ==
    ASSUME IndInv, SettledInv, NEW p \in Passes, Passes = {p}, SyncRevoked(p)
    PROVE  SettledInv'
  <1> PICK n \in Nat, m \in Nat : n = pass[p].from /\ m = pass[p].to
    BY NumbersOf
  <1>1. /\ UNCHANGED <<log, issuers, dbBlock, memBlock, left>>
        /\ UpdateRevoked(Subjects(p, "Revoked")) /\ pass[p].at = "Revoked"
    BY DEF SyncRevoked, chain, marks
  <1> DEFINE pl == [pass[p] EXCEPT !.at = "Added"]
  <1>2. pass' = [pass EXCEPT ![p] = pl]
    BY DEF SyncRevoked
  <1>3. pl.at = "Added" /\ pl.full = pass[p].full /\ pl.from = n /\ pl.to = m
    BY NumbersOf DEF Place
  <1> HIDE DEF pl
  <1>4. ShownBelow(n) /\ LogTells /\ IssuedUpTo(m)
    BY <1>1 DEF SettledInv, Settles, Stage, IndInv, PassInv, Stored
  <1>5. ShownBelow(n)'
    BY <1>1, <1>4, RevokedAfter
  <1>6. RevokedUpTo(m)'
    <2> SUFFICES ASSUME NEW i \in DOMAIN log, Last(i), log[i].block =< m, log[i].kind = "Revoked"
                 PROVE  creds'[log[i].of] = "revoked"
      BY <1>1 DEF RevokedUpTo, Last
    <2>1. log[i].of \in Credentials /\ creds[log[i].of] # "absent"
      BY <1>4, RowToRevoke
    <2>2. CASE log[i].block < n
      BY <1>4, <1>1, <2>1, <2>2 DEF ShownBelow, ShownAt, UpdateRevoked
    <2>3. CASE n =< log[i].block
      <3>1. log[i].of \in Subjects(p, "Revoked")
        BY <2>3 DEF Subjects, Found, InRange
      <3> QED
        BY <1>1, <2>1, <3>1 DEF UpdateRevoked
    <2> QED
      BY <2>2, <2>3, NumbersOf
  <1> QED
    BY <1>1, <1>2, <1>3, <1>5, <1>6, SettledStage DEF Stage

LEMMA SettledFindAdded ==
    ASSUME IndInv, SettledInv, NEW p \in Passes, Passes = {p}, FindAdded(p)
    PROVE  SettledInv'
  <1> PICK n \in Nat, m \in Nat : n = pass[p].from /\ m = pass[p].to
    BY NumbersOf
  <1>1. UNCHANGED <<log, creds, issuers, dbBlock, memBlock, left>> /\ pass[p].at = "Added"
    BY DEF FindAdded, chain, tables, marks
  <1> DEFINE at == IF Found(p, "Added") = {} THEN "Removed" ELSE "AddedBlock"
             pl == [pass[p] EXCEPT !.at = at, !.todo = Found(p, "Added")]
  <1>2. pass' = [pass EXCEPT ![p] = pl]
    BY DEF FindAdded
  <1>a. at \in {"Removed", "AddedBlock"}
    OBVIOUS
  <1> HIDE DEF at
  <1>3. /\ pl.at = at /\ pl.full = pass[p].full /\ pl.from = n /\ pl.to = m
        /\ pl.todo = Found(p, "Added")
    BY NumbersOf DEF Place
  <1> HIDE DEF pl
  <1>4. ShownBelow(n)' /\ RevokedUpTo(m)'
    <2>1. ShownBelow(n) /\ RevokedUpTo(m)
      BY <1>1 DEF SettledInv, Settles, Stage
    <2> QED
      BY <1>1, <2>1, ShownStays
  <1>5. \A i \in pl.todo : InRange(p, i)
    BY <1>3 DEF Found
  <1> QED
    BY <1>1, <1>2, <1>a, <1>3, <1>4, <1>5, SettledStage DEF Stage

LEMMA SettledSyncAdded ==
    ASSUME IndInv, SettledInv, NEW p \in Passes, Passes = {p}, SyncAdded(p)
    PROVE  SettledInv'
  <1> PICK n \in Nat, m \in Nat : n = pass[p].from /\ m = pass[p].to
    BY NumbersOf
  <1>1. UNCHANGED <<log, creds, dbBlock, memBlock, left>> /\ pass[p].at = "AddedBlock"
    BY DEF SyncAdded, chain, marks
  <1> PICK j \in DOMAIN log :
          /\ NextTodo(p, j)
          /\ InsertAdded(log[j].of)
          /\ pass' = [pass EXCEPT ![p] =
                [pass[p] EXCEPT !.at = IF pass[p].todo = {j} THEN "Removed" ELSE "AddedBlock",
                                !.todo = pass[p].todo \ {j}]]
    BY DEF SyncAdded
  <1> DEFINE at == IF pass[p].todo = {j} THEN "Removed" ELSE "AddedBlock"
             pl == [pass[p] EXCEPT !.at = at, !.todo = pass[p].todo \ {j}]
  <1>2. pass' = [pass EXCEPT ![p] = pl]
    OBVIOUS
  <1>a. at \in {"Removed", "AddedBlock"}
    OBVIOUS
  <1> HIDE DEF at
  <1>3. /\ pl.at = at /\ pl.full = pass[p].full /\ pl.from = n /\ pl.to = m
        /\ pl.todo = pass[p].todo \ {j}
    BY NumbersOf DEF Place
  <1> HIDE DEF pl
  <1>4. /\ ShownBelow(n) /\ RevokedUpTo(m) /\ LogTells
        /\ \A i \in pass[p].todo : InRange(p, i)
    BY <1>1 DEF SettledInv, Settles, Stage
  <1>5. InRange(p, j)
    BY <1>4 DEF NextTodo
  <1>6. ShownBelow(n)'
    BY <1>1, <1>4, <1>5, AddedAfter
  <1>7. RevokedUpTo(m)'
    BY <1>1, <1>4 DEF RevokedUpTo, Last
  <1> QED
    BY <1>1, <1>2, <1>a, <1>3, <1>4, <1>6, <1>7, SettledStage DEF Stage

\* A range whose removals are all shown is shown.
LEMMA RangeShown ==
    ASSUME IndInv, NEW p \in Passes, UNCHANGED log,
           NEW n \in Nat, NEW m \in Nat, n = pass[p].from, m = pass[p].to,
           ShownBelow(n)', RevokedUpTo(m)',
           \A i \in DOMAIN log :
              Last(i) /\ log[i].kind = "Removed" /\ InRange(p, i)
                 => issuers'[log[i].of] = "inactive"
    PROVE  ShownBelow(m + 1)'
  <1> SUFFICES ASSUME NEW i \in DOMAIN log, Last(i), log[i].block < m + 1
               PROVE  ShownAt(i)'
    BY DEF ShownBelow, Last
  <1>1. log[i].block =< m /\ (log[i].block < n \/ InRange(p, i))
    BY NumbersOf DEF InRange
  <1>2. CASE log[i].block < n
    BY <1>2 DEF ShownBelow, Last
  <1>3. CASE InRange(p, i)
    BY <1>1, <1>3 DEF RevokedUpTo, ShownAt, Last
  <1> QED
    BY <1>1, <1>2, <1>3

\* The end of a pass: all that its range withdraws for good is shown.
LEMMA SettledFinish ==
    ASSUME IndInv, SettledInv, NEW p \in Passes, Passes = {p}, Finish(p),
           NEW m \in Nat, m = pass[p].to,
           UNCHANGED <<log, left>>, ShownBelow(m + 1)'
    PROVE  SettledInv'
  <1>1. dbBlock' = m /\ memBlock' = m /\ pass'[p].at = "idle"
    BY DEF Finish, Idle, IndInv, TypeOK
  <1>2. LogTells'
    BY DEF SettledInv, LogTells
  <1>3. ShownBelow(memBlock + 1)'
    BY <1>1
  <1>4. Settles(p)'
    BY <1>1, <1>3 DEF Settles, Stage
  <1>5. MayFail'
    BY <1>1 DEF SettledInv, MayFail
  <1> QED
    BY <1>2, <1>4, <1>5 DEF SettledInv

LEMMA SettledFindRemoved ==
    ASSUME IndInv, SettledInv, NEW p \in Passes, Passes = {p}, FindRemoved(p)
    PROVE  SettledInv'
  <1> PICK n \in Nat, m \in Nat : n = pass[p].from /\ m = pass[p].to
    BY NumbersOf
  <1>1. UNCHANGED <<log, creds, issuers, left>> /\ pass[p].at = "Removed"
    BY DEF FindRemoved, chain, tables
  <1>2. ShownBelow(n)' /\ RevokedUpTo(m)'
    <2>1. ShownBelow(n) /\ RevokedUpTo(m)
      BY <1>1 DEF SettledInv, Settles, Stage
    <2> QED
      BY <1>1, <2>1, ShownStays
  <1>3. CASE Found(p, "Removed") = {} /\ Finish(p)
    <2>1. \A i \in DOMAIN log : log[i].kind = "Removed" => ~ InRange(p, i)
      BY <1>3 DEF Found
    <2>2. ShownBelow(m + 1)'
      BY <1>1, <1>2, <2>1, RangeShown
    <2> QED
      BY <1>1, <1>3, <2>2, SettledFinish
  <1>4. CASE /\ pass' = [pass EXCEPT ![p] =
                   [@ EXCEPT !.at = "RemovedBlock", !.todo = Found(p, "Removed")]]
             /\ UNCHANGED <<marks, live>>
    <2> DEFINE pl == [pass[p] EXCEPT !.at = "RemovedBlock", !.todo = Found(p, "Removed")]
    <2>1. pass' = [pass EXCEPT ![p] = pl] /\ UNCHANGED <<dbBlock, memBlock>>
      BY <1>4 DEF marks
    <2>2. /\ pl.at = "RemovedBlock" /\ pl.full = pass[p].full /\ pl.from = n /\ pl.to = m
          /\ pl.todo = Found(p, "Removed")
      BY NumbersOf DEF Place
    <2> HIDE DEF pl
    <2>3. ASSUME NEW i \in (DOMAIN log) \ pl.todo, log[i].kind = "Removed", InRange(p, i)
          PROVE  FALSE
      BY <2>2, <2>3 DEF Found
    <2> QED
      BY <1>1, <1>2, <2>1, <2>2, <2>3, SettledStage DEF Stage
  <1> QED
    BY <1>3, <1>4 DEF FindRemoved

LEMMA SettledSyncRemoved ==
    ASSUME IndInv, SettledInv, NEW p \in Passes, Passes = {p}, SyncRemoved(p)
    PROVE  SettledInv'
  <1> PICK n \in Nat, m \in Nat : n = pass[p].from /\ m = pass[p].to
    BY NumbersOf
  <1>1. UNCHANGED <<log, creds, left>> /\ pass[p].at = "RemovedBlock"
    BY DEF SyncRemoved, chain
  <1> PICK j \in DOMAIN log :
          /\ UpdateRemoved(log[j].of)
          /\ \/ pass[p].todo = {j} /\ Finish(p)
             \/ /\ pass' = [pass EXCEPT ![p] = [@ EXCEPT !.todo = pass[p].todo \ {j}]]
                /\ UNCHANGED <<marks, live>>
    BY DEF SyncRemoved
  <1>2. /\ ShownBelow(n) /\ RevokedUpTo(m) /\ LogTells /\ Below(m + 1)
        /\ \A i \in (DOMAIN log) \ pass[p].todo :
             Last(i) /\ log[i].kind = "Removed" /\ InRange(p, i) => issuers[log[i].of] = "inactive"
    BY <1>1 DEF SettledInv, Settles, Stage, IndInv, PassInv, Stored
  <1>3. ShownBelow(n)'
    BY <1>1, <1>2, RemovedAfter
  <1>4. RevokedUpTo(m)'
    BY <1>1, <1>2 DEF RevokedUpTo, Last
  <1>5. ASSUME NEW i \in DOMAIN log, i \notin pass[p].todo \ {j},
               Last(i), log[i].kind = "Removed", InRange(p, i)
        PROVE  issuers'[log[i].of] = "inactive"
    <2>1. log[i].of \in Accounts /\ issuers[log[i].of] # "absent"
      BY <1>2, <1>5, RowToRemove DEF InRange
    <2>2. issuers \in [Accounts -> {"absent", "active", "inactive"}]
      BY DEF IndInv, TypeOK
    <2>3. CASE i = j
      BY <2>1, <2>2, <2>3 DEF UpdateRemoved
    <2>4. CASE i # j
      <3>1. issuers[log[i].of] = "inactive"
        BY <1>2, <1>5, <2>4
      <3> QED
        BY <2>1, <2>2, <3>1 DEF UpdateRemoved
    <2> QED
      BY <2>3, <2>4
  <1>6. CASE pass[p].todo = {j} /\ Finish(p)
    <2>1. \A i \in DOMAIN log :
             Last(i) /\ log[i].kind = "Removed" /\ InRange(p, i)
                => issuers'[log[i].of] = "inactive"
      BY <1>5, <1>6
    <2>2. ShownBelow(m + 1)'
      BY <1>1, <1>3, <1>4, <2>1, RangeShown
    <2> QED
      BY <1>1, <1>6, <2>2, SettledFinish
  <1>7. CASE /\ pass' = [pass EXCEPT ![p] = [@ EXCEPT !.todo = pass[p].todo \ {j}]]
             /\ UNCHANGED <<marks, live>>
    <2> DEFINE pl == [pass[p] EXCEPT !.todo = pass[p].todo \ {j}]
    <2>1. pass' = [pass EXCEPT ![p] = pl] /\ UNCHANGED <<dbBlock, memBlock>>
      BY <1>7 DEF marks
    <2>2. /\ pl.at = "RemovedBlock" /\ pl.full = pass[p].full /\ pl.from = n /\ pl.to = m
          /\ pl.todo = pass[p].todo \ {j}
      BY <1>1, NumbersOf DEF Place
    <2> HIDE DEF pl
    <2>3. \A i \in (DOMAIN log) \ pl.todo :
             Last(i) /\ log[i].kind = "Removed" /\ InRange(p, i)
                => issuers'[log[i].of] = "inactive"
      BY <1>5, <2>2
    <2> QED
      BY <1>1, <1>3, <1>4, <2>1, <2>2, <2>3, SettledStage DEF Stage
  <1> QED
    BY <1>6, <1>7

-----------------------------------------------------------------------------
(* The theorem about withdrawals. *)

LEMMA SettledRest ==
    ASSUME IndInv, SettledInv, NEW p \in Passes, Passes = {p},
           UNCHANGED <<log, creds, issuers, dbBlock, memBlock, pass, left>>
    PROVE  SettledInv'
  <1> PICK n \in Nat, m \in Nat, k \in Nat :
          n = pass[p].from /\ m = pass[p].to /\ k = memBlock + 1
    BY NumbersOf
  <1>1. /\ ShownBelow(n) => ShownBelow(n)'
        /\ ShownBelow(k) => ShownBelow(k)'
        /\ ShownBelow(dbBlock) => ShownBelow(dbBlock)'
        /\ RevokedUpTo(m) => RevokedUpTo(m)'
        /\ LogTells'
    BY ShownStays, NumbersOf DEF SettledInv
  <1>2. \A i \in DOMAIN log : (Last(i)' <=> Last(i)) /\ (InRange(p, i)' <=> InRange(p, i))
    BY DEF Last, InRange
  <1>3. MayFail'
    BY DEF SettledInv, MayFail
  <1>4. ASSUME pass[p].at = "AddedBlock", NEW i \in pass[p].todo
        PROVE  InRange(p, i)'
    <2>1. InRange(p, i)
      BY <1>4 DEF SettledInv, Settles
    <2> QED
      BY <2>1 DEF InRange
  <1>5. Settles(p)
    BY DEF SettledInv
  <1>6. Settles(p)'
    BY <1>1, <1>2, <1>4, <1>5 DEF Settles
  <1> QED
    BY <1>1, <1>3, <1>6 DEF SettledInv

LEMMA SettledInductive ==
    ASSUME OnePassAtATime, IndInv, SettledInv, [Next]_vars
    PROVE  SettledInv'
  <1> PICK p : Passes = {p}
    BY DEF OnePassAtATime
  <1>p. p \in Passes
    OBVIOUS
  <1>1. CASE Mine
    BY <1>p, <1>1, SettledMine
  <1>2. ASSUME NEW a \in Named, PrepareIssuer(a) PROVE SettledInv'
    BY <1>p, <1>2, SettledRest DEF PrepareIssuer, chain, marks
  <1>3. CASE StartIncremental(p)
    BY <1>p, <1>3, SettledStartIncremental
  <1>4. CASE StartForced(p)
    BY <1>p, <1>4, SettledStartForced
  <1>5. CASE Proceed(p)
    BY <1>p, <1>5, SettledNothingNew, SettledRangeKnown, SettledSyncIssued,
       SettledSyncRevoked, SettledFindAdded, SettledSyncAdded, SettledFindRemoved,
       SettledSyncRemoved DEF Proceed
  <1>6. CASE Fail(p)
    BY <1>p, <1>6, SettledFail
  <1>7. CASE Restart(p)
    BY <1>p, <1>7, SettledRestart
  <1>8. ASSUME NEW kind \in Kind, Deliver(kind) PROVE SettledInv'
    BY <1>8 DEF Deliver, OnePassAtATime
  <1>9. ASSUME NEW h \in handlers, RunHandler(h) PROVE SettledInv'
    BY <1>9 DEF OnePassAtATime, IndInv, HandlersInv
  <1>10. CASE UNCHANGED vars
    BY <1>p, <1>10, SettledRest DEF vars, chain, tables, marks
  <1> QED
    BY <1>1, <1>2, <1>3, <1>4, <1>5, <1>6, <1>7, <1>8, <1>9, <1>10 DEF Next

LEMMA SettledInitial == OnePassAtATime /\ Init => SettledInv
  <1> SUFFICES ASSUME OnePassAtATime, Init PROVE SettledInv
    OBVIOUS
  <1> PICK p : Passes = {p}
    BY DEF OnePassAtATime
  <1>1. DOMAIN log = {} /\ memBlock = 0 /\ dbBlock = 0
    BY DEF Init
  <1>2. pass[p].at = "head" /\ pass[p].full = TRUE /\ pass[p].from = 0
    BY DEF Init, Asking
  <1>3. LogTells /\ \A n : ShownBelow(n)
    BY <1>1 DEF LogTells, ShownBelow
  <1>4. Settles(p)
    BY <1>1, <1>2, <1>3 DEF Settles, Stage
  <1>5. MayFail
    <2>1. /\ left["failures"] = Failures /\ left["restarts"] = Restarts
          /\ left["forced"] = Forced
      BY DEF Init, Bound
    <2> QED
      BY <1>1, <2>1 DEF MayFail, OnePassAtATime
  <1> QED
    BY <1>3, <1>4, <1>5 DEF SettledInv

\* With one pass at a time, whatever is restarted, forced or cut short within
\* the assumption, no replay of an older event brings back what the chain has
\* revoked or removed for good by the last block synced.
THEOREM WithdrawalsStay ==
    ASSUME OnePassAtATime
    PROVE  Spec => []WithdrawalsAreShown
  <1> DEFINE Inv == IndInv /\ SettledInv
  <1>1. Init => Inv
    BY Initial, SettledInitial DEF OnePassAtATime, MarksAreLeftToPasses
  <1>2. Inv /\ [Next]_vars => Inv'
    BY Inductive, SettledInductive DEF OnePassAtATime, MarksAreLeftToPasses
  <1>3. Inv => WithdrawalsAreShown
    <2> SUFFICES ASSUME IndInv, SettledInv, Quiet, NEW i \in DOMAIN log, Settled(i)
                 PROVE  /\ log[i].kind = "Revoked" => creds[log[i].of] = "revoked"
                        /\ log[i].kind = "Removed" => issuers[log[i].of] = "inactive"
      BY DEF WithdrawalsAreShown
    <2> PICK p : Passes = {p}
      BY DEF OnePassAtATime
    <2>1. ShownBelow(memBlock + 1)
      BY DEF Quiet, Running, SettledInv, Settles, Stage
    <2>2. Last(i) /\ log[i].block < memBlock + 1
      BY NumbersOf DEF Settled, Last
    <2> QED
      BY <2>1, <2>2 DEF ShownBelow, ShownAt
  <1> HIDE DEF Inv
  <1> QED
    BY <1>1, <1>2, <1>3, PTL DEF Spec

=============================================================================
