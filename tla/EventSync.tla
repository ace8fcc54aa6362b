------------------------------ MODULE EventSync ------------------------------
(***************************************************************************)
(* BlockchainSyncService: the issuer server's index, in its database, of   *)
(* the diamond's events.  Passes over block ranges (at startup, by timer,  *)
(* at a login that finds no issuer, by an administrator's request) and the *)
(* provider's live listeners write the same rows.                          *)
(*                                                                         *)
(* A step runs from one answer of the node to the next request: the sql.js *)
(* adapter answers in the same turn, so nothing else runs between two of   *)
(* its calls.  The chain emits what the facets may emit (CredentialStatus  *)
(* and TrustedIssuers show LogInOrder and LogAlternates of them).          *)
(***************************************************************************)
EXTENDS Naturals, Sequences, FiniteSets

CONSTANTS
    Credentials,    \* VC hashes
    Accounts,       \* addresses of issuers
    Named,          \* those an administrator names before adding them
    Passes,         \* the calls of initializeSync and syncIncremental in flight
    Listening,      \* whether the provider's polling delivers anything
    StartBlocks,    \* fromBlock of a forced sync, 0 for none
    MaxBlock,       \* bound: blocks mined
    MaxPerBlock,    \* bound: events in a block
    Restarts,       \* bound: restarts of the server
    Failures,       \* bound: requests the node fails
    Forced          \* bound: forced syncs

ASSUME SubjectsAssumption == Credentials \cap Accounts = {}
ASSUME NamedAssumption == Named \subseteq Accounts
ASSUME ListeningAssumption == Listening \in BOOLEAN
ASSUME StartBlocksAssumption == StartBlocks \subseteq Nat
ASSUME BoundsAssumption ==
    /\ MaxBlock \in Nat /\ MaxPerBlock \in Nat
    /\ Restarts \in Nat /\ Failures \in Nat /\ Forced \in Nat

VARIABLES
    log,        \* the diamond's events, each with its block
    head,       \* the last block mined
    creds,      \* table blockchain_credentials: is_revoked of each hash
    issuers,    \* table blockchain_trusted_issuers: is_active of each address
    named,      \* whether its row has a name
    pending,    \* table pending_issuer_metadata
    dbBlock,    \* table sync_state: last_synced_block
    memBlock,   \* syncState.lastSyncedBlock
    syncing,    \* syncState.isSyncing
    seen,       \* the provider's greatest answer to getBlockNumber
    pass,       \* where each pass is
    listeners,  \* how often startEventListeners registered its handlers
    cursor,     \* per event filter, the last entry of log it delivered
    handlers,   \* the handlers that wait to run: <<entry of log, registration>>
    left        \* what the bounds still allow

chain == <<log, head>>
tables == <<creds, issuers, named, pending>>
marks == <<dbBlock, memBlock, syncing, seen>>
live == <<listeners, cursor, handlers>>
vars == <<chain, tables, marks, pass, live, left>>

Kind == {"Issued", "Revoked", "Added", "Removed"}
About(kind) == IF kind \in {"Issued", "Revoked"} THEN Credentials ELSE Accounts
Event == {e \in [kind : Kind, of : Credentials \cup Accounts] : e.of \in About(e.kind)}
Entry == [kind : Kind, of : Credentials \cup Accounts, block : Nat]

\* The awaits of a pass: the head, then a query per event, and for the events
\* about issuers the block of each event found.
Stage == {"Issued", "Revoked", "Added", "AddedBlock", "Removed", "RemovedBlock"}

Place == [at : Stage \cup {"idle", "head"}, full : BOOLEAN,
          from : Nat, to : Nat, todo : SUBSET Nat]

Idle == [at |-> "idle", full |-> FALSE, from |-> 0, to |-> 0, todo |-> {}]

Bound == {"blocks", "restarts", "failures", "forced"}

TypeOK ==
    /\ log \in Seq(Entry)
    /\ head \in Nat
    /\ creds \in [Credentials -> {"absent", "valid", "revoked"}]
    /\ issuers \in [Accounts -> {"absent", "active", "inactive"}]
    /\ named \in [Accounts -> BOOLEAN]
    /\ pending \in [Accounts -> BOOLEAN]
    /\ dbBlock \in Nat /\ memBlock \in Nat /\ syncing \in BOOLEAN /\ seen \in Nat
    /\ pass \in [Passes -> Place]
    /\ listeners \in Nat
    /\ cursor \in [Kind -> Nat]
    /\ handlers \subseteq Nat \X Nat
    /\ left \in [Bound -> Nat]

Running(p) == pass[p].at # "idle"
Spend(what) == left[what] > 0 /\ left' = [left EXCEPT ![what] = @ - 1]

-----------------------------------------------------------------------------
(* The chain: a block comes with all its events. *)

\* What the facets emit: a hash is issued once and revoked once, later; an
\* issuer is added and removed in turns.
MayFollow(l, e) ==
    LET of(kind) == {i \in DOMAIN l : l[i].kind = kind /\ l[i].of = e.of}
    IN  CASE e.kind = "Issued"  -> of("Issued") = {}
          [] e.kind = "Revoked" -> of("Issued") # {} /\ of("Revoked") = {}
          [] e.kind = "Added"   -> Cardinality(of("Added")) = Cardinality(of("Removed"))
          [] e.kind = "Removed" -> Cardinality(of("Added")) > Cardinality(of("Removed"))

Mined(es) == [n \in DOMAIN es |->
                [kind |-> es[n].kind, of |-> es[n].of, block |-> head + 1]]

Mine ==
    /\ Spend("blocks")
    /\ \E n \in 0 .. MaxPerBlock : \E es \in [1 .. n -> Event] :
          /\ \A k \in 1 .. n :
                MayFollow(log \o SubSeq(Mined(es), 1, k - 1), es[k])
          /\ log' = log \o Mined(es)
    /\ head' = head + 1
    /\ UNCHANGED <<tables, marks, pass, live>>

-----------------------------------------------------------------------------
(* The tables. *)

\* INSERT OR REPLACE: an event seen again makes its row anew.
InsertIssued(hashes) ==
    creds' = [c \in Credentials |-> IF c \in hashes THEN "valid" ELSE creds[c]]

\* UPDATE ... WHERE credential_hash = ?: no row, no effect.
UpdateRevoked(hashes) ==
    creds' = [c \in Credentials |->
                IF c \in hashes /\ creds[c] # "absent" THEN "revoked" ELSE creds[c]]

\* The pending name, if any, is consumed; the row gets it or none.
InsertAdded(a) ==
    /\ issuers' = [issuers EXCEPT ![a] = "active"]
    /\ named' = [named EXCEPT ![a] = pending[a]]
    /\ pending' = [pending EXCEPT ![a] = FALSE]

UpdateRemoved(a) ==
    /\ issuers' = [issuers EXCEPT ![a] = IF @ = "absent" THEN @ ELSE "inactive"]
    /\ UNCHANGED <<named, pending>>

Apply(e) ==
    \/ e.kind = "Issued" /\ InsertIssued({e.of}) /\ UNCHANGED <<issuers, named, pending>>
    \/ e.kind = "Revoked" /\ UpdateRevoked({e.of}) /\ UNCHANGED <<issuers, named, pending>>
    \/ e.kind = "Added" /\ InsertAdded(e.of) /\ UNCHANGED creds
    \/ e.kind = "Removed" /\ UpdateRemoved(e.of) /\ UNCHANGED creds

\* POST issuers/prepare: the administrator names an issuer before adding it.
PrepareIssuer(a) ==
    /\ ~ pending[a]
    /\ pending' = [pending EXCEPT ![a] = TRUE]
    /\ UNCHANGED <<chain, creds, issuers, named, marks, pass, live, left>>

-----------------------------------------------------------------------------
(* A pass. *)

\* startBlock || lastBlock || 0, read before the head is asked for.
Asking(start) == [at |-> "head", full |-> TRUE,
                  from |-> IF start # 0 THEN start ELSE dbBlock,
                  to |-> head, todo |-> {}]

\* The timer, or a login that found no issuer.
StartIncremental(p) ==
    /\ ~ Running(p) /\ ~ syncing
    /\ pass' = [pass EXCEPT ![p] = [Idle EXCEPT !.at = "head", !.to = head]]
    /\ UNCHANGED <<chain, tables, marks, live, left>>

\* POST blockchain/sync with force.
StartForced(p) ==
    /\ ~ Running(p)
    /\ Spend("forced")
    /\ \E start \in StartBlocks : pass' = [pass EXCEPT ![p] = Asking(start)]
    /\ UNCHANGED <<chain, tables, marks, live>>

\* The node's answer may be as old as the request, but the provider never
\* returns less than it did before.
Heads(p) == {b \in pass[p].to .. head : b >= seen}

\* An incremental pass starts after the last block of memory as it is by now.
From(p) == IF pass[p].full THEN pass[p].from ELSE memBlock + 1

NothingNew(p) ==
    /\ pass[p].at = "head" /\ ~ pass[p].full
    /\ \E current \in Heads(p) : From(p) > current /\ seen' = current
    /\ pass' = [pass EXCEPT ![p] = Idle]
    /\ UNCHANGED <<chain, tables, dbBlock, memBlock, syncing, live, left>>

\* Fault: the range is marked as synced before its events are stored.
MarkedEarly(p) ==
    /\ pass[p].at = "head"
    /\ \E current \in Heads(p) :
          /\ pass[p].full \/ From(p) =< current
          /\ pass' = [pass EXCEPT ![p] =
                [@ EXCEPT !.at = "Issued", !.from = From(p), !.to = current]]
          /\ seen' = current /\ dbBlock' = current
    /\ syncing' = TRUE
    /\ UNCHANGED <<chain, tables, memBlock, live, left>>

RangeKnown(p) ==
    /\ pass[p].at = "head"
    /\ \E current \in Heads(p) :
          /\ pass[p].full \/ From(p) =< current
          /\ pass' = [pass EXCEPT ![p] =
                [@ EXCEPT !.at = "Issued", !.from = From(p), !.to = current]]
          /\ seen' = current
    /\ syncing' = TRUE
    /\ UNCHANGED <<chain, tables, dbBlock, memBlock, live, left>>

\* Fault: the last block of a range is left out.
BeforeLast(p, i) == pass[p].from =< log[i].block /\ log[i].block < pass[p].to

\* queryFilter(kind, from, to), as entries of the log.
InRange(p, i) == pass[p].from =< log[i].block /\ log[i].block =< pass[p].to
Found(p, kind) == {i \in DOMAIN log : log[i].kind = kind /\ InRange(p, i)}
Subjects(p, kind) == {log[i].of : i \in Found(p, kind)}

\* A loop over the events found goes on with the first left.
NextTodo(p, i) == i \in pass[p].todo /\ \A j \in pass[p].todo : i =< j

SyncIssued(p) ==
    /\ pass[p].at = "Issued"
    /\ InsertIssued(Subjects(p, "Issued"))
    /\ pass' = [pass EXCEPT ![p].at = "Revoked"]
    /\ UNCHANGED <<chain, issuers, named, pending, marks, live, left>>

SyncRevoked(p) ==
    /\ pass[p].at = "Revoked"
    /\ UpdateRevoked(Subjects(p, "Revoked"))
    /\ pass' = [pass EXCEPT ![p].at = "Added"]
    /\ UNCHANGED <<chain, issuers, named, pending, marks, live, left>>

FindAdded(p) ==
    /\ pass[p].at = "Added"
    /\ pass' = [pass EXCEPT ![p] =
          [@ EXCEPT !.at = IF Found(p, "Added") = {} THEN "Removed" ELSE "AddedBlock",
                    !.todo = Found(p, "Added")]]
    /\ UNCHANGED <<chain, tables, marks, live, left>>

SyncAdded(p) ==
    /\ pass[p].at = "AddedBlock"
    /\ \E i \in DOMAIN log :
          /\ NextTodo(p, i)
          /\ InsertAdded(log[i].of)
          /\ pass' = [pass EXCEPT ![p] =
                [@ EXCEPT !.at = IF pass[p].todo = {i} THEN "Removed" ELSE "AddedBlock",
                          !.todo = pass[p].todo \ {i}]]
    /\ UNCHANGED <<chain, creds, marks, live, left>>

\* Fault: the marks are set to the head as it is by now.
FinishedAtHead(p) ==
    /\ pass' = [pass EXCEPT ![p] = Idle]
    /\ dbBlock' = head /\ memBlock' = head /\ syncing' = FALSE
    /\ UNCHANGED <<seen, live>>

\* The end of a pass: both marks, and for initializeSync the listeners, which
\* hear of no block before the head of that moment.
Finish(p) ==
    /\ pass' = [pass EXCEPT ![p] = Idle]
    /\ dbBlock' = pass[p].to /\ memBlock' = pass[p].to /\ syncing' = FALSE
    /\ UNCHANGED seen
    /\ IF pass[p].full
       THEN /\ listeners' = listeners + 1
            /\ cursor' = IF listeners > 0 THEN cursor
                         ELSE [k \in Kind |-> Cardinality({i \in DOMAIN log : log[i].block < head})]
       ELSE UNCHANGED <<listeners, cursor>>
    /\ UNCHANGED handlers

FindRemoved(p) ==
    /\ pass[p].at = "Removed"
    /\ \/ /\ Found(p, "Removed") = {}
          /\ Finish(p)
       \/ /\ Found(p, "Removed") # {}
          /\ pass' = [pass EXCEPT ![p] =
                [@ EXCEPT !.at = "RemovedBlock", !.todo = Found(p, "Removed")]]
          /\ UNCHANGED <<marks, live>>
    /\ UNCHANGED <<chain, tables, left>>

SyncRemoved(p) ==
    /\ pass[p].at = "RemovedBlock"
    /\ \E i \in DOMAIN log :
          /\ NextTodo(p, i)
          /\ UpdateRemoved(log[i].of)
          /\ \/ pass[p].todo = {i} /\ Finish(p)
             \/ /\ pass[p].todo # {i}
                /\ pass' = [pass EXCEPT ![p] = [@ EXCEPT !.todo = pass[p].todo \ {i}]]
                /\ UNCHANGED <<marks, live>>
    /\ UNCHANGED <<chain, creds, left>>

\* Fault: no finally.
FailedWhileSyncing(p) ==
    /\ Running(p)
    /\ Spend("failures")
    /\ pass' = [pass EXCEPT ![p] = Idle]
    /\ UNCHANGED <<chain, tables, marks, live>>

\* A request of the pass fails: catch, finally, and the caller logs it.
Fail(p) ==
    /\ Running(p)
    /\ Spend("failures")
    /\ syncing' = (IF pass[p].at = "head" THEN syncing ELSE FALSE)
    /\ pass' = [pass EXCEPT ![p] = Idle]
    /\ UNCHANGED <<chain, tables, dbBlock, memBlock, seen, live>>

-----------------------------------------------------------------------------
(* The listeners. *)

\* The provider polls each filter by itself: it delivers an event at most once,
\* in the order of its filter, and may miss some.
Deliver(kind) ==
    /\ Listening /\ listeners > 0
    /\ \E i \in DOMAIN log :
          /\ log[i].kind = kind /\ i > cursor[kind]
          /\ cursor' = [cursor EXCEPT ![kind] = i]
          /\ handlers' = handlers \cup ({i} \X (1 .. listeners))
    /\ UNCHANGED <<chain, tables, marks, pass, listeners, left>>

\* Handlers of credential events run in turn; those of issuer events await a
\* block first, and the answers come in any order.
MayRun(h) ==
    log[h[1]].kind \in {"Issued", "Revoked"} =>
        \A g \in handlers : log[g[1]].kind = log[h[1]].kind => h[1] =< g[1]

RunHandler(h) ==
    /\ MayRun(h)
    /\ Apply(log[h[1]])
    /\ dbBlock' = log[h[1]].block
    /\ handlers' = handlers \ {h}
    /\ UNCHANGED <<chain, memBlock, syncing, seen, pass, listeners, cursor, left>>

-----------------------------------------------------------------------------
\* The process dies (a handler whose getBlock fails is an unhandled rejection)
\* and comes back with its tables and a first pass.
Restart(p) ==
    /\ Spend("restarts")
    /\ memBlock' = 0 /\ syncing' = FALSE /\ seen' = 0
    /\ pass' = [q \in Passes |-> IF q = p THEN Asking(0) ELSE Idle]
    /\ listeners' = 0 /\ cursor' = [k \in Kind |-> 0] /\ handlers' = {}
    /\ UNCHANGED <<chain, tables, dbBlock>>

Init ==
    /\ log = <<>> /\ head = 0
    /\ creds = [c \in Credentials |-> "absent"]
    /\ issuers = [a \in Accounts |-> "absent"]
    /\ named = [a \in Accounts |-> FALSE] /\ pending = [a \in Accounts |-> FALSE]
    /\ dbBlock = 0 /\ memBlock = 0 /\ syncing = FALSE /\ seen = 0
    /\ \E p \in Passes : pass = [q \in Passes |-> IF q = p THEN Asking(0) ELSE Idle]
    /\ listeners = 0 /\ cursor = [k \in Kind |-> 0] /\ handlers = {}
    /\ left = [b \in Bound |->
                 CASE b = "blocks" -> MaxBlock [] b = "restarts" -> Restarts
                   [] b = "failures" -> Failures [] b = "forced" -> Forced]

\* What the node's answers make a pass do.
Proceed(p) ==
    \/ NothingNew(p) \/ RangeKnown(p)
    \/ SyncIssued(p) \/ SyncRevoked(p)
    \/ FindAdded(p) \/ SyncAdded(p)
    \/ FindRemoved(p) \/ SyncRemoved(p)

Next ==
    \/ Mine
    \/ \E a \in Named : PrepareIssuer(a)
    \/ \E p \in Passes : StartIncremental(p) \/ StartForced(p) \/ Proceed(p) \/ Fail(p) \/ Restart(p)
    \/ \E kind \in Kind : Deliver(kind)
    \/ \E h \in handlers : RunHandler(h)

Spec == Init /\ [][Next]_vars

\* The timer never stops, and the node answers or fails every request.
Fair == \A p \in Passes : WF_vars(StartIncremental(p)) /\ WF_vars(Proceed(p))
FairSpec == Spec /\ Fair

-----------------------------------------------------------------------------
(* What the index promises. *)

HasRow(e) ==
    /\ e.kind = "Issued" => creds[e.of] # "absent"
    /\ e.kind = "Added" => issuers[e.of] # "absent"

\* Everything issued or added in a block up to the last one synced has its row:
\* the mark of memory never passes a block whose events were not stored,
\* whatever passes overlap and fail.
SyncedIsIndexed ==
    \A i \in DOMAIN log : log[i].block =< memBlock => HasRow(log[i])

\* isSyncing is on only while a pass works: were it left on, every later pass
\* would be skipped.
SyncingIsTemporary == syncing => \E p \in Passes : pass[p].at \in Stage

Quiet == handlers = {} /\ \A p \in Passes : ~ Running(p)

\* The last word of the chain about an account or hash, in a block synced.
Settled(i) == /\ log[i].block =< memBlock
              /\ \A j \in DOMAIN log : log[j].of = log[i].of => j =< i

\* Between passes, what the chain has revoked or removed for good by the last
\* block synced is shown so: no replay of an older event brings it back.
WithdrawalsAreShown ==
    Quiet => \A i \in DOMAIN log : Settled(i) =>
        /\ log[i].kind = "Revoked" => creds[log[i].of] = "revoked"
        /\ log[i].kind = "Removed" => issuers[log[i].of] = "inactive"

\* Between passes, an issuer the chain trusts since a block synced is active:
\* a login is offered the issuer's role.
AdditionsAreShown ==
    Quiet => \A i \in DOMAIN log : Settled(i) =>
        (log[i].kind = "Added" => issuers[log[i].of] = "active")

\* The name an administrator gave an issuer stays in its row while it is trusted.
\* It does not hold once a listener and a pass handle the same IssuerAdded.
NamesStay ==
    [][\A a \in Accounts : named[a] /\ issuers[a] = "active" => named'[a]]_vars

\* Every revocation on chain ends up in the index and stays there.
RevocationsArrive ==
    \A c \in Credentials :
        (\E i \in DOMAIN log : log[i].kind = "Revoked" /\ log[i].of = c)
            ~> (creds[c] = "revoked" /\ Quiet)

=============================================================================
