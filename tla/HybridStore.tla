----------------------------- MODULE HybridStore ----------------------------
(***************************************************************************)
(* HybridCredentialService: per kind of event an index file, a file for    *)
(* each credential and a SQLite table, filled by syncs over the chain and  *)
(* by listeners that do not touch the index.                               *)
(*                                                                         *)
(* A sync takes the issuances and then the revocations.  The registries    *)
(* are not in the repository: each emits an event once per credential and  *)
(* a revocation comes after the issuance.  A block holds one event.        *)
(***************************************************************************)
EXTENDS Naturals, Sequences, FiniteSets

CONSTANTS
    Creds,
    Syncs,      \* syncs that may run at once
    Boot,       \* the one of them that start makes
    MaxHead     \* bound: the head of the chain

ASSUME HybridAssumption == Boot \in Syncs /\ MaxHead \in Nat

Kinds == {"issued", "revoked"}

VARIABLES
    chain,      \* the events, block by block
    index,      \* hybrid-state/<kind>-index.json
    files,      \* onchain/<kind>/<vcHash>.json
    table,      \* tables credentials and revocations
    syncs,      \* what each sync holds, by its phase
    listenersBound,
    given,      \* blocks whose event the listeners were given
    filed       \* of these, the ones in their file and not yet tried in the table

hybridVars == <<chain, index, files, table, syncs, listenersBound, given, filed>>

Registered == [kind : Kinds, vc : Creds]
\* Of the records, whether a credential has one: each reading adds another.
Index == [mark : Nat, records : SUBSET Creds]

NoSync == [phase |-> "idle"]
Begun == [phase : {"begun"}, kind : Kinds, forced : BOOLEAN]
StoringEvents ==
    [phase : {"storing"}, kind : Kinds, forced : BOOLEAN,
     base : Index, next : Nat, latest : Nat, filed : BOOLEAN]
ReadingIndex == [phase : {"reading"}, kind : Kinds, forced : BOOLEAN, base : Index]

HybridTypeOK ==
    /\ chain \in Seq(Registered)
    /\ index \in [Kinds -> Index]
    /\ files \in [Kinds -> SUBSET Creds] /\ table \in [Kinds -> SUBSET Creds]
    /\ syncs \in [Syncs -> {NoSync} \cup Begun \cup ReadingIndex \cup StoringEvents]
    /\ listenersBound \in BOOLEAN
    /\ given \subseteq Nat /\ filed \subseteq Nat

Emitted(kind) == {chain[b].vc : b \in {c \in DOMAIN chain : chain[c].kind = kind}}

-----------------------------------------------------------------------------
(* The registries. *)

Register(kind, vc) ==
    /\ Len(chain) < MaxHead /\ vc \notin Emitted(kind)
    /\ kind = "revoked" => vc \in Emitted("issued")
    /\ chain' = Append(chain, [kind |-> kind, vc |-> vc])
    /\ given' = IF listenersBound THEN given \cup {Len(chain')} ELSE given
    /\ UNCHANGED <<index, files, table, syncs, listenersBound, filed>>

-----------------------------------------------------------------------------
(* A record is written to its file, and then the table is tried. *)

WriteFile(kind, vc) == files' = [files EXCEPT ![kind] = @ \cup {vc}]

\* A revocation refers to its credential's row.  Whatever SQLite throws is caught
\* and ignored, and the service may run without the table (sqlEnabled, or an error
\* as it is opened): one that refuses every row.
TryRow(kind, vc) ==
    \/ UNCHANGED table
    \/ /\ kind = "revoked" => vc \in table["issued"]
       /\ table' = [table EXCEPT ![kind] = @ \cup {vc}]

-----------------------------------------------------------------------------
(* syncCredentialEvents, then syncRevocationEvents. *)

\* start, or admin/resync, which is forced.
StartSync(p) ==
    /\ syncs[p] = NoSync
    /\ p = Boot => ~ listenersBound
    /\ syncs' = [syncs EXCEPT ![p] =
           [phase |-> "begun", kind |-> "issued", forced |-> p # Boot]]
    /\ UNCHANGED <<chain, index, files, table, listenersBound, given, filed>>

ReadIndex(p) ==
    /\ syncs[p].phase = "begun"
    /\ LET q == syncs[p]
       IN  syncs' = [syncs EXCEPT ![p] =
               [phase |-> "reading", kind |-> q.kind, forced |-> q.forced,
                base |-> index[q.kind]]]
    /\ UNCHANGED <<chain, index, files, table, listenersBound, given, filed>>

\* The first block from b on, of those up to latest, with an event of a kind.
NextBlock(kind, b, latest) ==
    LET blocks == {c \in DOMAIN chain : b =< c /\ c =< latest /\ chain[c].kind = kind}
    IN  IF blocks = {} THEN latest + 1 ELSE CHOOSE c \in blocks : \A d \in blocks : c =< d

\* Nothing new: everything is read again.
QueryEvents(p) ==
    /\ syncs[p].phase = "reading"
    /\ LET q == syncs[p]
           mark == IF q.forced THEN 0 ELSE q.base.mark
           start == IF Len(chain) < mark THEN 0 ELSE mark
           events == {b \in DOMAIN chain : start =< b /\ chain[b].kind = q.kind}
       IN  syncs' = [syncs EXCEPT ![p] =
               [phase |-> "storing", kind |-> q.kind, forced |-> q.forced,
                base |-> [mark |-> Len(chain) + 1,
                          records |-> q.base.records \cup {chain[b].vc : b \in events}],
                next |-> NextBlock(q.kind, start, Len(chain)), latest |-> Len(chain),
                filed |-> FALSE]]
    /\ UNCHANGED <<chain, index, files, table, listenersBound, given, filed>>

StoreEvent(p) ==
    /\ syncs[p].phase = "storing"
    /\ syncs[p].next =< syncs[p].latest /\ ~ syncs[p].filed
    /\ WriteFile(syncs[p].kind, chain[syncs[p].next].vc)
    /\ syncs' = [syncs EXCEPT ![p].filed = TRUE]
    /\ UNCHANGED <<chain, index, table, listenersBound, given, filed>>

StoreRow(p) ==
    /\ syncs[p].phase = "storing" /\ syncs[p].filed
    /\ TryRow(syncs[p].kind, chain[syncs[p].next].vc)
    /\ syncs' = [syncs EXCEPT ![p].filed = FALSE,
                             ![p].next = NextBlock(syncs[p].kind, @ + 1, syncs[p].latest)]
    /\ UNCHANGED <<chain, index, files, listenersBound, given, filed>>

Stored(p) == syncs[p].phase = "storing" /\ syncs[p].next > syncs[p].latest

\* Fault: the chain is asked for its length again.
MarkLater(p) == [syncs[p].base EXCEPT !.mark = Len(chain) + 1]

NewIndex(p) == syncs[p].base

\* After the issuances the revocations; after these start binds the listeners.
EndSync(p) ==
    /\ Stored(p)
    /\ index' = [index EXCEPT ![syncs[p].kind] = NewIndex(p)]
    /\ IF syncs[p].kind = "issued"
       THEN /\ syncs' = [syncs EXCEPT ![p] =
                   [phase |-> "begun", kind |-> "revoked", forced |-> syncs[p].forced]]
            /\ UNCHANGED listenersBound
       ELSE /\ syncs' = [syncs EXCEPT ![p] = NoSync]
            /\ listenersBound' = (listenersBound \/ p = Boot)
    /\ UNCHANGED <<chain, files, table, given, filed>>

\* The node or the disk fails.
SyncThrows(p) ==
    /\ syncs[p] # NoSync
    /\ syncs' = [syncs EXCEPT ![p] = NoSync]
    /\ UNCHANGED <<chain, index, files, table, listenersBound, given, filed>>

-----------------------------------------------------------------------------
(* bindEventListeners, stop, and a crash. *)

Listen(b) ==
    /\ b \in given
    /\ WriteFile(chain[b].kind, chain[b].vc)
    /\ given' = given \ {b} /\ filed' = filed \cup {b}
    /\ UNCHANGED <<chain, index, table, syncs, listenersBound>>

ListenerRow(b) ==
    /\ b \in filed
    /\ TryRow(chain[b].kind, chain[b].vc)
    /\ filed' = filed \ {b}
    /\ UNCHANGED <<chain, index, files, syncs, listenersBound, given>>

StopHybrid ==
    /\ listenersBound \/ \E p \in Syncs : syncs[p] # NoSync
    /\ syncs' = [p \in Syncs |-> NoSync]
    /\ listenersBound' = FALSE /\ given' = {} /\ filed' = {}
    /\ UNCHANGED <<chain, index, files, table>>

HybridInit ==
    /\ chain = <<>>
    /\ index = [k \in Kinds |-> [mark |-> 0, records |-> {}]]
    /\ files = [k \in Kinds |-> {}] /\ table = [k \in Kinds |-> {}]
    /\ syncs = [p \in Syncs |-> NoSync]
    /\ listenersBound = FALSE
    /\ given = {} /\ filed = {}

HybridNext ==
    \/ \E kind \in Kinds, vc \in Creds : Register(kind, vc)
    \/ \E p \in Syncs :
          \/ StartSync(p) \/ ReadIndex(p) \/ QueryEvents(p)
          \/ StoreEvent(p) \/ StoreRow(p) \/ EndSync(p) \/ SyncThrows(p)
    \/ \E b \in given : Listen(b)
    \/ \E b \in filed : ListenerRow(b)
    \/ StopHybrid

HybridSpec == HybridInit /\ [][HybridNext]_hybridVars

-----------------------------------------------------------------------------

MarkedIsStored ==
    \A b \in DOMAIN chain :
        LET kind == chain[b].kind
            vc == chain[b].vc
        IN  b < index[kind].mark => vc \in index[kind].records /\ vc \in files[kind]

RowsAreFiled == \A kind \in Kinds : table[kind] \subseteq files[kind]

\* Whatever syncs overlap, fail or are cut short and whatever the listeners
\* wrote in between, an event below the mark of its index is in the index and
\* in its file.  The table may lack any of them for good, issuances and
\* revocations, as its failures are ignored; but what it has is in its file.
IndexIsComplete == MarkedIsStored /\ RowsAreFiled

=============================================================================
