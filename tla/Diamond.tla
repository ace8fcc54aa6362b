------------------------------ MODULE Diamond -------------------------------
(***************************************************************************)
(* The diamond proxy: its selector table kept in packed arrays             *)
(* (LibDiamondStorage, LibDiamondCut), the fallback that routes calls by   *)
(* it, and the facets for ownership and attestation batches that are       *)
(* reached through it.  The loops of diamondCut are taken one iteration at *)
(* a time: a cut in progress is in tx, and nobody else steps meanwhile.    *)
(***************************************************************************)
EXTENDS Naturals, Sequences

CONSTANTS
    DiamondCutFn, TransferOwnershipFn, SubmitBatchFn, AddAttesterFn, RemoveAttesterFn,
    Facets,         \* addresses a cut may name, the diamond's own included
    This,           \* the diamond's address
    CutFacet,       \* the facet its constructor is given
    Code,           \* Code[f]: the selectors that the code at f knows
    Accounts, Zero, \* senders; address(0)
    Roots,          \* Merkle roots other than bytes32(0), which is Zero too
    None,
    MaxBatches      \* bound: batches submitted

Selectors ==
    {DiamondCutFn, TransferOwnershipFn, SubmitBatchFn, AddAttesterFn, RemoveAttesterFn}

ASSUME AddressAssumption ==
    /\ Zero \notin Facets \cup Accounts \cup Roots
    /\ {This, CutFacet} \subseteq Facets /\ This # CutFacet
ASSUME CodeAssumption ==
    /\ Code \in [Facets -> SUBSET Selectors]
    /\ Code[This] = {}     \* a call routed to the diamond runs out of gas
    /\ DiamondCutFn \in Code[CutFacet]
ASSUME MaxBatchesAssumption == MaxBatches \in Nat

Route == [facet : Facets \cup {Zero}, position : Nat]
Storage == [route : [Selectors -> Route], selectors : [Facets -> Seq(Selectors)],
            position : [Facets -> Nat], facets : Seq(Facets)]
Batch == [root : Roots \cup {Zero}, attester : Accounts \cup {Zero}]
Actions == {"Add", "Replace", "Remove"}
Cut == [action : Actions \cup {"none"}, facet : Facets \cup {Zero},
        next : Nat, some : BOOLEAN, before : Storage]

ASSUME NoneAssumption == None \notin Cut \cup [Selectors -> Facets \cup {Zero}]

VARIABLES
    owner,      \* ds.contractOwner
    ds,         \* the rest of LibDiamondStorage but supportedInterfaces,
                \* which no function of the diamond acts on
    tx,         \* the diamondCut in progress: the FacetCut it is at, that cut's
                \* selectorPosition, whether it had a selector, and the storage
                \* a revert restores
    attesters,  \* authorizedAttesters
    batches, batchCount

attestation == <<attesters, batches, batchCount>>
vars == <<owner, ds, tx, attestation>>

\* The check of verifyInclusion, and the one of getBatch.
HasRoot(id) == id \in DOMAIN batches /\ batches[id].root # Zero
Counted(id) == id # 0 /\ id =< batchCount

\* Beyond types: a batch is stored, as verifyInclusion sees it, just when it is
\* counted, as getBatch sees it.
TypeOK ==
    /\ owner \in Accounts \cup {Zero}
    /\ ds \in Storage
    /\ tx \in Cut \cup {None}
    /\ attesters \subseteq Accounts
    /\ batches \in [1 .. MaxBatches -> Batch]
    /\ batchCount \in 0 .. MaxBatches
    /\ \A id \in 1 .. MaxBatches : HasRoot(id) <=> Counted(id)

-----------------------------------------------------------------------------
(* The packed arrays. *)

NoRoute == [facet |-> Zero, position |-> 0]

AddFacet(d, f) ==
    [d EXCEPT !.position[f] = Len(d.facets), !.facets = Append(@, f)]

AddFunction(d, s, p, f) ==
    [d EXCEPT !.route[s] = [facet |-> f, position |-> p],
              !.selectors[f] = Append(@, s)]

\* Swap and pop: the last element takes the place at position p.
SwapAndPop(seq, p) ==
    [i \in 1 .. Len(seq) - 1 |-> IF i = p + 1 THEN seq[Len(seq)] ELSE seq[i]]

RemoveFacet(d, f) ==
    LET p == d.position[f]
        last == d.facets[Len(d.facets)]
    IN  [d EXCEPT !.position = [g \in Facets |->
                      IF g = f THEN 0 ELSE IF g = last THEN p ELSE @[g]],
                  !.facets = SwapAndPop(@, p)]

\* Fault: the position of the selector that was moved is not updated.
NotMoved(d, f, s) ==
    LET popped == [d EXCEPT
            !.route[s] = NoRoute,
            !.selectors[f] = SwapAndPop(@, d.route[s].position)]
    IN  IF Len(d.selectors[f]) = 1 THEN RemoveFacet(popped, f) ELSE popped

RemoveFunction(d, f, s) ==
    LET p == d.route[s].position
        last == d.selectors[f][Len(d.selectors[f])]
        popped == [d EXCEPT
            !.route = [t \in Selectors |->
                IF t = s THEN NoRoute
                ELSE IF t = last THEN [@[t] EXCEPT !.position = p] ELSE @[t]],
            !.selectors[f] = SwapAndPop(@, p)]
    IN  IF Len(d.selectors[f]) = 1 THEN RemoveFacet(popped, f) ELSE popped

-----------------------------------------------------------------------------
(* Calls.  The fallback delegates to the facet that the table names; code  *)
(* that does not know the selector reverts.                                *)

FacetAddress(d, s) == d.route[s].facet

Runs(s) ==
    /\ tx = None
    /\ FacetAddress(ds, s) # Zero
    /\ s \in Code[FacetAddress(ds, s)]

\* Fault: anyone may.
AnyAccount(sender) == sender \in Accounts

EnforceIsContractOwner(sender) == sender = owner

DiamondCut(sender) ==
    /\ Runs(DiamondCutFn) /\ EnforceIsContractOwner(sender)
    /\ tx' = [action |-> "none", facet |-> Zero, next |-> 0, some |-> TRUE, before |-> ds]
    /\ UNCHANGED <<owner, ds, attestation>>

\* The loop goes to its next FacetCut, up to the loop over selectors.
NextFacetCut(action, f) ==
    /\ tx # None /\ tx.some
    /\ IF action = "Remove"
       THEN f = Zero /\ UNCHANGED ds
       ELSE /\ f # Zero
            /\ ds' = IF ds.selectors[f] = <<>> THEN AddFacet(ds, f) ELSE ds
    /\ tx' = [tx EXCEPT !.action = action, !.facet = f, !.some = FALSE,
                        !.next = IF f = Zero THEN 0 ELSE Len(ds.selectors[f])]
    /\ UNCHANGED <<owner, attestation>>

AddSelector(s) ==
    /\ tx # None /\ tx.action = "Add"
    /\ FacetAddress(ds, s) = Zero
    /\ ds' = AddFunction(ds, s, tx.next, tx.facet)
    /\ tx' = [tx EXCEPT !.next = @ + 1, !.some = TRUE]
    /\ UNCHANGED <<owner, attestation>>

ReplaceSelector(s) ==
    LET old == FacetAddress(ds, s)
    IN  /\ tx # None /\ tx.action = "Replace"
        /\ old \notin {tx.facet, Zero, This}
        /\ ds' = AddFunction(RemoveFunction(ds, old, s), s, tx.next, tx.facet)
        /\ tx' = [tx EXCEPT !.next = @ + 1, !.some = TRUE]
        /\ UNCHANGED <<owner, attestation>>

\* Fault: functions of the diamond itself are removed like others.
AnySelector(s) ==
    LET old == FacetAddress(ds, s)
    IN  /\ tx # None /\ tx.action = "Remove" /\ old # Zero
        /\ ds' = RemoveFunction(ds, old, s)
        /\ tx' = [tx EXCEPT !.some = TRUE]
        /\ UNCHANGED <<owner, attestation>>

RemoveSelector(s) ==
    LET old == FacetAddress(ds, s)
    IN  /\ tx # None /\ tx.action = "Remove"
        /\ old \notin {Zero, This}
        /\ ds' = RemoveFunction(ds, old, s)
        /\ tx' = [tx EXCEPT !.some = TRUE]
        /\ UNCHANGED <<owner, attestation>>

\* initializeDiamondCut, with nothing to call or with DiamondInit, which only
\* sets supportedInterfaces.
InitializeDiamondCut ==
    /\ tx # None /\ tx.some
    /\ tx' = None
    /\ UNCHANGED <<owner, ds, attestation>>

\* A require that fails, or an _init that reverts.
RevertCut ==
    /\ tx # None
    /\ ds' = tx.before /\ tx' = None
    /\ UNCHANGED <<owner, attestation>>

TransferOwnership(sender, newOwner) ==
    /\ Runs(TransferOwnershipFn) /\ EnforceIsContractOwner(sender)
    /\ owner' = newOwner
    /\ UNCHANGED <<ds, tx, attestation>>

-----------------------------------------------------------------------------
(* Attestation batches. *)

AddAttester(sender, a) ==
    /\ Runs(AddAttesterFn) /\ EnforceIsContractOwner(sender)
    /\ attesters' = attesters \cup {a}
    /\ UNCHANGED <<owner, ds, tx, batches, batchCount>>

RemoveAttester(sender, a) ==
    /\ Runs(RemoveAttesterFn) /\ EnforceIsContractOwner(sender)
    /\ attesters' = attesters \ {a}
    /\ UNCHANGED <<owner, ds, tx, batches, batchCount>>

SubmitBatch(sender, root) ==
    /\ Runs(SubmitBatchFn)
    /\ root # Zero /\ sender \in attesters
    /\ batchCount < MaxBatches /\ batchCount' = batchCount + 1
    /\ batches' = [batches EXCEPT ![batchCount'] = [root |-> root, attester |-> sender]]
    /\ UNCHANGED <<owner, ds, tx, attesters>>

-----------------------------------------------------------------------------

\* The constructor's cut.
Constructed ==
    AddFunction(AddFacet([route |-> [s \in Selectors |-> NoRoute],
                          selectors |-> [f \in Facets |-> <<>>],
                          position |-> [f \in Facets |-> 0],
                          facets |-> <<>>], CutFacet),
                DiamondCutFn, 0, CutFacet)

Init ==
    /\ owner \in Accounts
    /\ ds = Constructed
    /\ tx = None
    /\ attesters = {} /\ batchCount = 0
    /\ batches = [id \in 1 .. MaxBatches |-> [root |-> Zero, attester |-> Zero]]

Next ==
    \/ \E a \in Accounts :
          \/ DiamondCut(a)
          \/ \E b \in Accounts \cup {Zero} : TransferOwnership(a, b)
          \/ \E b \in Accounts : AddAttester(a, b) \/ RemoveAttester(a, b)
          \/ \E root \in Roots : SubmitBatch(a, root)
    \/ \E action \in Actions, f \in Facets \cup {Zero} : NextFacetCut(action, f)
    \/ \E s \in Selectors : AddSelector(s) \/ ReplaceSelector(s) \/ RemoveSelector(s)
    \/ InitializeDiamondCut \/ RevertCut

Spec == Init /\ [][Next]_vars

-----------------------------------------------------------------------------
(* What the diamond promises. *)

\* The facet that a cut has listed and not yet given a function.
Opened == IF tx = None THEN {} ELSE IF tx.some THEN {} ELSE {tx.facet}

\* Each routed selector is at its position among its facet's, and nothing else
\* is there.
SelectorsPacked(d) ==
    /\ \A s \in Selectors : d.route[s].facet # Zero =>
          LET r == d.route[s]
          IN  /\ r.position < Len(d.selectors[r.facet])
              /\ d.selectors[r.facet][r.position + 1] = s
    /\ \A f \in Facets : \A i \in DOMAIN d.selectors[f] :
          d.route[d.selectors[f][i]] = [facet |-> f, position |-> i - 1]

\* Each facet with a selector is at its position in the list, and nothing else
\* is there.
FacetsPacked(d, opened) ==
    /\ \A f \in Facets : d.selectors[f] # <<>> \/ f \in opened =>
          d.position[f] < Len(d.facets) /\ d.facets[d.position[f] + 1] = f
    /\ \A i \in DOMAIN d.facets :
          /\ d.position[d.facets[i]] = i - 1
          /\ d.selectors[d.facets[i]] # <<>> \/ d.facets[i] \in opened

Packed(d, opened) == SelectorsPacked(d) /\ FacetsPacked(d, opened)

\* The loupe's arrays and the fallback's table agree, at each iteration of a
\* cut, whatever was added, replaced, removed or reverted before.
TableIsPacked == Packed(ds, Opened)

TableOf(d) == [s \in Selectors |-> FacetAddress(d, s)]

Abstract == INSTANCE FacetTable WITH
    table <- TableOf(IF tx = None THEN ds ELSE tx.before),
    draft <- IF tx = None THEN None ELSE TableOf(ds)

\* The arrays implement a plain function from selectors to facets.
FollowsTable == Abstract!Spec

Stuck == tx = None /\ (owner = Zero \/ ~ Runs(DiamondCutFn))

\* A diamond given to address(0), or whose diamondCut was cut out, keeps its
\* functions for good.
StuckForGood == [][Stuck => Stuck' /\ ds' = ds]_vars

=============================================================================
