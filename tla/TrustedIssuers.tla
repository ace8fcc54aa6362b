--------------------------- MODULE TrustedIssuers ---------------------------
(***************************************************************************)
(* The TrustedIssuer facet of the diamond and the ownership it obeys.  The *)
(* registry keeps an issuer twice, as a mapping and as a list that can be  *)
(* paged through, and announces every change as an event.  An action is a  *)
(* mined transaction; one that reverts changes nothing and is not one.     *)
(***************************************************************************)
EXTENDS Naturals, Sequences

CONSTANTS
    Addresses,  \* those that send transactions or are registered
    NoAddress,  \* address(0), which sends no transaction
    MaxUint,    \* type(uint256).max
    MaxEvents   \* bound: events emitted

ASSUME NoAddressAssumption == NoAddress \notin Addresses
ASSUME RegistryBounds == MaxUint \in Nat /\ MaxEvents \in Nat

VARIABLES
    contractOwner,  \* ds.contractOwner
    trustedIssuers, \* ds.trustedIssuers, the addresses mapped to true
    issuerList,     \* ds.issuerList
    events          \* emitted so far

registryVars == <<contractOwner, trustedIssuers, issuerList, events>>

RegistryEvent == [event : {"Added", "Removed"}, issuer : Addresses]

RegistryTypeOK ==
    /\ contractOwner \in Addresses \cup {NoAddress}
    /\ trustedIssuers \subseteq Addresses
    /\ issuerList \in Seq(Addresses)
    /\ events \in Seq(RegistryEvent)

RegistryInit ==
    /\ contractOwner \in Addresses
    /\ trustedIssuers = {}
    /\ issuerList = <<>>
    /\ events = <<>>

Announce(event, issuer) ==
    /\ Len(events) < MaxEvents
    /\ events' = Append(events, [event |-> event, issuer |-> issuer])

-----------------------------------------------------------------------------
(* Faults.                                                                 *)

\* The swap without looking for the place of the issuer.
PopOnly(list, issuer) == SubSeq(list, 1, Len(list) - 1)

\* remove that trusts the list to answer for the mapping.
RemoveFromListOnly(caller, issuer) ==
    /\ caller = contractOwner /\ issuer \in trustedIssuers
    /\ issuerList' = SelectSeq(issuerList, LAMBDA a : a # issuer)
    /\ Announce("Removed", issuer)
    /\ UNCHANGED <<contractOwner, trustedIssuers>>

\* end taken as the last index instead of the one after it.
PageShort(offset, limit) ==
    LET total == Len(issuerList)
        end == IF offset + limit > total THEN total ELSE offset + limit
    IN  IF offset >= total THEN <<>> ELSE SubSeq(issuerList, offset + 1, end - 1)

-----------------------------------------------------------------------------
AddTrustedIssuer(caller, issuer) ==
    /\ caller = contractOwner
    /\ issuer # NoAddress
    /\ issuer \notin trustedIssuers
    /\ trustedIssuers' = trustedIssuers \cup {issuer}
    /\ issuerList' = Append(issuerList, issuer)
    /\ Announce("Added", issuer)
    /\ UNCHANGED contractOwner

\* Swap the first occurrence with the last element and pop.
SwapAndPop(list, issuer) ==
    LET i == CHOOSE k \in DOMAIN list :
                 /\ list[k] = issuer
                 /\ \A j \in DOMAIN list : list[j] = issuer => k <= j
    IN  [k \in 1 .. Len(list) - 1 |-> IF k = i THEN list[Len(list)] ELSE list[k]]

RemoveTrustedIssuer(caller, issuer) ==
    /\ caller = contractOwner
    /\ issuer \in trustedIssuers
    /\ trustedIssuers' = trustedIssuers \ {issuer}
    /\ issuerList' = IF \E k \in DOMAIN issuerList : issuerList[k] = issuer
                     THEN SwapAndPop(issuerList, issuer) ELSE issuerList
    /\ Announce("Removed", issuer)
    /\ UNCHANGED contractOwner

\* The new owner may be anybody, address(0) included: then nobody is.
TransferOwnership(caller, newOwner) ==
    /\ caller = contractOwner
    /\ contractOwner' = newOwner
    /\ UNCHANGED <<trustedIssuers, issuerList, events>>

\* getTrustedIssuers(offset, limit).  offset + limit is checked arithmetic: the
\* call reverts when it overflows.
Overflows(offset, limit) == offset < Len(issuerList) /\ offset + limit > MaxUint

GetIssuers(offset, limit) ==
    LET total == Len(issuerList)
        end == IF offset + limit > total THEN total ELSE offset + limit
    IN  IF offset >= total THEN <<>> ELSE SubSeq(issuerList, offset + 1, end)

RegistryNext ==
    \E caller \in Addresses, a \in Addresses \cup {NoAddress} :
        \/ AddTrustedIssuer(caller, a)
        \/ RemoveTrustedIssuer(caller, a)
        \/ TransferOwnership(caller, a)

RegistrySpec == RegistryInit /\ [][RegistryNext]_registryVars

-----------------------------------------------------------------------------
(* Properties.                                                             *)

\* The list and the mapping agree after any mix of additions and swap-and-pop
\* removals: every trusted issuer is listed, once, and nobody else is.
ListIsMapping ==
    /\ \A s \in Addresses :
          s \in trustedIssuers <=> \E k \in DOMAIN issuerList : issuerList[k] = s
    /\ \A j, k \in DOMAIN issuerList : issuerList[j] = issuerList[k] => j = k

LastWordOn(s, k) ==
    /\ events[k].issuer = s
    /\ \A j \in DOMAIN events : events[j].issuer = s => j <= k

\* The events alone tell the mapping: an issuer is trusted just when the last
\* event about it is IssuerAdded, which is all the indexers go by.
LogTellsTrust ==
    \A s \in Addresses :
        s \in trustedIssuers <=>
            \E k \in DOMAIN events : LastWordOn(s, k) /\ events[k].event = "Added"

\* Additions and removals of one issuer alternate in the log.
LogAlternates ==
    \A j, k \in DOMAIN events :
        /\ j < k /\ events[j].issuer = events[k].issuer
        /\ \A i \in DOMAIN events : events[i].issuer = events[j].issuer => i <= j \/ i >= k
        => events[j].event # events[k].event
=============================================================================
