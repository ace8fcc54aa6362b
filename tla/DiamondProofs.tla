--------------------------- MODULE DiamondProofs ----------------------------
(***************************************************************************)
(* Proofs about Diamond for any facets, accounts and code, and cuts of any *)
(* length.  The arrays stay packed through each iteration of a cut because *)
(* nextPosition, kept in tx.next, stays the length of the array that the   *)
(* FacetCut appends to: what a Replace removes, it removes from another.   *)
(***************************************************************************)
EXTENDS Diamond, TLAPS

\* The iteration knows its facet, its position, and whether the facet that was
\* listed has a selector yet.
CutInv ==
    tx # None =>
        /\ Packed(tx.before, {})
        /\ tx.action \in {"Add", "Replace"} =>
              /\ tx.facet \in Facets
              /\ tx.next = Len(ds.selectors[tx.facet])
              /\ tx.some => ds.selectors[tx.facet] # <<>>
        /\ tx.action = "Remove" => tx.facet = Zero
        /\ tx.action = "none" => tx.some

IndInv == TypeOK /\ TableIsPacked /\ CutInv

-----------------------------------------------------------------------------
(* Storage as sets and functions. *)

LEMMA StorageFields ==
    ASSUME NEW d \in Storage
    PROVE  /\ d.route \in [Selectors -> Route]
           /\ d.selectors \in [Facets -> Seq(Selectors)]
           /\ d.position \in [Facets -> Nat]
           /\ d.facets \in Seq(Facets)
           /\ \A s \in Selectors : /\ d.route[s].facet \in Facets \cup {Zero}
                                   /\ d.route[s].position \in Nat
                                   /\ d.route[s] \in Route
  BY DEF Storage, Route

LEMMA NextIndex ==
    ASSUME NEW n \in Nat, NEW k \in Nat, k < n
    PROVE  k + 1 \in 1 .. n
  OBVIOUS

LEMMA BelowLast ==
    ASSUME NEW n \in Nat, NEW i \in Nat, i < n, i # n - 1
    PROVE  i < n - 1 /\ i + 1 \in 1 .. n - 1
  OBVIOUS

LEMMA Shorter ==
    ASSUME NEW n \in Nat, NEW i \in 1 .. n - 1
    PROVE  i \in 1 .. n /\ i # n /\ i \in Nat
  OBVIOUS

LEMMA LastIndex ==
    ASSUME NEW n \in Nat
    PROVE  /\ \A i \in 1 .. n + 1 : i = n + 1 \/ i \in 1 .. n
           /\ \A i \in 1 .. n : i # n + 1 /\ i \in 1 .. n + 1
  OBVIOUS

LEMMA Appended ==
    ASSUME NEW S, NEW seq \in Seq(S), NEW x \in S
    PROVE  /\ Append(seq, x) \in Seq(S)
           /\ Len(Append(seq, x)) = Len(seq) + 1
           /\ DOMAIN Append(seq, x) = 1 .. Len(seq) + 1
           /\ Append(seq, x)[Len(seq) + 1] = x
           /\ \A i \in 1 .. Len(seq) : Append(seq, x)[i] = seq[i]
  OBVIOUS

LEMMA Moved ==
    ASSUME NEW r \in Route, NEW p
    PROVE  [r EXCEPT !.position = p] = [facet |-> r.facet, position |-> p]
  BY DEF Route

\* Selectors are packed or not whatever the list of facets is.
LEMMA SamePacking ==
    ASSUME NEW d, NEW e, e.route = d.route, e.selectors = d.selectors, SelectorsPacked(d)
    PROVE  SelectorsPacked(e)
  BY DEF SelectorsPacked

\* What swap-and-pop leaves of a sequence.
LEMMA Popped ==
    ASSUME NEW S, NEW seq \in Seq(S), NEW p \in Nat, p < Len(seq)
    PROVE  /\ SwapAndPop(seq, p) \in Seq(S)
           /\ Len(SwapAndPop(seq, p)) = Len(seq) - 1
           /\ DOMAIN SwapAndPop(seq, p) = 1 .. Len(seq) - 1
           /\ \A i \in 1 .. Len(seq) - 1 :
                 SwapAndPop(seq, p)[i] = IF i = p + 1 THEN seq[Len(seq)] ELSE seq[i]
  <1> DEFINE n == Len(seq)
             q == SwapAndPop(seq, p)
  <1>1. n \in Nat /\ n - 1 \in Nat /\ \A i \in 1 .. n : seq[i] \in S
    OBVIOUS
  <1>2. q = [i \in 1 .. n - 1 |-> IF i = p + 1 THEN seq[n] ELSE seq[i]]
    BY DEF SwapAndPop
  <1> HIDE DEF n, q
  <1>3. n \in 1 .. n /\ 1 .. n - 1 \subseteq 1 .. n
    BY <1>1
  <1>4. q \in [1 .. n - 1 -> S]
    BY <1>1, <1>2, <1>3
  <1>5. q \in Seq(S) /\ Len(q) = n - 1
    BY <1>1, <1>4
  <1> QED
    BY <1>2, <1>5 DEF n, q

-----------------------------------------------------------------------------
(* Appending. *)

LEMMA AddFacetKeeps ==
    ASSUME NEW d \in Storage, NEW f \in Facets, d.selectors[f] = <<>>, Packed(d, {})
    PROVE  /\ AddFacet(d, f) \in Storage
           /\ AddFacet(d, f).selectors = d.selectors
           /\ AddFacet(d, f).route = d.route
           /\ Packed(AddFacet(d, f), {f})
  <1> DEFINE e == AddFacet(d, f)
             n == Len(d.facets)
  <1>1. /\ d.position \in [Facets -> Nat] /\ d.facets \in Seq(Facets) /\ n \in Nat
        /\ d.selectors \in [Facets -> Seq(Selectors)] /\ d.route \in [Selectors -> Route]
        /\ DOMAIN d.facets = 1 .. n
    BY StorageFields
  <1>2. /\ e.route = d.route /\ e.selectors = d.selectors
        /\ e.position = [d.position EXCEPT ![f] = n] /\ e.facets = Append(d.facets, f)
    BY DEF AddFacet, Storage
  <1>3. PICK position \in [Facets -> Nat], facets \in Seq(Facets) :
            position = [d.position EXCEPT ![f] = n] /\ facets = Append(d.facets, f)
    <2>1. [d.position EXCEPT ![f] = n] \in [Facets -> Nat]
      BY <1>1
    <2> QED
      BY <1>1, <2>1, Appended
  <1>4. e \in Storage
    <2>1. e = [d EXCEPT !.position = position, !.facets = facets]
      BY <1>3 DEF AddFacet, Storage
    <2> HIDE DEF e
    <2> QED
      BY <2>1 DEF Storage
  <1> HIDE DEF e, n
  <1>5. /\ e.facets[n + 1] = f /\ Len(e.facets) = n + 1 /\ DOMAIN e.facets = 1 .. n + 1
        /\ \A i \in 1 .. n : e.facets[i] = d.facets[i] /\ d.facets[i] \in Facets
    BY <1>1, <1>2, Appended DEF n
  <1>6. /\ e.position[f] = n /\ \A g \in Facets \ {f} : e.position[g] = d.position[g]
        /\ \A g \in Facets : d.position[g] \in Nat
    BY <1>1, <1>2
  <1>7. ASSUME NEW i \in 1 .. n
        PROVE  /\ d.facets[i] # f /\ d.selectors[d.facets[i]] # <<>>
               /\ d.position[d.facets[i]] = i - 1
    BY <1>1 DEF Packed, FacetsPacked
  <1>8. ASSUME NEW g \in Facets, e.selectors[g] # <<>> \/ g \in {f}
        PROVE  e.position[g] < Len(e.facets) /\ e.facets[e.position[g] + 1] = g
    <2>1. CASE g = f
      BY <1>1, <1>5, <1>6, <2>1
    <2>2. CASE g # f
      <3>1. PICK k \in Nat : k = d.position[g] /\ k = e.position[g]
        BY <1>6, <2>2
      <3>2. k < n /\ d.facets[k + 1] = g
        BY <1>2, <1>8, <2>2, <3>1 DEF Packed, FacetsPacked, n
      <3>3. k + 1 \in 1 .. n /\ k < n + 1
        BY <1>1, <3>2, NextIndex
      <3> QED
        BY <1>5, <3>1, <3>2, <3>3
    <2> QED
      BY <2>1, <2>2
  <1>9. ASSUME NEW i \in DOMAIN e.facets
        PROVE  /\ e.position[e.facets[i]] = i - 1
               /\ e.selectors[e.facets[i]] # <<>> \/ e.facets[i] \in {f}
    <2>1. CASE i = n + 1
      BY <1>1, <1>5, <1>6, <2>1
    <2>2. CASE i \in 1 .. n
      BY <1>2, <1>5, <1>6, <1>7, <2>2
    <2>3. i = n + 1 \/ i \in 1 .. n
      <3>1. i \in 1 .. n + 1
        BY <1>5
      <3> QED
        BY <1>1, <3>1, LastIndex
    <2> QED
      BY <2>1, <2>2, <2>3
  <1>10. Packed(e, {f})
    <2>1. SelectorsPacked(e)
      <3>1. SelectorsPacked(d)
        BY DEF Packed
      <3> QED
        BY <1>2, <3>1, SamePacking
    <2>2. FacetsPacked(e, {f})
      <3>1. \A g \in Facets : e.selectors[g] # <<>> \/ g \in {f} =>
               e.position[g] < Len(e.facets) /\ e.facets[e.position[g] + 1] = g
        BY <1>8
      <3>2. \A i \in DOMAIN e.facets :
               /\ e.position[e.facets[i]] = i - 1
               /\ e.selectors[e.facets[i]] # <<>> \/ e.facets[i] \in {f}
        BY <1>9
      <3> QED
        BY <3>1, <3>2 DEF FacetsPacked
    <2> QED
      BY <2>1, <2>2 DEF Packed
  <1> QED
    BY <1>2, <1>4, <1>10 DEF e

\* A selector appended at nextPosition to a facet that is listed.
LEMMA AddFunctionKeeps ==
    ASSUME NEW d \in Storage, NEW f \in Facets, NEW s \in Selectors, NEW opened,
           Packed(d, opened), opened \subseteq {f},
           d.selectors[f] # <<>> \/ f \in opened,
           d.route[s].facet = Zero
    PROVE  LET e == AddFunction(d, s, Len(d.selectors[f]), f)
           IN  /\ e \in Storage
               /\ Packed(e, {})
               /\ Len(e.selectors[f]) = Len(d.selectors[f]) + 1
               /\ e.selectors[f] # <<>>
  <1> USE AddressAssumption
  <1> DEFINE n == Len(d.selectors[f])
             e == AddFunction(d, s, n, f)
             new == [facet |-> f, position |-> n]
  <1>1. /\ d.position \in [Facets -> Nat] /\ d.facets \in Seq(Facets)
        /\ d.selectors \in [Facets -> Seq(Selectors)] /\ d.route \in [Selectors -> Route]
    BY StorageFields
  <1>2. d.selectors[f] \in Seq(Selectors) /\ n \in Nat
    BY <1>1
  <1>3. new \in Route /\ new.facet = f /\ new.position = n
    BY <1>2 DEF Route
  <1>4. Append(d.selectors[f], s) \in Seq(Selectors)
    BY <1>2
  <1>5. PICK route \in [Selectors -> Route], selectors \in [Facets -> Seq(Selectors)] :
            /\ route = [d.route EXCEPT ![s] = new]
            /\ selectors = [d.selectors EXCEPT ![f] = Append(d.selectors[f], s)]
    <2> HIDE DEF new
    <2> QED
      BY <1>1, <1>3, <1>4
  <1>6. e \in Storage
    <2>1. e = [d EXCEPT !.route = route, !.selectors = selectors]
      BY <1>5 DEF AddFunction, Storage
    <2> HIDE DEF e
    <2> QED
      BY <2>1 DEF Storage
  <1>7. /\ e.route = [d.route EXCEPT ![s] = new]
        /\ e.selectors = [d.selectors EXCEPT ![f] = Append(d.selectors[f], s)]
        /\ e.position = d.position /\ e.facets = d.facets
    BY DEF AddFunction, Storage
  <1> HIDE DEF e, new, n
  <1>8. /\ e.route[s] = new /\ \A t \in Selectors \ {s} : e.route[t] = d.route[t]
        /\ e.selectors[f] = Append(d.selectors[f], s)
        /\ \A g \in Facets \ {f} : e.selectors[g] = d.selectors[g]
    BY <1>1, <1>7
  <1>9. /\ Len(e.selectors[f]) = n + 1 /\ DOMAIN e.selectors[f] = 1 .. n + 1
        /\ e.selectors[f][n + 1] = s
        /\ \A i \in 1 .. n : e.selectors[f][i] = d.selectors[f][i]
        /\ \A i \in 1 .. n + 1 : i = n + 1 \/ i \in 1 .. n
    BY <1>2, <1>8, Appended, LastIndex DEF n
  <1>10. e.selectors[f] # <<>>
    BY <1>2, <1>9
  \* Nothing listed is s, which has no facet.
  <1>11. \A g \in Facets : \A i \in DOMAIN d.selectors[g] :
            /\ d.selectors[g][i] \in Selectors \ {s}
            /\ d.route[d.selectors[g][i]] = [facet |-> g, position |-> i - 1]
    <2> TAKE g \in Facets
    <2> TAKE i \in DOMAIN d.selectors[g]
    <2>1. d.selectors[g] \in Seq(Selectors)
      BY <1>1
    <2>2. d.selectors[g][i] \in Selectors
      BY <2>1
    <2>3. d.route[d.selectors[g][i]] = [facet |-> g, position |-> i - 1]
      BY DEF Packed, SelectorsPacked, FacetsPacked
    <2>4. d.route[d.selectors[g][i]].facet = g
      BY <2>3
    <2> QED
      BY <2>2, <2>3, <2>4
  <1>12. ASSUME NEW t \in Selectors, e.route[t].facet # Zero
         PROVE  /\ e.route[t].position < Len(e.selectors[e.route[t].facet])
                /\ e.selectors[e.route[t].facet][e.route[t].position + 1] = t
    <2>1. CASE t = s
      <3>1. e.route[t].facet = f /\ e.route[t].position = n
        BY <1>3, <1>8, <2>1
      <3>2. n < n + 1
        BY <1>2 DEF n
      <3> QED
        BY <1>9, <2>1, <3>1, <3>2
    <2>2. CASE t # s
      <3> DEFINE g == d.route[t].facet
                 p == d.route[t].position
      <3>1. e.route[t] = d.route[t] /\ g \in Facets /\ p \in Nat
        BY <1>8, <1>12, <2>2, StorageFields
      <3>2. p < Len(d.selectors[g]) /\ d.selectors[g][p + 1] = t
        BY <1>12, <3>1 DEF Packed, SelectorsPacked, FacetsPacked
      <3> HIDE DEF g, p
      <3>3. p < Len(e.selectors[g]) /\ e.selectors[g][p + 1] = t
        <4>1. CASE g = f
          <5>1. p + 1 \in 1 .. n
            BY <1>2, <3>1, <3>2, <4>1, NextIndex DEF n
          <5>2. p < n + 1
            BY <1>2, <3>1, <3>2, <4>1 DEF n
          <5> QED
            BY <1>9, <3>2, <4>1, <5>1, <5>2
        <4>2. CASE g # f
          BY <1>8, <3>1, <3>2, <4>2
        <4> QED
          BY <4>1, <4>2
      <3> QED
        BY <3>1, <3>3 DEF g, p
    <2> QED
      BY <2>1, <2>2
  <1>13. ASSUME NEW g \in Facets, NEW i \in DOMAIN e.selectors[g]
         PROVE  e.route[e.selectors[g][i]] = [facet |-> g, position |-> i - 1]
    <2>1. CASE g = f /\ i = n + 1
      <3>1. e.selectors[g][i] = s /\ n = i - 1
        BY <1>2, <1>9, <2>1
      <3> QED
        BY <1>8, <2>1, <3>1 DEF new
    <2>2. CASE g = f /\ i \in 1 .. n
      <3>1. i \in DOMAIN d.selectors[g] /\ e.selectors[g][i] = d.selectors[g][i]
        BY <1>2, <1>9, <2>2 DEF n
      <3> DEFINE t == d.selectors[g][i]
      <3>2. /\ t \in Selectors \ {s}
            /\ d.route[t] = [facet |-> g, position |-> i - 1]
        BY <1>11, <3>1
      <3> HIDE DEF t
      <3>3. e.route[t] = d.route[t]
        BY <1>8, <3>2
      <3> QED
        BY <3>1, <3>2, <3>3 DEF t
    <2>3. CASE g # f
      <3> DEFINE t == d.selectors[g][i]
      <3>1. e.selectors[g] = d.selectors[g]
        BY <1>8, <2>3
      <3>2. /\ t \in Selectors \ {s}
            /\ d.route[t] = [facet |-> g, position |-> i - 1]
        BY <1>11, <3>1
      <3> HIDE DEF t
      <3>3. e.route[t] = d.route[t]
        BY <1>8, <3>2
      <3> QED
        BY <3>1, <3>2, <3>3 DEF t
    <2>4. g = f => i = n + 1 \/ i \in 1 .. n
      BY <1>9
    <2> QED
      BY <2>1, <2>2, <2>3, <2>4
  <1>14. ASSUME NEW g \in Facets, e.selectors[g] # <<>> \/ g \in {}
         PROVE  e.position[g] < Len(e.facets) /\ e.facets[e.position[g] + 1] = g
    <2>1. d.selectors[g] # <<>> \/ g \in opened
      BY <1>8, <1>14
    <2> QED
      BY <1>7, <2>1 DEF Packed, SelectorsPacked, FacetsPacked
  <1>15. ASSUME NEW i \in DOMAIN e.facets
         PROVE  /\ e.position[e.facets[i]] = i - 1
                /\ e.selectors[e.facets[i]] # <<>> \/ e.facets[i] \in {}
    <2>1. d.facets[i] \in Facets
      BY <1>1, <1>7
    <2>2. /\ d.position[d.facets[i]] = i - 1
          /\ d.selectors[d.facets[i]] # <<>> \/ d.facets[i] \in opened
      BY <1>7 DEF Packed, SelectorsPacked, FacetsPacked
    <2> QED
      BY <1>7, <1>8, <1>10, <2>1, <2>2
  <1>16. Packed(e, {})
    BY <1>12, <1>13, <1>14, <1>15 DEF Packed, SelectorsPacked, FacetsPacked
  <1> QED
    BY <1>6, <1>9, <1>10, <1>16 DEF e, n

-----------------------------------------------------------------------------
(* Removing. *)

\* A facet that lost its last selector leaves the list, and the last one of the
\* list takes its place.
LEMMA RemoveFacetKeeps ==
    ASSUME NEW d \in Storage, NEW f \in Facets, NEW opened,
           Packed(d, opened \cup {f}), f \notin opened,
           d.selectors[f] = <<>>
    PROVE  LET e == RemoveFacet(d, f)
           IN  /\ e \in Storage
               /\ e.route = d.route /\ e.selectors = d.selectors
               /\ Packed(e, opened)
  <1> DEFINE e == RemoveFacet(d, f)
             n == Len(d.facets)
             p == d.position[f]
             last == d.facets[n]
  <1>1. /\ d.position \in [Facets -> Nat] /\ d.facets \in Seq(Facets) /\ n \in Nat
        /\ d.selectors \in [Facets -> Seq(Selectors)] /\ d.route \in [Selectors -> Route]
        /\ DOMAIN d.facets = 1 .. n /\ \A g \in Facets : d.position[g] \in Nat
    BY StorageFields
  <1>2. p \in Nat /\ p < n /\ d.facets[p + 1] = f
    BY <1>1 DEF Packed, SelectorsPacked, FacetsPacked
  <1>3. /\ e.route = d.route /\ e.selectors = d.selectors
        /\ e.facets = SwapAndPop(d.facets, p)
        /\ e.position = [g \in Facets |-> IF g = f THEN 0
                                         ELSE IF g = last THEN p ELSE d.position[g]]
    BY DEF RemoveFacet, Storage
  <1>4. /\ SwapAndPop(d.facets, p) \in Seq(Facets)
        /\ Len(SwapAndPop(d.facets, p)) = n - 1
        /\ DOMAIN SwapAndPop(d.facets, p) = 1 .. n - 1
        /\ \A i \in 1 .. n - 1 :
              SwapAndPop(d.facets, p)[i] = IF i = p + 1 THEN last ELSE d.facets[i]
    BY <1>1, <1>2, Popped
  <1>5. [g \in Facets |-> IF g = f THEN 0 ELSE IF g = last THEN p ELSE d.position[g]]
            \in [Facets -> Nat]
    BY <1>1, <1>2
  <1>6. e \in Storage
    <2>1. PICK position \in [Facets -> Nat] :
              position = [g \in Facets |-> IF g = f THEN 0
                                           ELSE IF g = last THEN p ELSE d.position[g]]
      BY <1>5
    <2>2. PICK facets \in Seq(Facets) : facets = SwapAndPop(d.facets, p)
      BY <1>4
    <2>3. e = [d EXCEPT !.position = position, !.facets = facets]
      BY <2>1, <2>2 DEF RemoveFacet, Storage
    <2> HIDE DEF e
    <2> QED
      BY <2>3 DEF Storage
  <1>7. /\ e.route = d.route /\ e.selectors = d.selectors
        /\ e.facets = SwapAndPop(d.facets, p)
        /\ \A g \in Facets : e.position[g] = IF g = f THEN 0
                                            ELSE IF g = last THEN p ELSE d.position[g]
    BY <1>3
  <1> HIDE DEF e, last, p, n
  <1>8. /\ last \in Facets /\ n \in 1 .. n /\ d.facets[n] = last
        /\ 1 .. n - 1 \subseteq 1 .. n /\ n \notin 1 .. n - 1
        /\ \A i \in 1 .. n : d.facets[i] \in Facets
    BY <1>1, <1>2 DEF last
  <1>9. /\ \A i \in 1 .. n : /\ d.position[d.facets[i]] = i - 1
                             /\ d.selectors[d.facets[i]] # <<>>
                                   \/ d.facets[i] \in opened \cup {f}
        /\ \A g \in Facets : d.selectors[g] # <<>> \/ g \in opened \cup {f} =>
              d.position[g] < n /\ d.facets[d.position[g] + 1] = g
    BY <1>1 DEF Packed, SelectorsPacked, FacetsPacked, n
  <1>10. d.position[f] = p /\ d.position[last] = n - 1
    BY <1>8, <1>9 DEF p
  <1>11. ASSUME NEW g \in Facets, e.selectors[g] # <<>> \/ g \in opened
         PROVE  e.position[g] < Len(e.facets) /\ e.facets[e.position[g] + 1] = g
    <2>1. g # f /\ d.position[g] < n /\ d.facets[d.position[g] + 1] = g
      BY <1>7, <1>9, <1>11
    <2>2. PICK k \in Nat : k = d.position[g]
      BY <1>1
    <2>3. k < n /\ d.facets[k + 1] = g /\ Len(e.facets) = n - 1
      BY <1>4, <1>7, <2>1, <2>2
    <2>4. CASE g = last
      <3>1. e.position[g] = p /\ k = n - 1
        BY <1>7, <1>10, <2>1, <2>2, <2>4
      <3>2. p # n - 1
        BY <1>1, <1>2, <2>1, <2>3, <3>1
      <3>3. p < n - 1 /\ p + 1 \in 1 .. n - 1
        BY <1>1, <1>2, <3>2, BelowLast
      <3> QED
        BY <1>4, <1>7, <2>3, <2>4, <3>1, <3>3
    <2>5. CASE g # last
      <3>1. e.position[g] = k
        BY <1>7, <2>1, <2>2, <2>5
      <3>2. k # n - 1
        BY <1>1, <1>8, <2>3, <2>5
      <3>3. k < n - 1 /\ k + 1 \in 1 .. n - 1
        BY <1>1, <2>3, <3>2, BelowLast
      <3>4. k + 1 # p + 1
        BY <1>2, <2>1, <2>3
      <3> QED
        BY <1>4, <1>7, <2>3, <3>1, <3>3, <3>4
    <2> QED
      BY <2>4, <2>5
  <1>12. ASSUME NEW i \in DOMAIN e.facets
         PROVE  /\ e.position[e.facets[i]] = i - 1
                /\ e.selectors[e.facets[i]] # <<>> \/ e.facets[i] \in opened
    <2>1. i \in 1 .. n - 1
      BY <1>4, <1>7
    <2>2. i \in 1 .. n /\ i # n /\ i \in Nat
      BY <1>1, <2>1, Shorter
    <2>3. PICK g \in Facets : g = d.facets[i]
      BY <1>8, <2>2
    <2>4. d.position[g] = i - 1 /\ (d.selectors[g] # <<>> \/ g \in opened \cup {f})
      BY <1>9, <2>2, <2>3
    <2>5. CASE i = p + 1
      <3>1. e.facets[i] = last
        BY <1>4, <1>7, <2>1, <2>5
      <3>2. last # f
        BY <1>1, <1>2, <1>10, <2>2, <2>5
      <3>3. e.position[last] = p
        BY <1>7, <1>8, <3>2
      <3> QED
        BY <1>2, <1>7, <1>8, <1>9, <2>5, <3>1, <3>2, <3>3
    <2>6. CASE i # p + 1
      <3>1. e.facets[i] = g
        BY <1>4, <1>7, <2>1, <2>3, <2>6
      <3>2. g # f
        BY <1>2, <1>10, <2>2, <2>4, <2>6
      <3>3. g # last
        BY <1>1, <1>10, <2>2, <2>4
      <3> QED
        BY <1>7, <2>4, <3>1, <3>2, <3>3
    <2> QED
      BY <2>5, <2>6
  <1>13. Packed(e, opened)
    <2>1. SelectorsPacked(e)
      BY <1>7, SamePacking DEF Packed
    <2>2. FacetsPacked(e, opened)
      BY <1>11, <1>12 DEF FacetsPacked
    <2> QED
      BY <2>1, <2>2 DEF Packed
  <1> QED
    BY <1>6, <1>7, <1>13 DEF e

\* The storage of removeFunction before it looks whether the facet is empty.
PopFunction(d, f, s) ==
    LET p == d.route[s].position
        last == d.selectors[f][Len(d.selectors[f])]
    IN  [d EXCEPT
            !.route = [t \in Selectors |->
                IF t = s THEN NoRoute
                ELSE IF t = last THEN [@[t] EXCEPT !.position = p] ELSE @[t]],
            !.selectors[f] = SwapAndPop(@, p)]

LEMMA RemoveFunctionPops ==
    ASSUME NEW d, NEW f, NEW s
    PROVE  RemoveFunction(d, f, s) =
              IF Len(d.selectors[f]) = 1 THEN RemoveFacet(PopFunction(d, f, s), f)
              ELSE PopFunction(d, f, s)
  BY DEF RemoveFunction, PopFunction

LEMMA PopFunctionKeeps ==
    ASSUME NEW d \in Storage, NEW f \in Facets, NEW s \in Selectors, NEW opened,
           Packed(d, opened), f \notin opened, d.route[s].facet = f,
           NEW e, e = PopFunction(d, f, s)
    PROVE      /\ e \in Storage
               /\ Len(d.selectors[f]) = 1 => Packed(e, opened \cup {f})
               /\ Len(d.selectors[f]) # 1 => Packed(e, opened)
               /\ Len(d.selectors[f]) = 1 => e.selectors[f] = <<>>
               /\ \A g \in Facets \ {f} : e.selectors[g] = d.selectors[g]
               /\ e.route[s].facet = Zero
               /\ \A t \in Selectors \ {s} : e.route[t].facet = d.route[t].facet
  <1> USE AddressAssumption
  <1> DEFINE n == Len(d.selectors[f])
             p == d.route[s].position
             last == d.selectors[f][n]
             q == SwapAndPop(d.selectors[f], p)
             r == [t \in Selectors |->
                      IF t = s THEN NoRoute
                      ELSE IF t = last THEN [d.route[t] EXCEPT !.position = p]
                      ELSE d.route[t]]
  <1>1. /\ d.position \in [Facets -> Nat] /\ d.facets \in Seq(Facets)
        /\ d.selectors \in [Facets -> Seq(Selectors)] /\ d.route \in [Selectors -> Route]
        /\ \A t \in Selectors : /\ d.route[t].facet \in Facets \cup {Zero}
                                /\ d.route[t].position \in Nat /\ d.route[t] \in Route
    BY StorageFields
  <1>2. /\ d.selectors[f] \in Seq(Selectors) /\ n \in Nat
        /\ DOMAIN d.selectors[f] = 1 .. n
        /\ \A i \in 1 .. n : d.selectors[f][i] \in Selectors
    BY <1>1
  <1>3. p \in Nat /\ p < n /\ d.selectors[f][p + 1] = s
    BY <1>1 DEF Packed, SelectorsPacked, FacetsPacked
  <1>4. /\ e.route = r /\ e.selectors = [d.selectors EXCEPT ![f] = q]
        /\ e.position = d.position /\ e.facets = d.facets
    BY <1>1 DEF PopFunction, Storage
  <1>5. /\ q \in Seq(Selectors) /\ Len(q) = n - 1 /\ DOMAIN q = 1 .. n - 1
        /\ \A i \in 1 .. n - 1 : q[i] = IF i = p + 1 THEN last ELSE d.selectors[f][i]
    <2>1. PICK k \in Nat : k = p /\ k < Len(d.selectors[f])
      BY <1>3
    <2>2. PICK list \in Seq(Selectors) : list = d.selectors[f]
      BY <1>2
    <2>3. q = SwapAndPop(list, k) /\ n = Len(list) /\ last = list[Len(list)]
      BY <2>1, <2>2
    <2> HIDE DEF q, p, n, last
    <2>4. /\ SwapAndPop(list, k) \in Seq(Selectors)
          /\ Len(SwapAndPop(list, k)) = Len(list) - 1
          /\ DOMAIN SwapAndPop(list, k) = 1 .. Len(list) - 1
          /\ \A i \in 1 .. Len(list) - 1 :
                SwapAndPop(list, k)[i] = IF i = k + 1 THEN list[Len(list)] ELSE list[i]
      BY <2>1, <2>2, Popped
    <2> QED
      BY <2>1, <2>2, <2>3, <2>4
  <1>6. \A t \in Selectors :
           [d.route[t] EXCEPT !.position = p] = [facet |-> d.route[t].facet, position |-> p]
    <2> HIDE DEF p
    <2> QED
      BY <1>1, Moved
  <1>7. r \in [Selectors -> Route]
    <2>1. NoRoute \in Route
      BY DEF NoRoute, Route
    <2>2. \A t \in Selectors : [d.route[t] EXCEPT !.position = p] \in Route
      BY <1>1, <1>3, <1>6 DEF Route
    <2> QED
      BY <1>1, <2>1, <2>2
  <1>8. e \in Storage
    <2>1. PICK selectors \in [Facets -> Seq(Selectors)] :
              selectors = [d.selectors EXCEPT ![f] = q]
      BY <1>1, <1>5
    <2>2. PICK route \in [Selectors -> Route] : route = r
      BY <1>7
    <2>3. e = [d EXCEPT !.route = route, !.selectors = selectors]
      BY <1>1, <2>1, <2>2 DEF PopFunction, Storage
    <2> QED
      BY <2>3 DEF Storage
  <1>9. /\ e.route[s] = NoRoute
        /\ \A t \in Selectors \ {s} :
              e.route[t] = IF t = last THEN [facet |-> d.route[t].facet, position |-> p]
                           ELSE d.route[t]
    <2> HIDE DEF p, last, n
    <2> QED
      BY <1>4, <1>6
  <1>10. /\ e.selectors[f] = q /\ e.position = d.position /\ e.facets = d.facets
         /\ \A g \in Facets \ {f} : e.selectors[g] = d.selectors[g]
    <2> HIDE DEF q
    <2> QED
      BY <1>1, <1>4
  <1> HIDE DEF q, r, last, p, n
  <1>11. /\ last \in Selectors /\ n \in 1 .. n /\ d.selectors[f][n] = last
         /\ 1 .. n - 1 \subseteq 1 .. n
    BY <1>2, <1>3 DEF last
  <1>12. \A g \in Facets : \A i \in DOMAIN d.selectors[g] :
            /\ d.selectors[g][i] \in Selectors
            /\ d.route[d.selectors[g][i]] = [facet |-> g, position |-> i - 1]
            /\ d.route[d.selectors[g][i]].facet = g
            /\ d.route[d.selectors[g][i]].position = i - 1
    <2> TAKE g \in Facets
    <2> TAKE i \in DOMAIN d.selectors[g]
    <2>1. d.selectors[g] \in Seq(Selectors)
      BY <1>1
    <2>2. d.route[d.selectors[g][i]] = [facet |-> g, position |-> i - 1]
      BY DEF Packed, SelectorsPacked, FacetsPacked
    <2> QED
      BY <2>1, <2>2
  <1>13. d.route[s].position = p /\ d.route[s].facet = f
         /\ d.route[last].facet = f /\ d.route[last].position = n - 1
    BY <1>2, <1>11, <1>12 DEF p
  <1>14. ASSUME NEW t \in Selectors \ {s}
         PROVE  e.route[t].facet = d.route[t].facet
    <2>1. CASE t = last
      <3>1. e.route[t] = [facet |-> d.route[t].facet, position |-> p]
        BY <1>9, <2>1
      <3> QED
        BY <3>1
    <2>2. CASE t # last
      BY <1>9, <2>2
    <2> QED
      BY <2>1, <2>2
  <1>15. ASSUME NEW t \in Selectors, e.route[t].facet # Zero
         PROVE  /\ e.route[t].position < Len(e.selectors[e.route[t].facet])
                /\ e.selectors[e.route[t].facet][e.route[t].position + 1] = t
    <2>0. t # s
      BY <1>9, <1>15 DEF NoRoute
    <2>1. PICK g \in Facets : g = d.route[t].facet /\ g = e.route[t].facet
      BY <1>1, <1>14, <1>15, <2>0
    <2>2. PICK k \in Nat : k = d.route[t].position
      BY <1>1
    <2>3. k < Len(d.selectors[g]) /\ d.selectors[g][k + 1] = t
      BY <1>15, <2>1, <2>2 DEF Packed, SelectorsPacked, FacetsPacked
    <2>4. CASE t = last
      <3>1. g = f
        BY <1>13, <2>1, <2>4
      <3>4. e.route[t] = [facet |-> d.route[t].facet, position |-> p]
        BY <1>9, <2>0, <2>4
      <3>5. e.route[t].position = p
        BY <3>4
      <3>2. p # n - 1
        BY <1>2, <1>3, <1>11, <2>0, <2>4
      <3>3. p < n - 1 /\ p + 1 \in 1 .. n - 1
        BY <1>2, <1>3, <3>2
      <3> QED
        BY <1>5, <1>10, <2>1, <2>4, <3>1, <3>3, <3>5
    <2>5. CASE t # last /\ g = f
      <3>1. e.route[t].position = k
        BY <1>9, <2>0, <2>2, <2>5
      <3>2. k # n - 1 /\ k # p
        BY <1>2, <1>3, <1>11, <2>0, <2>3, <2>5
      <3>3. k < n - 1 /\ k + 1 \in 1 .. n - 1 /\ k + 1 # p + 1
        BY <1>2, <1>3, <2>3, <2>5, <3>2 DEF n
      <3> QED
        BY <1>5, <1>10, <2>1, <2>3, <2>5, <3>1, <3>3
    <2>6. CASE t # last /\ g # f
      <3>1. e.route[t] = d.route[t] /\ e.selectors[g] = d.selectors[g]
        BY <1>9, <1>10, <2>0, <2>6
      <3> QED
        BY <2>1, <2>2, <2>3, <3>1
    <2> QED
      BY <2>4, <2>5, <2>6
  <1>16. ASSUME NEW g \in Facets, NEW i \in DOMAIN e.selectors[g]
         PROVE  e.route[e.selectors[g][i]] = [facet |-> g, position |-> i - 1]
    <2>1. CASE g = f /\ i = p + 1
      <3>1. i \in 1 .. n - 1 /\ e.selectors[g][i] = last
        BY <1>5, <1>10, <2>1
      <3>2. last # s
        BY <1>2, <1>3, <1>13, <2>1, <3>1
      <3> QED
        BY <1>3, <1>9, <1>11, <1>13, <2>1, <3>1, <3>2
    <2>2. CASE g = f /\ i # p + 1
      <3>1. /\ i \in 1 .. n - 1 /\ i \in 1 .. n /\ i # n
            /\ e.selectors[g][i] = d.selectors[f][i]
        BY <1>2, <1>5, <1>10, <2>2
      <3>2. d.route[d.selectors[f][i]].position = i - 1
            /\ d.selectors[f][i] \in Selectors
            /\ d.route[d.selectors[f][i]] = [facet |-> f, position |-> i - 1]
        BY <1>2, <1>12, <3>1
      <3>3. d.selectors[f][i] # s /\ d.selectors[f][i] # last
        BY <1>2, <1>3, <1>13, <2>2, <3>1, <3>2
      <3> QED
        BY <1>9, <2>2, <3>1, <3>2, <3>3
    <2>3. CASE g # f
      <3>1. i \in DOMAIN d.selectors[g] /\ e.selectors[g][i] = d.selectors[g][i]
        BY <1>10, <2>3
      <3>2. PICK t \in Selectors : t = d.selectors[g][i]
        BY <1>12, <3>1
      <3>3. d.route[t] = [facet |-> g, position |-> i - 1] /\ d.route[t].facet = g
        BY <1>12, <3>1, <3>2
      <3>4. t # s /\ t # last
        BY <1>13, <2>3, <3>3
      <3>5. e.route[t] = d.route[t]
        BY <1>9, <3>4
      <3> QED
        BY <3>1, <3>2, <3>3, <3>5
    <2> QED
      BY <2>1, <2>2, <2>3
  <1>17. n = 1 => e.selectors[f] = <<>>
    BY <1>5, <1>10
  <1>18. n # 1 => e.selectors[f] # <<>>
    BY <1>2, <1>3, <1>5, <1>10
  <1>19. PICK open : open = IF n = 1 THEN opened \cup {f} ELSE opened
    OBVIOUS
  <1>20. d.selectors[f] # <<>>
    BY <1>2, <1>3
  <1>21. \A g \in Facets : e.selectors[g] # <<>> \/ g \in open
                              <=> d.selectors[g] # <<>> \/ g \in opened
    BY <1>10, <1>17, <1>18, <1>19, <1>20
  <1>22. \A i \in DOMAIN d.facets : d.facets[i] \in Facets
    BY <1>1
  <1>23. Packed(e, open)
    <2>1. \A g \in Facets : e.selectors[g] # <<>> \/ g \in open =>
             e.position[g] < Len(e.facets) /\ e.facets[e.position[g] + 1] = g
      BY <1>10, <1>21 DEF Packed, SelectorsPacked, FacetsPacked
    <2>2. \A i \in DOMAIN e.facets :
             /\ e.position[e.facets[i]] = i - 1
             /\ e.selectors[e.facets[i]] # <<>> \/ e.facets[i] \in open
      BY <1>10, <1>21, <1>22 DEF Packed, SelectorsPacked, FacetsPacked
    <2> QED
      BY <1>15, <1>16, <2>1, <2>2 DEF Packed, SelectorsPacked, FacetsPacked
  <1>24. e.route[s].facet = Zero
    BY <1>9 DEF NoRoute
  <1> QED
    BY <1>8, <1>10, <1>14, <1>17, <1>19, <1>23, <1>24 DEF n

LEMMA RemoveFunctionKeeps ==
    ASSUME NEW d \in Storage, NEW f \in Facets, NEW s \in Selectors, NEW opened,
           Packed(d, opened), f \notin opened, d.route[s].facet = f
    PROVE  LET e == RemoveFunction(d, f, s)
           IN  /\ e \in Storage
               /\ Packed(e, opened)
               /\ \A g \in Facets \ {f} : e.selectors[g] = d.selectors[g]
               /\ e.route[s].facet = Zero
               /\ \A t \in Selectors \ {s} : e.route[t].facet = d.route[t].facet
  <1>1. PICK c : c = PopFunction(d, f, s)
    OBVIOUS
  <1>2. /\ c \in Storage
        /\ Len(d.selectors[f]) = 1 => Packed(c, opened \cup {f})
        /\ Len(d.selectors[f]) # 1 => Packed(c, opened)
        /\ Len(d.selectors[f]) = 1 => c.selectors[f] = <<>>
        /\ \A g \in Facets \ {f} : c.selectors[g] = d.selectors[g]
        /\ c.route[s].facet = Zero
        /\ \A t \in Selectors \ {s} : c.route[t].facet = d.route[t].facet
    BY <1>1, PopFunctionKeeps
  <1>3. PICK e : e = RemoveFunction(d, f, s)
    OBVIOUS
  <1>4. CASE Len(d.selectors[f]) = 1
    <2>1. e = RemoveFacet(c, f)
      BY <1>1, <1>3, <1>4, RemoveFunctionPops
    <2>2. e \in Storage /\ e.route = c.route /\ e.selectors = c.selectors /\ Packed(e, opened)
      BY <1>2, <1>4, <2>1, RemoveFacetKeeps
    <2> QED
      BY <1>2, <1>3, <2>2
  <1>5. CASE Len(d.selectors[f]) # 1
    <2>1. e = c
      BY <1>1, <1>3, <1>5, RemoveFunctionPops
    <2> QED
      BY <1>2, <1>3, <1>5, <2>1
  <1> QED
    BY <1>4, <1>5

-----------------------------------------------------------------------------
(* The steps of the diamond. *)

\* A call by selector leaves the table as it is.
LEMMA CallKeeps ==
    ASSUME IndInv, UNCHANGED <<ds, tx>>
    PROVE  TableIsPacked' /\ CutInv' /\ ds' \in Storage /\ tx' \in Cut \cup {None}
  BY DEF IndInv, TypeOK, TableIsPacked, Opened, CutInv

LEMMA CutFields ==
    ASSUME NEW c \in Cut
    PROVE  /\ c.action \in Actions \cup {"none"} /\ c.facet \in Facets \cup {Zero}
           /\ c.next \in Nat /\ c.some \in BOOLEAN /\ c.before \in Storage
           /\ c # None
  BY NoneAssumption DEF Cut

\* An iteration over selectors that leaves ds packed.
LEMMA SelectorStep ==
    ASSUME IndInv, tx # None,
           ds' \in Storage, Packed(ds', {}),
           tx.action \in {"Add", "Replace"} =>
              /\ tx'.next = Len(ds'.selectors[tx.facet])
              /\ ds'.selectors[tx.facet] # <<>>
              /\ tx'.next \in Nat,
           tx.action \in {"Remove", "none"} => tx'.next = tx.next,
           tx' = [tx EXCEPT !.next = tx'.next, !.some = TRUE],
           UNCHANGED <<owner, attestation>>
    PROVE  IndInv'
  <1>1. tx \in Cut /\ CutInv /\ TypeOK
    BY DEF IndInv, TypeOK
  <1>2. PICK next \in Nat : next = tx'.next
    BY <1>1, CutFields DEF Actions
  <1>3. /\ tx' = [tx EXCEPT !.next = next, !.some = TRUE]
        /\ tx'.action = tx.action /\ tx'.facet = tx.facet /\ tx'.next = next
        /\ tx'.some = TRUE /\ tx'.before = tx.before
    BY <1>1, <1>2 DEF Cut
  <1>4. tx' \in Cut
    BY <1>1, <1>3 DEF Cut
  <1>5. TypeOK'
    BY <1>1, <1>4 DEF TypeOK, attestation, HasRoot, Counted
  <1>6. tx' # None
    BY <1>4, CutFields
  <1>7. TableIsPacked'
    BY <1>3, <1>6 DEF TableIsPacked, Opened
  <1>8. CutInv'
    BY <1>1, <1>2, <1>3, <1>6 DEF CutInv
  <1> QED
    BY <1>5, <1>7, <1>8 DEF IndInv

\* A facet at address(0) is none.
LEMMA OpenedNone ==
    ASSUME NEW d \in Storage
    PROVE  Packed(d, {Zero}) <=> Packed(d, {})
  <1>1. \A i \in DOMAIN d.facets : d.facets[i] \in Facets
    BY StorageFields
  <1> QED
    BY <1>1, AddressAssumption DEF Packed, FacetsPacked

\* Between two FacetCuts nothing is opened; within one at most its facet is.
LEMMA WhatIsOpened ==
    ASSUME IndInv
    PROVE  /\ Packed(ds, Opened) /\ ds \in Storage
           /\ tx = None => Packed(ds, {})
           /\ tx # None => /\ Opened \subseteq {tx.facet}
                           /\ tx.some => Packed(ds, {})
                           /\ ~ tx.some => Opened = {tx.facet}
  BY DEF IndInv, TypeOK, TableIsPacked, Opened

LEMMA BatchesKept ==
    ASSUME TypeOK, UNCHANGED attestation, owner' \in Accounts \cup {Zero},
           ds' \in Storage, tx' \in Cut \cup {None}
    PROVE  TypeOK'
  BY DEF TypeOK, attestation, HasRoot, Counted

LEMMA NextFacetCutKeeps ==
    ASSUME IndInv, NEW action \in Actions, NEW f \in Facets \cup {Zero},
           NextFacetCut(action, f)
    PROVE  IndInv'
  <1> USE AddressAssumption
  <1>1. TypeOK /\ CutInv /\ ds \in Storage /\ tx \in Cut /\ tx # None
    BY DEF IndInv, TypeOK, NextFacetCut
  <1>2. Packed(ds, {})
    BY WhatIsOpened DEF NextFacetCut
  <1>3. \A g \in Facets : Len(ds.selectors[g]) \in Nat
    BY <1>1, StorageFields
  <1>4. PICK next \in Nat : next = IF f = Zero THEN 0 ELSE Len(ds.selectors[f])
    BY <1>3
  <1>5. tx' = [tx EXCEPT !.action = action, !.facet = f, !.some = FALSE, !.next = next]
    BY <1>4 DEF NextFacetCut
  <1>6. /\ tx' \in Cut
        /\ tx'.action = action /\ tx'.facet = f /\ tx'.some = FALSE /\ tx'.next = next
        /\ tx'.before = tx.before
    BY <1>1, <1>5 DEF Cut
  <1>7. tx' # None
    BY <1>6, CutFields
  <1>8. Opened' = {f}
    BY <1>6, <1>7 DEF Opened
  <1>9. Packed(tx.before, {})
    BY <1>1 DEF CutInv
  <1>10. CASE action = "Remove"
    <2>1. f = Zero /\ ds' = ds
      BY <1>10 DEF NextFacetCut
    <2>2. Packed(ds', {Zero})
      BY <1>1, <1>2, <2>1, OpenedNone
    <2>3. TableIsPacked'
      BY <1>8, <2>1, <2>2 DEF TableIsPacked
    <2>4. CutInv'
      BY <1>6, <1>9, <1>10, <2>1 DEF CutInv
    <2>5. TypeOK'
      BY <1>1, <1>6, <2>1, BatchesKept DEF NextFacetCut, TypeOK
    <2> QED
      BY <2>3, <2>4, <2>5 DEF IndInv
  <1>11. CASE action # "Remove"
    <2>1. f \in Facets /\ f # Zero /\ action \in {"Add", "Replace"}
      BY <1>11 DEF NextFacetCut, Actions
    <2>2. ds' \in Storage /\ Packed(ds', {f}) /\ ds'.selectors = ds.selectors
      <3>1. CASE ds.selectors[f] = <<>>
        <4>1. ds' = AddFacet(ds, f)
          BY <1>11, <3>1 DEF NextFacetCut
        <4> QED
          BY <1>1, <1>2, <2>1, <3>1, <4>1, AddFacetKeeps
      <3>2. CASE ds.selectors[f] # <<>>
        <4>1. ds' = ds
          BY <1>11, <3>2 DEF NextFacetCut
        <4>2. FacetsPacked(ds, {f})
          BY <1>2, <3>2 DEF Packed, FacetsPacked
        <4> QED
          BY <1>1, <1>2, <4>1, <4>2 DEF Packed
      <3> QED
        BY <3>1, <3>2
    <2>3. TableIsPacked'
      BY <1>8, <2>2 DEF TableIsPacked
    <2>4. CutInv'
      BY <1>4, <1>6, <1>9, <2>1, <2>2 DEF CutInv
    <2>5. TypeOK'
      BY <1>1, <1>6, <2>2, BatchesKept DEF NextFacetCut, TypeOK
    <2> QED
      BY <2>3, <2>4, <2>5 DEF IndInv
  <1> QED
    BY <1>10, <1>11

LEMMA AddSelectorKeeps ==
    ASSUME IndInv, NEW s \in Selectors, AddSelector(s)
    PROVE  IndInv'
  <1> USE AddressAssumption
  <1>1. /\ ds \in Storage /\ tx \in Cut /\ tx # None /\ CutInv
        /\ tx.action = "Add" /\ ds.route[s].facet = Zero
    BY DEF IndInv, TypeOK, AddSelector, FacetAddress
  <1>2. PICK f \in Facets : f = tx.facet
    BY <1>1 DEF CutInv
  <1>3. /\ tx.next = Len(ds.selectors[f]) /\ tx.next \in Nat
        /\ tx.some => ds.selectors[f] # <<>>
    BY <1>1, <1>2, CutFields DEF CutInv
  <1>4. /\ Packed(ds, Opened) /\ Opened \subseteq {f}
        /\ ds.selectors[f] # <<>> \/ f \in Opened
    BY <1>1, <1>2, <1>3, WhatIsOpened
  <1>5. ds' = AddFunction(ds, s, Len(ds.selectors[f]), f)
    BY <1>2, <1>3 DEF AddSelector
  <1>6. /\ ds' \in Storage /\ Packed(ds', {})
        /\ Len(ds'.selectors[f]) = Len(ds.selectors[f]) + 1
        /\ ds'.selectors[f] # <<>>
    BY <1>1, <1>4, <1>5, AddFunctionKeeps
  <1>7. tx' = [tx EXCEPT !.next = tx.next + 1, !.some = TRUE]
    BY DEF AddSelector
  <1>8. tx'.next = tx.next + 1
    BY <1>1, <1>7 DEF Cut
  <1> QED
    BY <1>1, <1>2, <1>3, <1>6, <1>7, <1>8, SelectorStep DEF AddSelector

LEMMA ReplaceSelectorKeeps ==
    ASSUME IndInv, NEW s \in Selectors, ReplaceSelector(s)
    PROVE  IndInv'
  <1> USE AddressAssumption
  <1>1. /\ ds \in Storage /\ tx \in Cut /\ tx # None /\ CutInv
        /\ tx.action = "Replace"
    BY DEF IndInv, TypeOK, ReplaceSelector
  <1>2. PICK f \in Facets : f = tx.facet
    BY <1>1 DEF CutInv
  <1>3. /\ tx.next = Len(ds.selectors[f]) /\ tx.next \in Nat
        /\ tx.some => ds.selectors[f] # <<>>
    BY <1>1, <1>2, CutFields DEF CutInv
  <1>4. PICK old \in Facets : old = ds.route[s].facet /\ old # f
    BY <1>1, <1>2, StorageFields DEF ReplaceSelector, FacetAddress
  <1>5. /\ Packed(ds, Opened) /\ Opened \subseteq {f} /\ old \notin Opened
        /\ ds.selectors[f] # <<>> \/ f \in Opened
    BY <1>1, <1>2, <1>3, <1>4, WhatIsOpened
  <1>6. PICK c : c = RemoveFunction(ds, old, s)
    OBVIOUS
  <1>7. /\ c \in Storage /\ Packed(c, Opened) /\ c.selectors[f] = ds.selectors[f]
        /\ c.route[s].facet = Zero
    BY <1>1, <1>2, <1>4, <1>5, <1>6, RemoveFunctionKeeps
  <1>8. ds' = AddFunction(c, s, Len(c.selectors[f]), f)
    BY <1>2, <1>3, <1>4, <1>6, <1>7 DEF ReplaceSelector, FacetAddress
  <1>9. /\ ds' \in Storage /\ Packed(ds', {})
        /\ Len(ds'.selectors[f]) = Len(c.selectors[f]) + 1
        /\ ds'.selectors[f] # <<>>
    BY <1>5, <1>7, <1>8, AddFunctionKeeps
  <1>10. tx' = [tx EXCEPT !.next = tx.next + 1, !.some = TRUE]
    BY DEF ReplaceSelector
  <1>11. tx'.next = tx.next + 1
    BY <1>1, <1>10 DEF Cut
  <1> QED
    BY <1>1, <1>2, <1>3, <1>7, <1>9, <1>10, <1>11, SelectorStep DEF ReplaceSelector

LEMMA RemoveSelectorKeeps ==
    ASSUME IndInv, NEW s \in Selectors, RemoveSelector(s)
    PROVE  IndInv'
  <1> USE AddressAssumption
  <1>1. /\ ds \in Storage /\ tx \in Cut /\ tx # None /\ CutInv
        /\ tx.action = "Remove" /\ tx.facet = Zero
    BY DEF IndInv, TypeOK, RemoveSelector, CutInv
  <1>2. PICK old \in Facets : old = ds.route[s].facet /\ old # Zero
    BY <1>1, StorageFields DEF RemoveSelector, FacetAddress
  <1>3. Packed(ds, {})
    BY <1>1, WhatIsOpened, OpenedNone
  <1>4. ds' = RemoveFunction(ds, old, s)
    BY <1>2 DEF RemoveSelector, FacetAddress
  <1>5. ds' \in Storage /\ Packed(ds', {})
    BY <1>1, <1>2, <1>3, <1>4, RemoveFunctionKeeps
  <1>6. tx' = [tx EXCEPT !.some = TRUE]
    BY DEF RemoveSelector
  <1>7. tx'.next = tx.next /\ tx' = [tx EXCEPT !.next = tx'.next, !.some = TRUE]
    BY <1>1, <1>6 DEF Cut
  <1> QED
    BY <1>1, <1>5, <1>7, SelectorStep DEF RemoveSelector

LEMMA NextKeeps ==
    ASSUME IndInv, [Next]_vars
    PROVE  IndInv'
  <1> USE AddressAssumption
  <1>0. TypeOK /\ ds \in Storage /\ CutInv /\ TableIsPacked
    BY DEF IndInv, TypeOK
  <1>1. ASSUME NEW a \in Accounts, DiamondCut(a) PROVE IndInv'
    <2>1. tx = None /\ Packed(ds, {})
      BY <1>1, WhatIsOpened DEF DiamondCut, Runs
    <2>2. tx' = [action |-> "none", facet |-> Zero, next |-> 0, some |-> TRUE, before |-> ds]
      BY <1>1 DEF DiamondCut
    <2>3. tx' \in Cut /\ tx' # None
      BY <1>0, <2>2, CutFields DEF Cut
    <2>4. TypeOK'
      BY <1>0, <1>1, <2>3, BatchesKept DEF DiamondCut, TypeOK
    <2>5. TableIsPacked'
      BY <1>1, <2>1, <2>2 DEF DiamondCut, TableIsPacked, Opened
    <2>6. CutInv'
      BY <2>1, <2>2 DEF CutInv
    <2> QED
      BY <2>4, <2>5, <2>6 DEF IndInv
  <1>2. ASSUME NEW a \in Accounts, NEW b \in Accounts \cup {Zero}, TransferOwnership(a, b)
        PROVE  IndInv'
    <2>1. TypeOK'
      BY <1>0, <1>2, BatchesKept DEF TransferOwnership, TypeOK
    <2> QED
      BY <1>2, <2>1, CallKeeps DEF IndInv, TransferOwnership
  <1>3. ASSUME NEW a \in Accounts, NEW b \in Accounts, AddAttester(a, b) \/ RemoveAttester(a, b)
        PROVE  IndInv'
    <2>1. TypeOK'
      BY <1>0, <1>3 DEF AddAttester, RemoveAttester, TypeOK, HasRoot, Counted
    <2> QED
      BY <1>3, <2>1, CallKeeps DEF IndInv, AddAttester, RemoveAttester
  <1>4. ASSUME NEW a \in Accounts, NEW root \in Roots, SubmitBatch(a, root) PROVE IndInv'
    <2>1. PICK n \in 1 .. MaxBatches : n = batchCount + 1
      BY <1>0, <1>4, MaxBatchesAssumption DEF SubmitBatch, TypeOK
    <2>2. batches' = [batches EXCEPT ![n] = [root |-> root, attester |-> a]] /\ batchCount' = n
      BY <1>4, <2>1 DEF SubmitBatch
    <2>3. [root |-> root, attester |-> a] \in Batch
      BY DEF Batch
    <2>4. /\ batches' \in [1 .. MaxBatches -> Batch]
          /\ batches'[n].root = root
          /\ \A id \in 1 .. MaxBatches : id # n => batches'[id] = batches[id]
      BY <1>0, <2>2, <2>3 DEF TypeOK
    <2>5. \A id \in 1 .. MaxBatches : HasRoot(id)' <=> Counted(id)'
      <3> TAKE id \in 1 .. MaxBatches
      <3>1. batches \in [1 .. MaxBatches -> Batch] /\ batchCount \in Nat /\ id \in Nat
        BY <1>0, MaxBatchesAssumption DEF TypeOK
      <3>2. CASE id = n
        BY <2>1, <2>2, <2>4, <3>1, <3>2 DEF HasRoot, Counted
      <3>3. CASE id # n
        <4>1. HasRoot(id) <=> Counted(id)
          BY <1>0 DEF TypeOK
        <4>2. HasRoot(id)' <=> HasRoot(id)
          BY <2>4, <3>1, <3>3 DEF HasRoot
        <4>3. Counted(id)' <=> Counted(id)
          BY <2>1, <2>2, <3>1, <3>3 DEF Counted
        <4> QED
          BY <4>1, <4>2, <4>3
      <3> QED
        BY <3>2, <3>3
    <2>6. TypeOK'
      BY <1>0, <1>4, <2>1, <2>2, <2>4, <2>5, MaxBatchesAssumption DEF SubmitBatch, TypeOK
    <2> QED
      BY <1>4, <2>6, CallKeeps DEF IndInv, SubmitBatch
  <1>5. ASSUME NEW action \in Actions, NEW f \in Facets \cup {Zero}, NextFacetCut(action, f)
        PROVE  IndInv'
    BY <1>5, NextFacetCutKeeps
  <1>6. ASSUME NEW s \in Selectors, AddSelector(s) PROVE IndInv'
    BY <1>6, AddSelectorKeeps
  <1>7. ASSUME NEW s \in Selectors, ReplaceSelector(s) PROVE IndInv'
    BY <1>7, ReplaceSelectorKeeps
  <1>8. ASSUME NEW s \in Selectors, RemoveSelector(s) PROVE IndInv'
    BY <1>8, RemoveSelectorKeeps
  <1>9. ASSUME InitializeDiamondCut PROVE IndInv'
    <2>1. Packed(ds, {})
      BY <1>9, WhatIsOpened DEF InitializeDiamondCut
    <2>2. TypeOK'
      BY <1>0, <1>9, BatchesKept DEF InitializeDiamondCut, TypeOK
    <2> QED
      BY <1>9, <2>1, <2>2 DEF InitializeDiamondCut, IndInv, TableIsPacked, Opened, CutInv
  <1>10. ASSUME RevertCut PROVE IndInv'
    <2>1. tx \in Cut /\ Packed(tx.before, {}) /\ tx.before \in Storage
      BY <1>0, <1>10, CutFields DEF RevertCut, TypeOK, CutInv
    <2>2. TypeOK'
      BY <1>0, <1>10, <2>1, BatchesKept DEF RevertCut, TypeOK
    <2> QED
      BY <1>10, <2>1, <2>2 DEF RevertCut, IndInv, TableIsPacked, Opened, CutInv
  <1>11. CASE UNCHANGED vars
    <2>1. TypeOK'
      BY <1>0, <1>11, BatchesKept DEF vars, TypeOK
    <2> QED
      BY <1>11, <2>1, CallKeeps DEF IndInv, vars
  <1> QED
    BY <1>1, <1>2, <1>3, <1>4, <1>5, <1>6, <1>7, <1>8, <1>9, <1>10, <1>11 DEF Next

-----------------------------------------------------------------------------
(* The constructor, and the theorems. *)

\* Before the constructor's cut there is nothing to pack.
LEMMA ConstructedPacked == Constructed \in Storage /\ Packed(Constructed, {})
  <1> USE AddressAssumption
  <1> DEFINE none == [route |-> [s \in Selectors |-> NoRoute],
                      selectors |-> [f \in Facets |-> <<>>],
                      position |-> [f \in Facets |-> 0],
                      facets |-> <<>>]
  <1>1. none \in Storage
    <2>1. [s \in Selectors |-> NoRoute] \in [Selectors -> Route]
      BY DEF NoRoute, Route
    <2> QED
      BY <2>1 DEF Storage
  <1>2. Packed(none, {})
    BY DEF Packed, SelectorsPacked, FacetsPacked, NoRoute
  <1>3. none.selectors[CutFacet] = <<>> /\ none.route[DiamondCutFn].facet = Zero
    BY DEF NoRoute, Selectors
  <1>4. Constructed = AddFunction(AddFacet(none, CutFacet), DiamondCutFn, 0, CutFacet)
    BY DEF Constructed
  <1> HIDE DEF none
  <1>5. PICK d : d = AddFacet(none, CutFacet)
    OBVIOUS
  <1>6. /\ d \in Storage /\ d.selectors = none.selectors /\ d.route = none.route
        /\ Packed(d, {CutFacet})
    BY <1>1, <1>2, <1>3, <1>5, AddFacetKeeps
  <1>7. Len(d.selectors[CutFacet]) = 0
    BY <1>3, <1>6
  <1>8. Constructed = AddFunction(d, DiamondCutFn, Len(d.selectors[CutFacet]), CutFacet)
    BY <1>4, <1>5, <1>7
  <1> QED
    BY <1>3, <1>6, <1>8, AddFunctionKeeps DEF Selectors

LEMMA InitKeeps == Init => IndInv
  <1> SUFFICES ASSUME Init PROVE IndInv
    OBVIOUS
  <1> USE AddressAssumption, MaxBatchesAssumption
  <1>1. ds \in Storage /\ Packed(ds, {}) /\ tx = None
    BY ConstructedPacked DEF Init
  <1>2. TypeOK
    BY <1>1 DEF Init, TypeOK, Batch, HasRoot, Counted
  <1> QED
    BY <1>1, <1>2 DEF IndInv, TableIsPacked, Opened, CutInv

LEMMA Inductive == Spec => []IndInv
  BY InitKeeps, NextKeeps, PTL DEF Spec

\* Types, and a batch is stored just when it is counted, after any calls.
THEOREM TypeCorrect == Spec => []TypeOK
  <1>1. IndInv => TypeOK
    BY DEF IndInv
  <1> QED
    BY <1>1, Inductive, PTL

\* The loupe's arrays and the fallback's table agree at each iteration of any
\* cut, of any length and whatever it replaces or removes.
THEOREM ArraysStayPacked == Spec => []TableIsPacked
  <1>1. IndInv => TableIsPacked
    BY DEF IndInv
  <1> QED
    BY <1>1, Inductive, PTL

\* A diamond owned by address(0), or whose diamondCut does not run, keeps its
\* functions and cannot be cut again.
THEOREM FrozenForGood == Spec => StuckForGood
  <1>1. ASSUME IndInv, [Next]_vars, Stuck PROVE Stuck' /\ ds' = ds
    <2> USE AddressAssumption
    <2>1. tx = None /\ owner \in Accounts \cup {Zero}
      BY <1>1 DEF Stuck, IndInv, TypeOK
    <2>2. ASSUME NEW a \in Accounts PROVE ~ DiamondCut(a)
      BY <1>1 DEF Stuck, DiamondCut, EnforceIsContractOwner
    <2>3. ds' = ds /\ tx' = tx
      BY <1>1, <2>1, <2>2
      DEF Next, vars, TransferOwnership, AddAttester, RemoveAttester, SubmitBatch,
          NextFacetCut, AddSelector, ReplaceSelector, RemoveSelector,
          InitializeDiamondCut, RevertCut
    <2>4. owner = Zero => owner' = Zero
      BY <1>1, <2>1
      DEF Next, vars, DiamondCut, TransferOwnership, AddAttester, RemoveAttester,
          SubmitBatch, NextFacetCut, AddSelector, ReplaceSelector, RemoveSelector,
          InitializeDiamondCut, RevertCut, EnforceIsContractOwner
    <2>5. Runs(DiamondCutFn)' <=> Runs(DiamondCutFn)
      BY <2>3 DEF Runs, FacetAddress
    <2> QED
      BY <1>1, <2>1, <2>3, <2>4, <2>5 DEF Stuck
  <1> QED
    BY <1>1, Inductive, PTL DEF Spec, StuckForGood

\* What the array operations do to the table that the fallback reads.
LEMMA TableType ==
    ASSUME NEW d \in Storage
    PROVE  /\ TableOf(d) \in [Selectors -> Facets \cup {Zero}]
           /\ TableOf(d) # None
           /\ \A s \in Selectors : TableOf(d)[s] = FacetAddress(d, s)
  <1>1. \A s \in Selectors : d.route[s].facet \in Facets \cup {Zero}
    BY StorageFields
  <1>2. TableOf(d) \in [Selectors -> Facets \cup {Zero}]
    BY <1>1 DEF TableOf, FacetAddress
  <1> QED
    BY <1>2, NoneAssumption DEF TableOf

LEMMA TableAfterAddFunction ==
    ASSUME NEW d \in Storage, NEW s \in Selectors, NEW f \in Facets, NEW p \in Nat
    PROVE  TableOf(AddFunction(d, s, p, f)) = [TableOf(d) EXCEPT ![s] = f]
  <1>1. AddFunction(d, s, p, f).route = [d.route EXCEPT ![s] = [facet |-> f, position |-> p]]
    BY DEF AddFunction, Storage
  <1>2. PICK route : route = AddFunction(d, s, p, f).route
    OBVIOUS
  <1>3. /\ route[s].facet = f
        /\ \A t \in Selectors \ {s} : route[t] = d.route[t]
    BY <1>1, <1>2, StorageFields
  <1> QED
    BY <1>2, <1>3 DEF TableOf, FacetAddress

LEMMA TableAfterRemoveFunction ==
    ASSUME NEW d \in Storage, NEW s \in Selectors, NEW f \in Facets, NEW opened,
           Packed(d, opened), f \notin opened, d.route[s].facet = f
    PROVE  TableOf(RemoveFunction(d, f, s)) = [TableOf(d) EXCEPT ![s] = Zero]
  <1>1. PICK e : e = RemoveFunction(d, f, s)
    OBVIOUS
  <1>2. /\ e.route[s].facet = Zero
        /\ \A t \in Selectors \ {s} : e.route[t].facet = d.route[t].facet
    BY <1>1, RemoveFunctionKeeps
  <1> QED
    BY <1>1, <1>2 DEF TableOf, FacetAddress

\* A FacetCut that begins changes no function.
LEMMA TableAfterNextFacetCut ==
    ASSUME IndInv, NEW action \in Actions, NEW f \in Facets \cup {Zero},
           NextFacetCut(action, f)
    PROVE  TableOf(ds') = TableOf(ds)
  <1>1. ds \in Storage
    BY DEF IndInv, TypeOK
  <1>2. ds' = ds \/ (f \in Facets /\ ds' = AddFacet(ds, f))
    BY DEF NextFacetCut
  <1>3. ASSUME f \in Facets PROVE AddFacet(ds, f).route = ds.route
    BY <1>1 DEF AddFacet, Storage
  <1> QED
    BY <1>2, <1>3 DEF TableOf, FacetAddress

\* The table as the last committed cut left it, and the one a cut has drafted.
Committed == TableOf(IF tx = None THEN ds ELSE tx.before)
Drafted == IF tx = None THEN None ELSE TableOf(ds)

\* Within a cut, tx stays a cut and keeps what a revert restores.
LEMMA CutGoesOn ==
    ASSUME IndInv, tx # None,
           \/ \E action \in Actions, f \in Facets \cup {Zero} : NextFacetCut(action, f)
           \/ \E s \in Selectors : AddSelector(s) \/ ReplaceSelector(s) \/ RemoveSelector(s)
    PROVE  tx' # None /\ tx'.before = tx.before
  <1>1. tx \in Cut /\ ds \in Storage
    BY DEF IndInv, TypeOK
  <1>2. ASSUME NEW action \in Actions, NEW f \in Facets \cup {Zero}, NextFacetCut(action, f)
        PROVE  tx' \in Cut /\ tx'.before = tx.before
    <2>1. PICK next \in Nat : next = IF f = Zero THEN 0 ELSE Len(ds.selectors[f])
      <3>1. \A g \in Facets : Len(ds.selectors[g]) \in Nat
        BY <1>1, StorageFields
      <3> QED
        BY <3>1
    <2>2. tx' = [tx EXCEPT !.action = action, !.facet = f, !.some = FALSE, !.next = next]
      BY <1>2, <2>1 DEF NextFacetCut
    <2> QED
      BY <1>1, <2>2 DEF Cut
  <1>3. ASSUME NEW s \in Selectors, AddSelector(s) \/ ReplaceSelector(s)
        PROVE  tx' \in Cut /\ tx'.before = tx.before
    <2>1. PICK next \in Nat : next = tx.next + 1
      BY <1>1, CutFields
    <2>2. tx' = [tx EXCEPT !.next = next, !.some = TRUE]
      BY <1>3, <2>1 DEF AddSelector, ReplaceSelector
    <2> QED
      BY <1>1, <2>2 DEF Cut
  <1>4. ASSUME NEW s \in Selectors, RemoveSelector(s)
        PROVE  tx' \in Cut /\ tx'.before = tx.before
    <2>1. tx' = [tx EXCEPT !.some = TRUE]
      BY <1>4 DEF RemoveSelector
    <2> QED
      BY <1>1, <2>1 DEF Cut
  <1>5. tx' \in Cut /\ tx'.before = tx.before
    BY <1>2, <1>3, <1>4
  <1> QED
    BY <1>5, CutFields

LEMMA AbstractStep ==
    ASSUME IndInv, IndInv', [Next]_vars
    PROVE  [Abstract!Next]_<<Committed, Drafted>>
  <1> USE AddressAssumption
  <1> USE DEF Committed, Drafted
  <1>0. /\ ds \in Storage /\ ds' \in Storage /\ CutInv /\ tx \in Cut \cup {None}
        /\ TableOf(ds) # None /\ TableOf(ds') # None
        /\ \A s \in Selectors : TableOf(ds)[s] = FacetAddress(ds, s)
    BY TableType DEF IndInv, TypeOK
  <1>1. ASSUME NEW a \in Accounts, DiamondCut(a) PROVE Abstract!Begin
    <2>1. tx = None /\ ds' = ds
      BY <1>1 DEF DiamondCut, Runs
    <2>2. tx' = [action |-> "none", facet |-> Zero, next |-> 0, some |-> TRUE, before |-> ds]
      BY <1>1 DEF DiamondCut
    <2>3. tx' # None /\ tx'.before = ds
      <3>1. tx' \in Cut
        BY <1>0, <2>2 DEF Cut
      <3> QED
        BY <2>2, <3>1, CutFields
    <2> QED
      BY <2>1, <2>3 DEF Abstract!Begin
  <1>2. ASSUME UNCHANGED <<ds, tx>> PROVE UNCHANGED <<Committed, Drafted>>
    BY <1>2
  <1>3. ASSUME NEW action \in Actions, NEW f \in Facets \cup {Zero}, NextFacetCut(action, f)
        PROVE  UNCHANGED <<Committed, Drafted>>
    <2>1. TableOf(ds') = TableOf(ds)
      BY <1>3, TableAfterNextFacetCut
    <2>2. tx # None /\ tx' # None /\ tx'.before = tx.before
      BY <1>3, CutGoesOn DEF NextFacetCut
    <2> QED
      BY <2>1, <2>2
  <1>4. ASSUME NEW s \in Selectors, AddSelector(s)
        PROVE  \E f \in Facets : Abstract!Add(s, f)
    <2>1. PICK f \in Facets : f = tx.facet
      BY <1>4 DEF AddSelector, IndInv, CutInv
    <2>2. tx.next \in Nat /\ tx \in Cut /\ tx # None
      BY <1>0, <1>4, CutFields DEF AddSelector
    <2>3. TableOf(ds') = [TableOf(ds) EXCEPT ![s] = f]
      BY <1>0, <1>4, <2>1, <2>2, TableAfterAddFunction DEF AddSelector
    <2>4. tx' # None /\ tx'.before = tx.before
      BY <1>4, <2>2, CutGoesOn
    <2>5. TableOf(ds)[s] = Zero
      BY <1>0, <1>4 DEF AddSelector
    <2> QED
      BY <1>0, <2>2, <2>3, <2>4, <2>5 DEF Abstract!Add
  <1>5. ASSUME NEW s \in Selectors, ReplaceSelector(s)
        PROVE  \E f \in Facets : Abstract!Replace(s, f)
    <2>1. PICK f \in Facets : f = tx.facet
      BY <1>5 DEF ReplaceSelector, IndInv, CutInv
    <2>2. tx.next \in Nat /\ tx \in Cut /\ tx # None
      BY <1>0, <1>5, CutFields DEF ReplaceSelector
    <2>3. PICK old \in Facets : old = ds.route[s].facet /\ old \notin {f, Zero, This}
      BY <1>0, <1>5, <2>1, StorageFields DEF ReplaceSelector, FacetAddress
    <2>4. Packed(ds, Opened) /\ old \notin Opened
      BY <2>1, <2>2, <2>3, WhatIsOpened
    <2>5. PICK c : c = RemoveFunction(ds, old, s)
      OBVIOUS
    <2>6. c \in Storage /\ TableOf(c) = [TableOf(ds) EXCEPT ![s] = Zero]
      BY <1>0, <2>3, <2>4, <2>5, RemoveFunctionKeeps, TableAfterRemoveFunction
    <2>7. ds' = AddFunction(c, s, tx.next, f)
      BY <1>5, <2>1, <2>3, <2>5 DEF ReplaceSelector, FacetAddress
    <2>8. TableOf(ds') = [TableOf(c) EXCEPT ![s] = f]
      <3>1. PICK p \in Nat : p = tx.next
        BY <2>2
      <3>2. c \in Storage
        BY <2>6
      <3>3. TableOf(AddFunction(c, s, p, f)) = [TableOf(c) EXCEPT ![s] = f]
        BY <3>2, TableAfterAddFunction
      <3> QED
        BY <2>7, <3>1, <3>3
    <2>9. TableOf(ds') = [TableOf(ds) EXCEPT ![s] = f]
      BY <2>6, <2>8
    <2>10. tx' # None /\ tx'.before = tx.before
      BY <1>5, <2>2, CutGoesOn
    <2>11. TableOf(ds)[s] = old
      BY <1>0, <2>3 DEF FacetAddress
    <2> QED
      BY <1>0, <2>2, <2>3, <2>9, <2>10, <2>11 DEF Abstract!Replace
  <1>6. ASSUME NEW s \in Selectors, RemoveSelector(s)
        PROVE  Abstract!Remove(s)
    <2>1. tx \in Cut /\ tx # None /\ tx.facet = Zero
      BY <1>0, <1>6 DEF RemoveSelector, CutInv
    <2>2. PICK old \in Facets : old = ds.route[s].facet /\ old \notin {Zero, This}
      BY <1>0, <1>6, StorageFields DEF RemoveSelector, FacetAddress
    <2>3. Packed(ds, Opened) /\ old \notin Opened
      BY <2>1, <2>2, WhatIsOpened
    <2>4. TableOf(ds') = [TableOf(ds) EXCEPT ![s] = Zero]
      BY <1>0, <1>6, <2>2, <2>3, TableAfterRemoveFunction DEF RemoveSelector, FacetAddress
    <2>5. tx' # None /\ tx'.before = tx.before
      BY <1>6, <2>1, CutGoesOn
    <2>6. TableOf(ds)[s] = old
      BY <1>0, <2>2 DEF FacetAddress
    <2> QED
      BY <1>0, <2>1, <2>2, <2>4, <2>5, <2>6 DEF Abstract!Remove
  <1>7. ASSUME InitializeDiamondCut PROVE Abstract!Commit
    BY <1>0, <1>7 DEF InitializeDiamondCut, Abstract!Commit
  <1>8. ASSUME RevertCut PROVE Abstract!Revert
    BY <1>0, <1>8 DEF RevertCut, Abstract!Revert
  <1>9. ASSUME NEW a \in Accounts,
               \/ \E b \in Accounts \cup {Zero} : TransferOwnership(a, b)
               \/ \E b \in Accounts : AddAttester(a, b) \/ RemoveAttester(a, b)
               \/ \E root \in Roots : SubmitBatch(a, root)
        PROVE  UNCHANGED <<ds, tx>>
    BY <1>9 DEF TransferOwnership, AddAttester, RemoveAttester, SubmitBatch
  <1>10. CASE UNCHANGED vars
    BY <1>2, <1>10 DEF vars
  <1> HIDE DEF Committed, Drafted
  <1>11. CASE Next
    BY <1>1, <1>2, <1>3, <1>4, <1>5, <1>6, <1>7, <1>8, <1>9, <1>11
    DEF Next, Abstract!Next
  <1> QED
    BY <1>10, <1>11

\* The arrays, cut an iteration at a time, implement a plain table that changes
\* by whole cuts only.
THEOREM ImplementsTable == Spec => FollowsTable
  <1>1. ASSUME Init
        PROVE  Committed \in [Selectors -> Facets \cup {Zero}] /\ Drafted = None
    BY <1>1, InitKeeps, TableType DEF Init, IndInv, TypeOK, Committed, Drafted
  <1>2. ASSUME IndInv, IndInv', [Next]_vars
        PROVE  [Abstract!Next]_<<Committed, Drafted>>
    BY <1>2, AbstractStep
  <1> QED
    BY <1>1, <1>2, Inductive, PTL
    DEF Spec, FollowsTable, Abstract!Spec, Committed, Drafted
=============================================================================
