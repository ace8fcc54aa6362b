------------------------- MODULE PresentationsProofs -------------------------
(***************************************************************************)
(* Proofs about Presentations for any presentations, challenges, holders   *)
(* and batch sizes.  That a challenge is used once rests on its row being  *)
(* used, or gone for good, as soon as it has been; that the mapping is the *)
(* trees', on the pending presentations being distinct and on the mapping  *)
(* knowing no batch that does not exist yet.                               *)
(*                                                                         *)
(* Then about the Merkle trees of batches, of any size: the recursions of  *)
(* tree, index, proof and root have solutions, by induction on the level,  *)
(* and what the proof gathers up to a level is what the root needs of it,  *)
(* unless a node on the way is hashed with itself.                         *)
(***************************************************************************)
EXTENDS Presentations, FiniteSetTheorems, WellFoundedInduction, TLAPS

Distinct(s) == \A i, j \in DOMAIN s : s[i] = s[j] => i = j

ChallengesInv ==
    \A c \in Challenges :
        /\ challenges[c] # None => c \in drawn
        /\ uses[c] = 0 \/ (uses[c] = 1 /\ c \in drawn
                             /\ (challenges[c] # None => challenges[c].used))

MappingInv ==
    \A v \in VPs : mapping[v] # None =>
        /\ mapping[v].batch \in DOMAIN batches
        /\ mapping[v].leaf + 1 \in DOMAIN batches[mapping[v].batch]

BatchesInv == Distinct(pending) /\ MappingInv /\ MappingIsTree

IndInv == TypeOK /\ ChallengesInv /\ BatchesInv /\ QueuedIsKept

BatchesTyped ==
    /\ pending \in Seq(VPs)
    /\ batches \in Seq(Seq(VPs))
    /\ mapping \in [VPs -> Place \cup {None}]
    /\ up \in BOOLEAN

Signature == [holder : Holders, challenge : Challenges \cup {None}]
SignedTyped ==
    /\ now \in Nat /\ signed \in [VPs -> Signature \cup {None}]
    /\ batching \in BOOLEAN

ChallengesTyped ==
    /\ drawn \subseteq Challenges
    /\ challenges \in [Challenges -> Row \cup {None}]
    /\ uses \in [Challenges -> Nat]

-----------------------------------------------------------------------------
(* Sequences without repetitions. *)

LEMMA ElementsOf ==
    ASSUME NEW s \in Seq(VPs)
    PROVE  /\ DOMAIN s = 1 .. Len(s) /\ Len(s) \in Nat
           /\ Elements(s) \subseteq VPs
           /\ \A v : v \in Elements(s) <=> \E i \in 1 .. Len(s) : s[i] = v
  BY DEF Elements

LEMMA WithPendingIs ==
    ASSUME BatchesTyped, Distinct(pending), NEW v \in VPs
    PROVE  /\ WithPending(v) \in Seq(VPs)
           /\ Distinct(WithPending(v))
           /\ Elements(pending) \subseteq Elements(WithPending(v))
           /\ v \in Elements(WithPending(v))
  <1>1. pending \in Seq(VPs)
    BY DEF BatchesTyped
  <1>2. CASE v \in Elements(pending)
    BY <1>1, <1>2 DEF WithPending
  <1>3. CASE v \notin Elements(pending)
    <2> DEFINE s == Append(pending, v)
               n == Len(pending)
    <2>1. /\ s \in Seq(VPs) /\ Len(s) = n + 1 /\ n \in Nat
          /\ \A i \in 1 .. n : s[i] = pending[i]
          /\ s[n + 1] = v
      BY <1>1
    <2>2. WithPending(v) = s
      BY <1>3 DEF WithPending
    <2> HIDE DEF s
    <2>3. DOMAIN s = 1 .. n + 1 /\ DOMAIN pending = 1 .. n
      BY <1>1, <2>1
    <2>4. \A i \in 1 .. n + 1 : i \in 1 .. n \/ i = n + 1
      BY <2>1
    <2>5. 1 .. n \subseteq 1 .. n + 1 /\ n + 1 \in 1 .. n + 1
      BY <2>1
    <2> HIDE DEF n
    <2>6. \A i \in 1 .. n : pending[i] # v
      BY <1>3, <2>3 DEF Elements
    <2>7. Distinct(s)
      BY <2>1, <2>3, <2>4, <2>6 DEF Distinct
    <2> QED
      BY <2>1, <2>2, <2>3, <2>5, <2>7 DEF Elements
  <1> QED
    BY <1>2, <1>3

-----------------------------------------------------------------------------
(* Batches. *)

LEMMA PlaceFields ==
    ASSUME NEW b, NEW l
    PROVE  [batch |-> b, leaf |-> l].batch = b /\ [batch |-> b, leaf |-> l].leaf = l
  OBVIOUS

\* What CreateBatch leaves behind, whether its transaction commits or fails.
LEMMA CreateBatchKeeps ==
    ASSUME BatchesTyped, BatchesInv, NEW leaves \in Seq(VPs), Distinct(leaves),
           CreateBatch(leaves)
    PROVE  /\ BatchesTyped' /\ BatchesInv'
           /\ \A v \in VPs : v \in Elements(leaves) \/ mapping[v] # None
                               => v \in Elements(pending') \/ mapping'[v] # None
  <1>1. CASE /\ \A v \in Elements(leaves) : mapping[v] = None
             /\ batches' = Append(batches, leaves)
             /\ mapping' = PlacesOf(leaves)
             /\ pending' = <<>> /\ UNCHANGED up
    <2> DEFINE n == Len(batches)
               at(v) == CHOOSE i \in DOMAIN leaves : leaves[i] = v
    <2>1. /\ batches \in Seq(Seq(VPs)) /\ n \in Nat
          /\ DOMAIN batches = 1 .. n
      BY DEF BatchesTyped
    <2>2. /\ batches' \in Seq(Seq(VPs)) /\ Len(batches') = n + 1
          /\ DOMAIN batches' = 1 .. n + 1
          /\ \A b \in 1 .. n : batches'[b] = batches[b]
          /\ batches'[n + 1] = leaves
      BY <1>1, <2>1
    <2>3. mapping' = [v \in VPs |-> IF v \in Elements(leaves)
                                    THEN [batch |-> n + 1, leaf |-> at(v) - 1]
                                    ELSE mapping[v]]
      BY <1>1 DEF PlacesOf
    <2>4. \A v \in Elements(leaves) : at(v) \in DOMAIN leaves /\ leaves[at(v)] = v
      BY DEF Elements
    <2>5. DOMAIN leaves = 1 .. Len(leaves) /\ Len(leaves) \in Nat
      BY ElementsOf
    <2> HIDE DEF n, at
    <2>6. \A v \in VPs : mapping[v] \in Place \cup {None}
      BY DEF BatchesTyped
    <2>7. \A v \in Elements(leaves) : [batch |-> n + 1, leaf |-> at(v) - 1] \in Place
      BY <2>1, <2>4, <2>5 DEF Place
    <2>8. mapping' \in [VPs -> Place \cup {None}]
      BY <2>3, <2>6, <2>7
    <2>9. \A p \in Place : p # None
      BY NoneAssumption
    <2>10. \A v \in VPs : v \notin Elements(leaves) =>
              mapping'[v] = mapping[v]
      BY <2>3
    <2>11. \A v \in VPs : v \in Elements(leaves) =>
              mapping[v] = None /\ mapping'[v] = [batch |-> n + 1, leaf |-> at(v) - 1]
      BY <1>1, <2>3
    <2>12. \A v \in VPs : mapping[v] # None =>
              /\ mapping[v].batch \in 1 .. n
              /\ mapping[v].leaf + 1 \in DOMAIN batches[mapping[v].batch]
      BY <2>1 DEF BatchesInv, MappingInv
    <2>13. MappingInv'
      <3> SUFFICES ASSUME NEW v \in VPs, mapping'[v] # None
                   PROVE  /\ mapping'[v].batch \in 1 .. n + 1
                          /\ mapping'[v].leaf + 1 \in DOMAIN batches'[mapping'[v].batch]
        BY <2>2 DEF MappingInv
      <3>1. CASE v \in Elements(leaves)
        <4>1. mapping'[v] = [batch |-> n + 1, leaf |-> at(v) - 1]
          BY <2>11, <3>1
        <4>2. mapping'[v].batch = n + 1 /\ mapping'[v].leaf = at(v) - 1
          BY <4>1, PlaceFields
        <4>3. at(v) \in DOMAIN leaves /\ (at(v) - 1) + 1 = at(v)
          BY <2>4, <2>5, <3>1
        <4> QED
          BY <2>1, <2>2, <4>2, <4>3
      <3>2. CASE v \notin Elements(leaves)
        <4>1. mapping'[v] = mapping[v]
          BY <2>10, <3>2
        <4> QED
          BY <2>1, <2>2, <2>12, <4>1
      <3> QED
        BY <3>1, <3>2
    <2>14. MappingIsTree'
      <3> SUFFICES ASSUME NEW v \in VPs, NEW b \in DOMAIN batches', NEW i \in DOMAIN batches'[b]
                   PROVE  batches'[b][i] = v <=> mapping'[v] = [batch |-> b, leaf |-> i - 1]
        BY DEF MappingIsTree
      <3>1. CASE b = n + 1 /\ v \in Elements(leaves)
        <4>1. i \in 1 .. Len(leaves) /\ at(v) \in 1 .. Len(leaves)
          BY <2>2, <2>4, <2>5, <3>1
        <4>2. leaves[i] = v <=> i = at(v)
          BY <2>4, <2>5, <3>1, <4>1 DEF Distinct
        <4>3. at(v) - 1 = i - 1 <=> i = at(v)
          BY <2>5, <4>1
        <4>4. mapping'[v] = [batch |-> n + 1, leaf |-> at(v) - 1]
          BY <2>11, <3>1
        <4>5. batches'[b][i] = v <=> at(v) - 1 = i - 1
          BY <2>2, <3>1, <4>2, <4>3
        <4>6. [batch |-> n + 1, leaf |-> at(v) - 1] = [batch |-> b, leaf |-> i - 1]
                <=> at(v) - 1 = i - 1
          BY <3>1, PlaceFields
        <4> QED
          BY <4>4, <4>5, <4>6
      <3>2. CASE b = n + 1 /\ v \notin Elements(leaves)
        <4>1. leaves[i] # v
          BY <2>2, <3>2 DEF Elements
        <4>2. i - 1 \in Nat /\ b \in Nat
          BY <2>1, <2>2, <2>5, <3>2
        <4>3. [batch |-> b, leaf |-> i - 1] \in Place
          BY <4>2 DEF Place
        <4>4. mapping[v] # [batch |-> b, leaf |-> i - 1]
          BY <2>1, <2>9, <2>12, <3>2, <4>3
        <4> QED
          BY <2>2, <2>10, <3>2, <4>1, <4>4
      <3>3. CASE b \in 1 .. n
        <4>1. batches'[b] = batches[b] /\ b # n + 1
          BY <2>1, <2>2, <3>3
        <4>2. batches[b][i] = v <=> mapping[v] = [batch |-> b, leaf |-> i - 1]
          <5>1. b \in DOMAIN batches /\ i \in DOMAIN batches[b]
            BY <2>1, <3>3, <4>1
          <5>2. MappingIsTree
            BY DEF BatchesInv
          <5> QED
            BY <5>1, <5>2 DEF MappingIsTree
        <4>3. CASE v \notin Elements(leaves)
          BY <2>10, <4>1, <4>2, <4>3
        <4>4. CASE v \in Elements(leaves)
          <5>1. batches[b] \in Seq(VPs)
            BY <2>1, <3>3
          <5>2. i - 1 \in Nat /\ b \in Nat
            BY <2>1, <3>3, <4>1, <5>1
          <5>3. [batch |-> b, leaf |-> i - 1] # None
            BY <2>9, <5>2 DEF Place
          <5>4. [batch |-> n + 1, leaf |-> at(v) - 1] # [batch |-> b, leaf |-> i - 1]
            BY <4>1, PlaceFields
          <5> QED
            BY <2>11, <4>1, <4>2, <4>4, <5>3, <5>4
        <4> QED
          BY <4>3, <4>4
      <3> QED
        BY <2>1, <2>2, <3>1, <3>2, <3>3
    <2>15. pending' \in Seq(VPs) /\ Distinct(pending')
      BY <1>1 DEF Distinct
    <2>16. \A v \in VPs : v \in Elements(leaves) \/ mapping[v] # None => mapping'[v] # None
      BY <2>7, <2>9, <2>10, <2>11
    <2> QED
      BY <1>1, <2>2, <2>8, <2>13, <2>14, <2>15, <2>16 DEF BatchesTyped, BatchesInv
  <1>2. CASE /\ pending' = leaves /\ up' = FALSE
             /\ UNCHANGED <<batches, mapping>>
    BY <1>2 DEF BatchesTyped, BatchesInv, MappingInv, MappingIsTree
  <1> QED
    BY <1>1, <1>2 DEF CreateBatch

\* Adding a presentation, with the batch it may fill.
LEMMA AddVPKeeps ==
    ASSUME BatchesTyped, BatchesInv, NEW v \in VPs,
           AddVP(v) \/ (pending' = WithPending(v) /\ UNCHANGED <<batches, mapping, up>>)
    PROVE  /\ BatchesTyped' /\ BatchesInv'
           /\ \A w \in VPs : w = v \/ w \in Elements(pending) \/ mapping[w] # None
                               => w \in Elements(pending') \/ mapping'[w] # None
  <1>1. /\ WithPending(v) \in Seq(VPs) /\ Distinct(WithPending(v))
        /\ Elements(pending) \subseteq Elements(WithPending(v))
        /\ v \in Elements(WithPending(v))
    BY WithPendingIs DEF BatchesInv
  <1>2. CASE CreateBatch(WithPending(v))
    BY <1>1, <1>2, CreateBatchKeeps
  <1>3. CASE pending' = WithPending(v) /\ UNCHANGED <<batches, mapping, up>>
    BY <1>1, <1>3 DEF BatchesTyped, BatchesInv, MappingInv, MappingIsTree
  <1> QED
    BY <1>2, <1>3 DEF AddVP

\* The route, whatever addVP does and whether there is anyone to call.
LEMMA QueueKeeps ==
    ASSUME BatchesTyped, BatchesInv, queued \subseteq VPs, QueuedIsKept,
           NEW v \in VPs, Queue(v)
    PROVE  BatchesTyped' /\ BatchesInv' /\ queued' \subseteq VPs /\ QueuedIsKept'
  <1>1. CASE UNCHANGED <<pending, batches, mapping, up, queued>>
    BY <1>1 DEF BatchesTyped, BatchesInv, MappingInv, MappingIsTree, QueuedIsKept,
                Elements, Distinct
  <1>2. CASE /\ AddVP(v) \/ (pending' = WithPending(v) /\ UNCHANGED <<batches, mapping, up>>)
             /\ queued' = queued \cup {v}
    <2>1. /\ BatchesTyped' /\ BatchesInv'
          /\ \A w \in VPs : w = v \/ w \in Elements(pending) \/ mapping[w] # None
                               => w \in Elements(pending') \/ mapping'[w] # None
      BY <1>2, AddVPKeeps
    <2>2. QueuedIsKept'
      <3> SUFFICES ASSUME NEW w \in queued'
                   PROVE  w \in Elements(pending') \/ mapping'[w] # None
        BY DEF QueuedIsKept, Elements
      <3> QED
        BY <1>2, <2>1 DEF QueuedIsKept
    <2> QED
      BY <1>2, <2>1, <2>2
  <1> QED
    BY <1>1, <1>2 DEF Queue

-----------------------------------------------------------------------------
(* Challenges. *)

LEMMA Rows ==
    /\ \A r \in Row : r # None /\ r.used \in BOOLEAN
    /\ \A r \in Row : [r EXCEPT !.used = TRUE] \in Row
    /\ \A h \in Holders, n \in Nat : [holder |-> h, expiresAt |-> n, used |-> FALSE] \in Row
  <1>1. \A r \in Row : r # None
    BY NoneAssumption
  <1> QED
    BY <1>1 DEF Row

LEMMA Signatures ==
    ASSUME SignedTyped, NEW v \in VPs, signed[v] # None
    PROVE  signed[v].challenge \in Challenges \cup {None}
  <1>1. signed[v] \in Signature
    BY DEF SignedTyped
  <1> QED
    BY <1>1 DEF Signature

\* A route that checks a challenge consumes it before it may count the use.
LEMMA CheckChallengeKeeps ==
    ASSUME SignedTyped, ChallengesTyped, ChallengesInv,
           NEW v \in VPs, signed[v] # None, CheckChallenge(v),
           drawn' = drawn, uses' = uses \/ CountUse(v)
    PROVE  ChallengesTyped' /\ ChallengesInv'
  <1> DEFINE c == signed[v].challenge
  <1>1. c \in Challenges \cup {None}
    BY Signatures
  <1>2. CASE c = None
    <2>1. challenges' = challenges
      BY <1>2, NoneAssumption DEF CheckChallenge
    <2>2. uses' = uses
      BY <1>2 DEF CountUse
    <2> QED
      BY <2>1, <2>2 DEF ChallengesTyped, ChallengesInv
  <1>3. CASE c # None
    <2>1. /\ challenges[c] # None /\ ~ challenges[c].used
          /\ challenges' = [challenges EXCEPT ![c].used = TRUE]
      BY <1>3 DEF CheckChallenge, ChallengeValid, Consume
    <2>2. uses' = uses \/ uses' = [uses EXCEPT ![c] = @ + 1]
      BY <1>3 DEF CountUse
    <2>3. c \in Challenges
      BY <1>1, <1>3
    <2> HIDE DEF c
    <2>4. challenges[c] \in Row /\ challenges \in [Challenges -> Row \cup {None}]
      BY <2>1, <2>3 DEF ChallengesTyped
    <2> DEFINE r == [challenges[c] EXCEPT !.used = TRUE]
    <2>5. r \in Row /\ r.used /\ r # None
      <3>1. r \in Row /\ r # None
        BY <2>4, Rows
      <3>2. r.used
        BY <2>4 DEF Row
      <3> QED
        BY <3>1, <3>2
    <2>6. challenges' = [challenges EXCEPT ![c] = r]
      BY <2>1, <2>4
    <2> HIDE DEF r
    <2>7. challenges' \in [Challenges -> Row \cup {None}]
      BY <2>3, <2>4, <2>5, <2>6
    <2>8. challenges'[c] = r /\ \A d \in Challenges \ {c} : challenges'[d] = challenges[d]
      BY <2>3, <2>4, <2>6
    <2>9. uses[c] = 0 /\ c \in drawn
      BY <2>1, <2>3 DEF ChallengesInv
    <2>10. /\ uses' \in [Challenges -> Nat]
           /\ uses'[c] \in {0, 1} /\ \A d \in Challenges \ {c} : uses'[d] = uses[d]
      BY <2>2, <2>3, <2>9 DEF ChallengesTyped
    <2>11. ChallengesInv'
      <3> SUFFICES ASSUME NEW d \in Challenges
                   PROVE  /\ challenges'[d] # None => d \in drawn'
                          /\ uses'[d] = 0 \/ (uses'[d] = 1 /\ d \in drawn'
                                /\ (challenges'[d] # None => challenges'[d].used))
        BY DEF ChallengesInv
      <3>1. CASE d = c
        BY <2>5, <2>8, <2>9, <2>10, <3>1
      <3>2. CASE d # c
        BY <2>8, <2>10, <3>2 DEF ChallengesInv
      <3> QED
        BY <3>1, <3>2
    <2> QED
      BY <2>7, <2>10, <2>11 DEF ChallengesTyped
  <1> QED
    BY <1>2, <1>3

\* A row removed is a row that no request can match.
LEMMA CleanedKeeps ==
    ASSUME ChallengesTyped, ChallengesInv, challenges' = Cleaned,
           drawn' = drawn, uses' = uses
    PROVE  ChallengesTyped' /\ ChallengesInv'
  <1>1. /\ challenges' \in [Challenges -> Row \cup {None}]
        /\ \A c \in Challenges : challenges'[c] = challenges[c] \/ challenges'[c] = None
    BY DEF Cleaned, ChallengesTyped
  <1> QED
    BY <1>1 DEF ChallengesTyped, ChallengesInv

-----------------------------------------------------------------------------
(* The invariant. *)

LEMMA Parts ==
    IndInv <=> /\ SignedTyped /\ ChallengesTyped /\ BatchesTyped
               /\ queued \subseteq VPs
               /\ ChallengesInv /\ BatchesInv /\ QueuedIsKept
  BY DEF IndInv, TypeOK, SignedTyped, Signature, ChallengesTyped, BatchesTyped

LEMMA InitInv == Init => IndInv
  <1> SUFFICES ASSUME Init PROVE IndInv
    OBVIOUS
  <1>1. SignedTyped /\ ChallengesTyped /\ BatchesTyped /\ queued \subseteq VPs
    BY DEF Init, SignedTyped, ChallengesTyped, BatchesTyped, db, ghosts
  <1>2. ChallengesInv
    BY DEF Init, ChallengesInv
  <1>3. BatchesInv
    <2>1. DOMAIN batches = {} /\ DOMAIN pending = {}
      BY DEF Init
    <2>2. \A v \in VPs : mapping[v] = None
      BY DEF Init
    <2> QED
      BY <2>1, <2>2 DEF BatchesInv, Distinct, MappingInv, MappingIsTree
  <1>4. QueuedIsKept
    BY DEF Init, QueuedIsKept
  <1> QED
    BY <1>1, <1>2, <1>3, <1>4, Parts

\* What a step leaves alone it does not disturb.
LEMMA Untouched ==
    ASSUME IndInv
    PROVE  /\ UNCHANGED <<now, signed>> /\ batching' \in BOOLEAN => SignedTyped'
           /\ UNCHANGED <<drawn, challenges, uses>> => ChallengesTyped' /\ ChallengesInv'
           /\ UNCHANGED <<pending, batches, mapping>> /\ up' \in BOOLEAN
                => BatchesTyped' /\ BatchesInv'
           /\ UNCHANGED <<pending, mapping, queued>> => QueuedIsKept'
  BY Parts DEF SignedTyped, ChallengesTyped, ChallengesInv, BatchesTyped, BatchesInv,
               MappingInv, MappingIsTree, QueuedIsKept, Elements, Distinct

LEMMA NextInv == IndInv /\ [Next]_vars => IndInv'
  <1> SUFFICES ASSUME IndInv, [Next]_vars PROVE IndInv'
    OBVIOUS
  <1>0. /\ SignedTyped /\ ChallengesTyped /\ BatchesTyped /\ queued \subseteq VPs
        /\ ChallengesInv /\ BatchesInv /\ QueuedIsKept
        /\ now \in Nat /\ up \in BOOLEAN /\ batching \in BOOLEAN
    BY Parts DEF SignedTyped, BatchesTyped
  <1> DEFINE Goal == /\ SignedTyped' /\ ChallengesTyped' /\ BatchesTyped'
                     /\ queued' \subseteq VPs
                     /\ ChallengesInv' /\ BatchesInv' /\ QueuedIsKept'
  <1>1. ASSUME NEW h \in Holders, GenerateChallenge(h) PROVE Goal
    <2>1. PICK c \in Challenges \ drawn :
              /\ drawn' = drawn \cup {c}
              /\ challenges' = [challenges EXCEPT
                    ![c] = [holder |-> h, expiresAt |-> now + Ttl, used |-> FALSE]]
      BY <1>1 DEF GenerateChallenge
    <2> DEFINE r == [holder |-> h, expiresAt |-> now + Ttl, used |-> FALSE]
    <2>2. now + Ttl \in Nat
      BY <1>0, BoundsAssumption
    <2>3. r \in Row
      BY <2>2, Rows
    <2> HIDE DEF r
    <2>4. /\ UNCHANGED <<now, signed, pending, batches, mapping, up>>
          /\ UNCHANGED <<batching, uses, queued>>
      BY <1>1 DEF GenerateChallenge, ghosts
    <2>5. ChallengesTyped'
      BY <1>0, <2>1, <2>3, <2>4 DEF ChallengesTyped, r
    <2>6. uses[c] = 0
      BY <1>0 DEF ChallengesInv
    <2>7. \A d \in Challenges \ {c} : challenges'[d] = challenges[d]
      BY <1>0, <2>1 DEF ChallengesTyped
    <2>8. ChallengesInv'
      BY <1>0, <2>1, <2>4, <2>6, <2>7 DEF ChallengesInv
    <2> QED
      BY <1>0, <2>4, <2>5, <2>8, Untouched
  <1>2. ASSUME NEW v \in VPs, NEW h \in Holders, Sign(v, h) PROVE Goal
    <2>1. PICK c \in drawn \cup {None} :
              signed' = [signed EXCEPT ![v] = [holder |-> h, challenge |-> c]]
      BY <1>2 DEF Sign
    <2>2. /\ UNCHANGED <<now, drawn, challenges, pending, batches, mapping, up>>
          /\ UNCHANGED <<batching, uses, queued>>
      BY <1>2 DEF Sign, db, ghosts
    <2>3. c \in Challenges \cup {None}
      BY <1>0 DEF ChallengesTyped
    <2>4. [holder |-> h, challenge |-> c] \in Signature
      BY <2>3 DEF Signature
    <2>5. SignedTyped'
      BY <1>0, <2>1, <2>2, <2>4 DEF SignedTyped
    <2> QED
      BY <1>0, <2>2, <2>5, Untouched
  <1>3. ASSUME NEW v \in VPs, VerifyVP(v) PROVE Goal
    <2>1. /\ signed[v] # None /\ CheckChallenge(v) /\ Queue(v) /\ CountUse(v)
          /\ UNCHANGED <<now, drawn, signed, batching>>
      BY <1>3 DEF VerifyVP
    <2>2. ChallengesTyped' /\ ChallengesInv'
      BY <1>0, <2>1, CheckChallengeKeeps
    <2>3. BatchesTyped' /\ BatchesInv' /\ queued' \subseteq VPs /\ QueuedIsKept'
      BY <1>0, <2>1, QueueKeeps
    <2> QED
      BY <1>0, <2>1, <2>2, <2>3, Untouched
  <1>4. ASSUME NEW v \in VPs, VerifyVPQuick(v) \/ Refuse(v) PROVE Goal
    <2>1. /\ signed[v] # None /\ CheckChallenge(v)
          /\ uses' = uses \/ CountUse(v)
          /\ UNCHANGED <<now, drawn, signed, pending, batches, mapping, up, batching, queued>>
      BY <1>4 DEF VerifyVPQuick, Refuse, ghosts
    <2>2. ChallengesTyped' /\ ChallengesInv'
      BY <1>0, <2>1, CheckChallengeKeeps
    <2> QED
      BY <1>0, <2>1, <2>2, Untouched
  <1>5. ASSUME CleanupExpired \/ Restart PROVE Goal
    <2>1. /\ challenges' = Cleaned /\ up' \in BOOLEAN
          /\ batching' \in BOOLEAN
          /\ UNCHANGED <<now, drawn, signed, pending, batches, mapping, uses, queued>>
      BY <1>0, <1>5 DEF CleanupExpired, Restart, ghosts
    <2>2. ChallengesTyped' /\ ChallengesInv'
      BY <1>0, <2>1, CleanedKeeps
    <2> QED
      BY <1>0, <2>1, <2>2, Untouched
  <1>6. ASSUME BatchTimer PROVE Goal
    <2>1. /\ CreateBatch(pending)
          /\ UNCHANGED <<now, drawn, challenges, signed, batching, uses, queued>>
      BY <1>6 DEF BatchTimer, ghosts
    <2>2. pending \in Seq(VPs) /\ Distinct(pending)
      BY <1>0 DEF BatchesTyped, BatchesInv
    <2>3. /\ BatchesTyped' /\ BatchesInv'
          /\ \A w \in VPs : w \in Elements(pending) \/ mapping[w] # None
                               => w \in Elements(pending') \/ mapping'[w] # None
      BY <1>0, <2>1, <2>2, CreateBatchKeeps
    <2>4. QueuedIsKept'
      <3> SUFFICES ASSUME NEW w \in queued'
                   PROVE  w \in Elements(pending') \/ mapping'[w] # None
        BY DEF QueuedIsKept, Elements
      <3> QED
        BY <1>0, <2>1, <2>3 DEF QueuedIsKept
    <2> QED
      BY <1>0, <2>1, <2>3, <2>4, Untouched
  <1>7. ASSUME Tick PROVE Goal
    <2>1. now' \in Nat /\ UNCHANGED <<drawn, challenges, pending, batches, mapping>>
          /\ UNCHANGED <<signed, up, batching, uses, queued>>
      BY <1>0, <1>7 DEF Tick, db, ghosts
    <2> QED
      BY <1>0, <2>1, Untouched DEF SignedTyped
  <1>8. ASSUME UNCHANGED vars PROVE Goal
    <2>1. /\ UNCHANGED <<now, drawn, challenges, pending, batches, mapping>>
          /\ UNCHANGED <<signed, up, batching, uses, queued>>
      BY <1>8 DEF vars, db, ghosts
    <2> QED
      BY <1>0, <2>1, Untouched
  <1>9. Goal
    BY <1>1, <1>2, <1>3, <1>4, <1>5, <1>6, <1>7, <1>8 DEF Next
  <1> QED
    BY <1>9, Parts DEF IndInv, TypeOK, SignedTyped, Signature, ChallengesTyped, BatchesTyped

THEOREM Invariance == Spec => []IndInv
  BY InitInv, NextInv, PTL DEF Spec

\* Every table keeps rows of its own kind, through every request and restart.
THEOREM TypeCorrect == Spec => []TypeOK
  <1>1. IndInv => TypeOK
    BY DEF IndInv
  <1> QED
    BY <1>1, Invariance, PTL

\* validateAndConsume, which both routes call, makes a challenge good for one
\* presentation, and no cleanup or restart makes it good again.
THEOREM ChallengesAreUsedOnce == Spec => []AcceptedOnce
  <1>1. IndInv => AcceptedOnce
    BY DEF IndInv, ChallengesInv, AcceptedOnce
  <1> QED
    BY <1>1, Invariance, PTL

\* What has a row in pending_vps keeps it until a batch has taken it, whether the
\* transaction of a batch commits or is rolled back and wherever addVP throws.
THEOREM NothingQueuedIsLost == Spec => []QueuedIsKept
  <1>1. IndInv => QueuedIsKept
    BY DEF IndInv
  <1> QED
    BY <1>1, Invariance, PTL

\* The row createBatch writes for a presentation names the batch and the leaf
\* where buildMerkleTree put it, and no other batch has it as a leaf.
THEOREM MappingMatchesTrees == Spec => []MappingIsTree
  <1>1. IndInv => MappingIsTree
    BY DEF IndInv, BatchesInv
  <1> QED
    BY <1>1, Invariance, PTL

-----------------------------------------------------------------------------
(* Merkle trees, by induction over the levels. *)

\* Every set of numbers has a least one: induction, for the formulas below.
LEMMA LeastNat ==
    ASSUME NEW T \in SUBSET Nat, T # {}
    PROVE  \E n \in T : \A m \in T : n =< m
  <1> DEFINE R == OpToRel(<, Nat)
  <1>1. IsWellFoundedOn(R, Nat)
    BY NatLessThanWellFounded
  <1>2. \A x, y \in Nat : y < x => <<y, x>> \in R
    BY DEF R, OpToRel
  <1> HIDE DEF R
  <1>3. PICK x \in T : \A y \in T : ~(<<y, x>> \in R)
    BY <1>1, WFMin
  <1>4. ASSUME NEW y \in T PROVE x =< y
    <2>1. x \in Nat /\ y \in Nat /\ ~(y < x)
      BY <1>2, <1>3
    <2> QED
      BY <2>1
  <1> QED
    BY <1>4

\* What holds at 0, and at n + 1 if at n, holds up to N: Good is where it holds.
LEMMA UpTo ==
    ASSUME NEW N \in Nat, NEW Good, 0 \in Good,
           \A n \in 0 .. N - 1 : n \in Good => n + 1 \in Good
    PROVE  \A n \in 0 .. N : n \in Good
  <1> DEFINE Bad == {n \in 0 .. N : n \notin Good}
  <1> SUFFICES ASSUME Bad # {} PROVE FALSE
    OBVIOUS
  <1>1. PICK n \in Bad : \A m \in Bad : n =< m
    <2>1. Bad \in SUBSET Nat
      OBVIOUS
    <2> HIDE DEF Bad
    <2> QED
      BY <2>1, LeastNat
  <1>2. n # 0 /\ n \in 0 .. N
    BY <1>1
  <1>3. n - 1 \in 0 .. N - 1 /\ n - 1 \notin Bad /\ (n - 1) + 1 = n
    BY <1>1, <1>2
  <1> QED
    BY <1>1, <1>3

\* The recursion of buildMerkleTree has a solution, so Levels is one.
LEMMA LevelsAre ==
    ASSUME NEW leaves, Len(leaves) \in Nat
    PROVE  LET L == Levels(leaves) IN
           L = [k \in 0 .. Len(leaves) |->
                  IF k = 0 THEN leaves
                  ELSE IF Len(L[k - 1]) = 1 THEN L[k - 1] ELSE NextLevel(L[k - 1])]
  <1> DEFINE Step(k, x) == IF Len(x) = 1 THEN x ELSE NextLevel(x)
             Is(f, n) == f = [k \in 0 .. n |-> IF k = 0 THEN leaves ELSE Step(k, f[k - 1])]
             Good == {n \in Nat : \E f : Is(f, n)}
  <1>1. ASSUME NEW f, NEW n \in Nat
        PROVE  Is(f, n) <=> f = [k \in 0 .. n |-> IF k = 0 THEN leaves
                   ELSE IF Len(f[k - 1]) = 1 THEN f[k - 1] ELSE NextLevel(f[k - 1])]
    OBVIOUS
  <1> HIDE DEF Step
  <1>2. 0 \in Good
    <2>1. Is([k \in 0 .. 0 |-> leaves], 0)
      OBVIOUS
    <2> QED
      BY <2>1
  <1>3. ASSUME NEW n \in Nat, n \in Good PROVE n + 1 \in Good
    <2>1. PICK g : Is(g, n)
      BY <1>3
    <2> DEFINE f == [k \in 0 .. n + 1 |-> IF k = n + 1 THEN Step(k, g[n]) ELSE g[k]]
    <2>2. ASSUME NEW k \in 0 .. n + 1
          PROVE  f[k] = IF k = 0 THEN leaves ELSE Step(k, f[k - 1])
      <3>1. CASE k = n + 1
        BY <3>1
      <3>2. CASE k # n + 1
        <4>1. k \in 0 .. n /\ (k # 0 => k - 1 \in 0 .. n + 1 /\ k - 1 # n + 1)
          BY <3>2
        <4>2. f[k] = g[k] /\ (k # 0 => f[k - 1] = g[k - 1])
          BY <3>2, <4>1
        <4>3. g[k] = IF k = 0 THEN leaves ELSE Step(k, g[k - 1])
          BY <2>1, <4>1
        <4> QED
          BY <4>2, <4>3
      <3> QED
        BY <3>1, <3>2
    <2>3. f = [k \in 0 .. n + 1 |-> f[k]]
      OBVIOUS
    <2> HIDE DEF f
    <2>4. Is(f, n + 1)
      BY <2>2, <2>3
    <2> QED
      BY <2>4
  <1> HIDE DEF Good
  <1>4. Len(leaves) \in Good
    <2>1. \A n \in 0 .. Len(leaves) - 1 : n \in Good => n + 1 \in Good
      BY <1>3
    <2>2. \A n \in 0 .. Len(leaves) : n \in Good
      BY <1>2, <2>1, UpTo
    <2> QED
      BY <2>2
  <1>5. \E f : Is(f, Len(leaves))
    BY <1>4 DEF Good
  <1>6. Is(CHOOSE f : Is(f, Len(leaves)), Len(leaves))
    BY <1>5
  <1>7. Levels(leaves) = CHOOSE f : Is(f, Len(leaves))
    BY DEF Levels, Step
  <1> QED
    BY <1>6, <1>7 DEF Step

\* So has the halving of the index: an ancestor is half of the one below.
LEMMA AncestorsAre ==
    ASSUME NEW index \in Nat, NEW n \in Nat
    PROVE  /\ Ancestor(index, n) \in Nat
           /\ Ancestor(index, 0) = index
           /\ Ancestor(index, n + 1) = Ancestor(index, n) \div 2
  <1> DEFINE Is(f, m) == f = [k \in 0 .. m |-> IF k = 0 THEN index ELSE f[k - 1] \div 2]
             Good == {m \in Nat : \E f : Is(f, m)}
             Half(m) == CHOOSE f : Is(f, m)
  <1>1. 0 \in Good
    <2>1. Is([k \in 0 .. 0 |-> index], 0)
      OBVIOUS
    <2> QED
      BY <2>1
  <1>2. ASSUME NEW m \in Nat, m \in Good PROVE m + 1 \in Good
    <2>1. PICK g : Is(g, m)
      BY <1>2
    <2> DEFINE f == [k \in 0 .. m + 1 |-> IF k = m + 1 THEN g[m] \div 2 ELSE g[k]]
    <2>2. ASSUME NEW k \in 0 .. m + 1
          PROVE  f[k] = IF k = 0 THEN index ELSE f[k - 1] \div 2
      <3>1. CASE k = m + 1
        BY <3>1
      <3>2. CASE k # m + 1
        <4>1. k \in 0 .. m /\ (k # 0 => k - 1 \in 0 .. m + 1 /\ k - 1 # m + 1)
          BY <3>2
        <4>2. f[k] = g[k] /\ (k # 0 => f[k - 1] = g[k - 1])
          BY <3>2, <4>1
        <4>3. g[k] = IF k = 0 THEN index ELSE g[k - 1] \div 2
          BY <2>1, <4>1
        <4> QED
          BY <4>2, <4>3
      <3> QED
        BY <3>1, <3>2
    <2>3. f = [k \in 0 .. m + 1 |-> f[k]]
      OBVIOUS
    <2> HIDE DEF f
    <2>4. Is(f, m + 1)
      BY <2>2, <2>3
    <2> QED
      BY <2>4
  <1>3. ASSUME NEW m \in Nat PROVE Is(Half(m), m) /\ Ancestor(index, m) = Half(m)[m]
    <2> HIDE DEF Good
    <2>1. \A i \in 0 .. m - 1 : i \in Good => i + 1 \in Good
      BY <1>2
    <2>2. \A i \in 0 .. m : i \in Good
      BY <1>1, <2>1, UpTo
    <2>3. \E f : Is(f, m)
      BY <2>2 DEF Good
    <2>4. Is(Half(m), m)
      BY <2>3
    <2>5. Ancestor(index, m) = Half(m)[m]
      BY DEF Ancestor
    <2> QED
      BY <2>4, <2>5
  <1> HIDE DEF Half, Good
  <1>4. ASSUME NEW m \in Nat, NEW p \in Nat, m =< p
        PROVE  \A j \in 0 .. m : Half(m)[j] \in Nat /\ Half(p)[j] = Half(m)[j]
    <2> DEFINE f == Half(m)
               g == Half(p)
               Same == {j \in 0 .. m : f[j] \in Nat /\ g[j] = f[j]}
    <2>1. Is(f, m) /\ Is(g, p)
      BY <1>3
    <2> HIDE DEF f, g
    <2>2. 0 \in Same
      BY <1>4, <2>1
    <2>3. ASSUME NEW j \in 0 .. m - 1, j \in Same PROVE j + 1 \in Same
      <3>1. j + 1 \in 0 .. m /\ j + 1 \in 0 .. p /\ j + 1 # 0 /\ (j + 1) - 1 = j
        BY <1>4
      <3>2. f[j + 1] = f[j] \div 2 /\ g[j + 1] = g[j] \div 2
        BY <2>1, <3>1
      <3>3. f[j] \in Nat /\ g[j] = f[j]
        BY <2>3
      <3>4. f[j] \div 2 \in Nat
        BY <3>3
      <3> QED
        BY <3>1, <3>2, <3>3, <3>4
    <2> HIDE DEF Same
    <2>4. \A j \in 0 .. m : j \in Same
      BY <2>2, <2>3, UpTo
    <2> QED
      BY <2>4 DEF Same, f, g
  <1>5. Ancestor(index, n) \in Nat
    BY <1>3, <1>4
  <1>6. Ancestor(index, 0) = index
    <2>1. Half(0) = [k \in 0 .. 0 |-> IF k = 0 THEN index ELSE Half(0)[k - 1] \div 2]
      BY <1>3
    <2> QED
      BY <1>3, <2>1
  <1>7. Ancestor(index, n + 1) = Ancestor(index, n) \div 2
    <2>1. Ancestor(index, n + 1) = Half(n + 1)[n + 1] /\ Is(Half(n + 1), n + 1)
      BY <1>3
    <2>2. Half(n + 1)[n + 1] = Half(n + 1)[n] \div 2
      BY <2>1
    <2>3. Half(n + 1)[n] = Half(n)[n]
      BY <1>4
    <2> QED
      BY <1>3, <2>1, <2>2, <2>3
  <1> QED
    BY <1>5, <1>6, <1>7

LEMMA ListIs ==
    ASSUME NEW m \in Nat, NEW f, f = [i \in 1 .. m |-> f[i]]
    PROVE  Len(f) = m /\ DOMAIN f = 1 .. m /\ f \in Seq({f[i] : i \in 1 .. m})
  <1>1. f \in [1 .. m -> {f[i] : i \in 1 .. m}]
    OBVIOUS
  <1> QED
    BY <1>1

LEMMA NextLevelIs ==
    ASSUME NEW nodes, Len(nodes) \in Nat
    PROVE  LET m == (Len(nodes) + 1) \div 2 IN
           /\ Len(NextLevel(nodes)) = m
           /\ NextLevel(nodes) = [i \in 1 .. m |-> NextLevel(nodes)[i]]
           /\ \A i \in 1 .. m : NextLevel(nodes)[i] =
                Hash(nodes[2 * i - 1], nodes[IF 2 * i =< Len(nodes) THEN 2 * i ELSE 2 * i - 1])
  <1> DEFINE m == (Len(nodes) + 1) \div 2
             f == NextLevel(nodes)
  <1>1. m \in Nat
    OBVIOUS
  <1>2. f = [i \in 1 .. m |->
                Hash(nodes[2 * i - 1], nodes[IF 2 * i =< Len(nodes) THEN 2 * i ELSE 2 * i - 1])]
    BY DEF NextLevel
  <1> HIDE DEF m, f
  <1>3. f = [i \in 1 .. m |-> f[i]]
    BY <1>2
  <1>4. Len(f) = m
    BY <1>1, <1>3, ListIs
  <1> QED
    BY <1>2, <1>3, <1>4 DEF m, f

LEMMA HalfIsLess ==
    ASSUME NEW c \in Nat, c > 1, NEW k \in Nat, NEW N \in Nat, c + k =< N
    PROVE  LET m == (c + 1) \div 2 IN m \in Nat /\ m > 0 /\ m + (k + 1) =< N
  OBVIOUS

IsList(s) == Len(s) \in Nat /\ s = [i \in 1 .. Len(s) |-> s[i]]

\* buildMerkleTree's levels are lists, each one shorter than the one below it
\* until there is one node, the root.
LEMMA LevelsShrink ==
    ASSUME NEW leaves, IsList(leaves), Len(leaves) > 0
    PROVE  LET L == Levels(leaves)
               N == Len(leaves)
           IN  /\ \A k \in 0 .. N : IsList(L[k]) /\ Len(L[k]) > 0 /\ Len(L[k]) =< N
               /\ Len(L[N]) = 1
  <1> DEFINE L == Levels(leaves)
             N == Len(leaves)
             Good == {k \in 0 .. N : /\ IsList(L[k]) /\ Len(L[k]) > 0
                                     /\ Len(L[k]) = 1 \/ Len(L[k]) + k =< N}
  <1>0. N \in Nat /\ N > 0
    BY DEF IsList
  <1>1. L = [k \in 0 .. N |->
               IF k = 0 THEN leaves
               ELSE IF Len(L[k - 1]) = 1 THEN L[k - 1] ELSE NextLevel(L[k - 1])]
    BY <1>0, LevelsAre
  <1> HIDE DEF L
  <1>2. 0 \in Good
    BY <1>0, <1>1
  <1>3. ASSUME NEW k \in 0 .. N - 1, k \in Good PROVE k + 1 \in Good
    <2>1. /\ k \in 0 .. N /\ k + 1 \in 0 .. N /\ k + 1 # 0 /\ (k + 1) - 1 = k
          /\ IsList(L[k]) /\ Len(L[k]) > 0 /\ Len(L[k]) \in Nat
          /\ Len(L[k]) = 1 \/ Len(L[k]) + k =< N
      BY <1>0, <1>3 DEF IsList
    <2>2. CASE Len(L[k]) = 1
      <3>1. L[k + 1] = L[k]
        BY <1>1, <2>1, <2>2
      <3> QED
        BY <2>1, <2>2, <3>1
    <2>3. CASE Len(L[k]) # 1
      <3> DEFINE m == (Len(L[k]) + 1) \div 2
      <3>1. L[k + 1] = NextLevel(L[k])
        BY <1>1, <2>1, <2>3
      <3>2. Len(L[k + 1]) = m /\ L[k + 1] = [i \in 1 .. m |-> L[k + 1][i]]
        BY <2>1, <3>1, NextLevelIs
      <3>3. m \in Nat /\ m > 0 /\ m + (k + 1) =< N
        <4> DEFINE c == Len(L[k])
        <4>1. c \in Nat /\ c > 0 /\ c # 1 /\ c + k =< N /\ k \in Nat
          BY <2>1, <2>3
        <4> HIDE DEF c
        <4>2. c > 1
          BY <4>1
        <4>3. LET h == (c + 1) \div 2 IN h \in Nat /\ h > 0 /\ h + (k + 1) =< N
          BY <1>0, <4>1, <4>2, HalfIsLess
        <4> QED
          BY <4>3 DEF c
      <3> HIDE DEF m
      <3>4. IsList(L[k + 1])
        BY <3>2, <3>3 DEF IsList
      <3> QED
        BY <1>0, <2>1, <3>2, <3>3, <3>4
    <2> QED
      BY <2>2, <2>3
  <1> HIDE DEF Good
  <1>4. \A k \in 0 .. N : k \in Good
    BY <1>0, <1>2, <1>3, UpTo
  <1>5. ASSUME NEW k \in 0 .. N
        PROVE  IsList(L[k]) /\ Len(L[k]) > 0 /\ (Len(L[k]) = 1 \/ Len(L[k]) + k =< N)
    BY <1>4 DEF Good
  <1>6. ASSUME NEW k \in 0 .. N PROVE Len(L[k]) =< N
    <2> DEFINE c == Len(L[k])
    <2>1. c \in Nat /\ (c = 1 \/ c + k =< N) /\ k \in Nat
      <3>1. k \in Nat
        BY <1>0
      <3> QED
        BY <1>5, <3>1 DEF IsList
    <2> HIDE DEF c, N
    <2>2. c =< N
      BY <1>0, <2>1
    <2> QED
      BY <2>2 DEF c
  <1>7. Len(L[N]) = 1
    <2>1. N \in 0 .. N
      BY <1>0
    <2>2. Len(L[N]) \in Nat
      BY <1>5, <2>1 DEF IsList
    <2> QED
      BY <1>0, <1>5, <2>1, <2>2
  <1> QED
    BY <1>5, <1>6, <1>7 DEF L

\* Depth is the first level with one node, and up to it a level is made of the
\* one below.
LEMMA DepthIs ==
    ASSUME NEW leaves, IsList(leaves), Len(leaves) > 0
    PROVE  LET L == Levels(leaves)
               D == Depth(leaves)
           IN  /\ D \in 0 .. Len(leaves) /\ Len(L[D]) = 1
               /\ L[0] = leaves
               /\ \A k \in 0 .. D : IsList(L[k]) /\ Len(L[k]) > 0
               /\ \A k \in 0 .. D - 1 : Len(L[k]) > 1 /\ L[k + 1] = NextLevel(L[k])
  <1> DEFINE L == Levels(leaves)
             N == Len(leaves)
             Ones == {k \in 0 .. N : Len(L[k]) = 1}
  <1>0. N \in Nat /\ N > 0
    BY DEF IsList
  <1>1. L = [k \in 0 .. N |->
               IF k = 0 THEN leaves
               ELSE IF Len(L[k - 1]) = 1 THEN L[k - 1] ELSE NextLevel(L[k - 1])]
    BY <1>0, LevelsAre
  <1>2. /\ \A k \in 0 .. N : IsList(L[k]) /\ Len(L[k]) > 0
        /\ Len(L[N]) = 1
    BY LevelsShrink
  <1>3. \A k \in 0 .. N : Len(L[k]) \in Nat
    BY <1>2 DEF IsList
  <1>4. Depth(leaves) = Cardinality({k \in 0 .. N : Len(L[k]) > 1})
    BY DEF Depth
  <1> HIDE DEF L
  <1>5. PICK d \in Ones : \A k \in Ones : d =< k
    <2>1. N \in Ones
      BY <1>0, <1>2
    <2>2. Ones \in SUBSET Nat
      OBVIOUS
    <2> HIDE DEF Ones
    <2> QED
      BY <2>1, <2>2, LeastNat
  <1>6. d \in 0 .. N /\ Len(L[d]) = 1
    BY <1>5
  <1>7. ASSUME NEW k \in 0 .. d - 1
        PROVE  k \in 0 .. N /\ k + 1 \in 0 .. N /\ Len(L[k]) > 1 /\ L[k + 1] = NextLevel(L[k])
    <2>1. k \in 0 .. N /\ k + 1 \in 0 .. N /\ k + 1 # 0 /\ (k + 1) - 1 = k /\ ~(d =< k)
      BY <1>0, <1>6
    <2>2. Len(L[k]) # 1
      BY <1>5, <2>1
    <2>3. Len(L[k]) > 1
      <3> DEFINE c == Len(L[k])
      <3>1. c \in Nat /\ c > 0 /\ c # 1
        BY <1>2, <1>3, <2>1, <2>2
      <3> HIDE DEF c
      <3>2. c > 1
        BY <3>1
      <3> QED
        BY <3>2 DEF c
    <2> QED
      BY <1>1, <2>1, <2>2, <2>3
  <1>8. \A k \in d .. N : Len(L[k]) = 1
    <2> DEFINE Good == {i \in 0 .. N - d : Len(L[d + i]) = 1}
    <2>1. N - d \in Nat /\ d \in Nat
      BY <1>0, <1>6
    <2>2. 0 \in Good
      BY <1>6, <2>1
    <2>3. ASSUME NEW i \in 0 .. (N - d) - 1, i \in Good PROVE i + 1 \in Good
      <3>1. /\ d + (i + 1) \in 0 .. N /\ d + (i + 1) # 0 /\ (d + (i + 1)) - 1 = d + i
            /\ i + 1 \in 0 .. N - d
        BY <1>0, <1>6, <2>1
      <3>2. Len(L[d + i]) = 1
        BY <2>3
      <3>3. L[d + (i + 1)] = L[d + i]
        BY <1>1, <3>1, <3>2
      <3> QED
        BY <3>1, <3>2, <3>3
    <2> HIDE DEF Good
    <2>4. \A i \in 0 .. N - d : i \in Good
      BY <2>1, <2>2, <2>3, UpTo
    <2>5. \A i \in 0 .. N - d : Len(L[d + i]) = 1
      BY <2>4 DEF Good
    <2>6. ASSUME NEW k \in d .. N PROVE Len(L[k]) = 1
      <3>1. k - d \in 0 .. N - d /\ d + (k - d) = k
        BY <1>0, <1>6
      <3> QED
        BY <2>5, <3>1
    <2> QED
      BY <2>6
  <1>9. {k \in 0 .. N : Len(L[k]) > 1} = 0 .. d - 1
    <2>1. ASSUME NEW k \in 0 .. N, Len(L[k]) > 1 PROVE k \in 0 .. d - 1
      <3>1. Len(L[k]) # 1
        <4> DEFINE c == Len(L[k])
        <4>1. c \in Nat /\ c > 1
          BY <1>3, <2>1
        <4> HIDE DEF c
        <4>2. c # 1
          BY <4>1
        <4> QED
          BY <4>2 DEF c
      <3>2. k \notin d .. N
        BY <1>8, <3>1
      <3> HIDE DEF N
      <3> QED
        BY <1>0, <1>6, <2>1, <3>2
    <2> QED
      BY <1>7, <2>1
  <1>10. Depth(leaves) = d
    <2>1. Cardinality(0 .. d - 1) = IF 0 > d - 1 THEN 0 ELSE (d - 1) - 0 + 1
      BY <1>6, FS_Interval
    <2>2. d \in Nat
      BY <1>6
    <2>3. Cardinality(0 .. d - 1) = d
      <3> DEFINE c == Cardinality(0 .. d - 1)
      <3>1. c = IF 0 > d - 1 THEN 0 ELSE (d - 1) - 0 + 1
        BY <2>1
      <3> HIDE DEF c
      <3>2. c = d
        BY <2>2, <3>1
      <3> QED
        BY <3>2 DEF c
    <2> QED
      BY <1>4, <1>9, <2>3
  <1>11. L[0] = leaves
    BY <1>0, <1>1
  <1>12. \A k \in 0 .. d : IsList(L[k]) /\ Len(L[k]) > 0
    BY <1>0, <1>2, <1>6
  <1> QED
    BY <1>6, <1>7, <1>10, <1>11, <1>12 DEF L

\* The nodes of the tree.
Nodes(leaves) ==
    LET L == Levels(leaves) IN UNION {{L[k][i] : i \in DOMAIN L[k]} : k \in 0 .. Len(leaves)}

SiblingNode(leaves, index, k) == Levels(leaves)[k][Sibling(index, k) + 1]

\* Sibling and parent, by the side.
LEMMA SiblingIs ==
    ASSUME NEW index \in Nat, NEW k \in Nat
    PROVE  LET a == Ancestor(index, k) IN
           /\ a \in Nat /\ Sibling(index, k) \in Nat
           /\ a % 2 = 0 => Sibling(index, k) = a + 1 /\ a = 2 * Ancestor(index, k + 1)
           /\ a % 2 # 0 => Sibling(index, k) = a - 1 /\ a = 2 * Ancestor(index, k + 1) + 1
  <1> DEFINE a == Ancestor(index, k)
             b == Ancestor(index, k + 1)
             s == Sibling(index, k)
  <1>1. a \in Nat /\ b = a \div 2
    BY AncestorsAre
  <1>2. s = IF a % 2 = 1 THEN a - 1 ELSE a + 1
    BY DEF Sibling
  <1> HIDE DEF a, b, s
  <1>3. a % 2 \in {0, 1} /\ a = 2 * b + (a % 2) /\ b \in Nat
    BY <1>1
  <1>4. ASSUME a % 2 = 0 PROVE s \in Nat /\ s = a + 1 /\ a = 2 * b
    BY <1>1, <1>2, <1>3, <1>4
  <1>5. ASSUME a % 2 # 0 PROVE s \in Nat /\ s = a - 1 /\ a = 2 * b + 1
    <2>1. a % 2 = 1
      BY <1>3, <1>5
    <2> QED
      BY <1>1, <1>2, <1>3, <2>1
  <1>6. s \in Nat /\ (a % 2 = 0 => s = a + 1 /\ a = 2 * b)
                  /\ (a % 2 # 0 => s = a - 1 /\ a = 2 * b + 1)
    BY <1>4, <1>5
  <1> QED
    BY <1>1, <1>6 DEF a, b, s

\* The elements of generateProof up to a level: one for each level whose node
\* on the way has a sibling.
LEMMA ProofIs ==
    ASSUME NEW leaves, IsList(leaves), Len(leaves) > 0, NEW index \in Nat
    PROVE  LET D == Depth(leaves)
               proof == GenerateProof(leaves, index)
               Has(k) == HasSibling(leaves, index, k)
           IN  /\ proof \in Seq(Nodes(leaves)) /\ Len(proof) =< D
               /\ (\A k \in 0 .. D - 1 : Has(k)) =>
                     /\ Len(proof) = D
                     /\ \A k \in 0 .. D - 1 : proof[k + 1] = SiblingNode(leaves, index, k)
               /\ Len(proof) = D => \A k \in 0 .. D - 1 : Has(k)
  <1> DEFINE D == Depth(leaves)
             L == Levels(leaves)
             Has(k) == HasSibling(leaves, index, k)
             Node(k) == SiblingNode(leaves, index, k)
             Step(k, x) == IF Has(k - 1) THEN Append(x, Node(k - 1)) ELSE x
             Is(f, n) == f = [k \in 0 .. n |-> IF k = 0 THEN <<>> ELSE Step(k, f[k - 1])]
             Exists == {n \in Nat : \E f : Is(f, n)}
             X == Nodes(leaves)
  <1>0. D \in 0 .. Len(leaves) /\ Len(leaves) \in Nat /\ D \in Nat
    <2>1. Len(leaves) \in Nat
      BY DEF IsList
    <2> QED
      BY <2>1, DepthIs
  <1>1. \E f : Is(f, D)
    <2> HIDE DEF Step, D
    <2>1. 0 \in Exists
      <3>1. Is([k \in 0 .. 0 |-> <<>>], 0)
        OBVIOUS
      <3> QED
        BY <3>1
    <2>2. ASSUME NEW n \in Nat, n \in Exists PROVE n + 1 \in Exists
      <3>1. PICK g : Is(g, n)
        BY <2>2
      <3> DEFINE f == [k \in 0 .. n + 1 |-> IF k = n + 1 THEN Step(k, g[n]) ELSE g[k]]
      <3>2. ASSUME NEW k \in 0 .. n + 1
            PROVE  f[k] = IF k = 0 THEN <<>> ELSE Step(k, f[k - 1])
        <4>1. CASE k = n + 1
          BY <4>1
        <4>2. CASE k # n + 1
          <5>1. k \in 0 .. n /\ (k # 0 => k - 1 \in 0 .. n + 1 /\ k - 1 # n + 1)
            BY <4>2
          <5>2. f[k] = g[k] /\ (k # 0 => f[k - 1] = g[k - 1])
            BY <4>2, <5>1
          <5>3. g[k] = IF k = 0 THEN <<>> ELSE Step(k, g[k - 1])
            BY <3>1, <5>1
          <5> QED
            BY <5>2, <5>3
        <4> QED
          BY <4>1, <4>2
      <3>3. f = [k \in 0 .. n + 1 |-> f[k]]
        OBVIOUS
      <3> HIDE DEF f
      <3>4. Is(f, n + 1)
        BY <3>2, <3>3
      <3> QED
        BY <3>4
    <2> HIDE DEF Exists
    <2>3. \A n \in 0 .. D - 1 : n \in Exists => n + 1 \in Exists
      BY <1>0, <2>2
    <2>4. \A n \in 0 .. D : n \in Exists
      BY <1>0, <2>1, <2>3, UpTo
    <2> QED
      BY <1>0, <2>4 DEF Exists
  <1> DEFINE P == CHOOSE f : Is(f, D)
  <1>2. GenerateProof(leaves, index) = P[D]
    BY DEF GenerateProof, SiblingNode
  <1>3. P[0] = <<>> /\ \A k \in 1 .. D : P[k] = Step(k, P[k - 1])
    <2>1. Is(P, D)
      BY <1>1
    <2> HIDE DEF P, Step, D
    <2> QED
      BY <1>0, <2>1
  <1>4. ASSUME NEW k \in 0 .. D - 1, Has(k) PROVE Node(k) \in X
    <2>1. IsList(L[k])
      <3>1. k \in 0 .. D
        BY <1>0
      <3> QED
        BY <3>1, DepthIs
    <2>2. Sibling(index, k) \in Nat /\ Sibling(index, k) < Len(L[k]) /\ Len(L[k]) \in Nat
      <3>1. k \in Nat
        BY <1>0
      <3> QED
        BY <1>4, <2>1, <3>1, SiblingIs DEF HasSibling, IsList
    <2>3. Sibling(index, k) + 1 \in 1 .. Len(L[k])
      BY <2>2
    <2>4. DOMAIN L[k] = 1 .. Len(L[k])
      BY <2>1 DEF IsList
    <2>5. Node(k) \in {L[k][i] : i \in DOMAIN L[k]} /\ k \in 0 .. Len(leaves)
      BY <1>0, <2>3, <2>4 DEF SiblingNode
    <2> QED
      BY <2>5 DEF Nodes
  <1> DEFINE Good == {k \in 0 .. D :
                        /\ P[k] \in Seq(X) /\ Len(P[k]) =< k
                        /\ (\A j \in 0 .. k - 1 : Has(j)) =>
                              /\ Len(P[k]) = k
                              /\ \A j \in 0 .. k - 1 : P[k][j + 1] = Node(j)
                        /\ Len(P[k]) = k => \A j \in 0 .. k - 1 : Has(j)}
  <1> HIDE DEF P, D, X, Has, Node
  <1>5. 0 \in Good
    <2>1. 0 .. 0 - 1 = {} /\ 0 \in 0 .. D
      BY <1>0
    <2>2. P[0] \in Seq(X) /\ Len(P[0]) = 0
      BY <1>3
    <2> QED
      BY <2>1, <2>2
  <1>6. ASSUME NEW k \in 0 .. D - 1, k \in Good PROVE k + 1 \in Good
    <2>1. /\ k \in Nat /\ k + 1 \in 1 .. D /\ (k + 1) - 1 = k /\ k + 1 \in 0 .. D
          /\ 0 .. (k + 1) - 1 = 0 .. k /\ 0 .. k = (0 .. k - 1) \cup {k}
      BY <1>0
    <2>2. P[k + 1] = IF Has(k) THEN Append(P[k], Node(k)) ELSE P[k]
      BY <1>3, <2>1
    <2>3. /\ P[k] \in Seq(X) /\ Len(P[k]) =< k /\ Len(P[k]) \in Nat
          /\ (\A j \in 0 .. k - 1 : Has(j)) =>
                /\ Len(P[k]) = k
                /\ \A j \in 0 .. k - 1 : P[k][j + 1] = Node(j)
          /\ Len(P[k]) = k => \A j \in 0 .. k - 1 : Has(j)
      BY <1>6
    <2>4. CASE ~ Has(k)
      <3>1. P[k + 1] = P[k] /\ Len(P[k]) # k + 1 /\ Len(P[k]) =< k + 1
        BY <2>1, <2>2, <2>3, <2>4
      <3>2. ~ \A j \in 0 .. (k + 1) - 1 : Has(j)
        BY <2>1, <2>4
      <3> QED
        BY <2>1, <2>3, <3>1, <3>2
    <2>5. CASE Has(k)
      <3>1. Node(k) \in X
        BY <1>4, <2>5
      <3>2. /\ P[k + 1] \in Seq(X) /\ Len(P[k + 1]) = Len(P[k]) + 1
            /\ P[k + 1][Len(P[k]) + 1] = Node(k)
            /\ \A i \in 1 .. Len(P[k]) : P[k + 1][i] = P[k][i]
        BY <2>2, <2>3, <2>5, <3>1
      <3>3. Len(P[k + 1]) =< k + 1 /\ (Len(P[k + 1]) = k + 1 <=> Len(P[k]) = k)
        BY <2>1, <2>3, <3>2
      <3>4. (\A j \in 0 .. (k + 1) - 1 : Has(j)) <=> \A j \in 0 .. k - 1 : Has(j)
        BY <2>1, <2>5
      <3>5. ASSUME Len(P[k]) = k, \A j \in 0 .. k - 1 : P[k][j + 1] = Node(j)
            PROVE  \A j \in 0 .. (k + 1) - 1 : P[k + 1][j + 1] = Node(j)
        <4>1. P[k + 1][k + 1] = Node(k)
          BY <3>2, <3>5
        <4>2. ASSUME NEW j \in 0 .. k - 1 PROVE P[k + 1][j + 1] = Node(j)
          <5>1. j + 1 \in 1 .. k
            BY <2>1
          <5> QED
            BY <3>2, <3>5, <5>1
        <4> QED
          BY <2>1, <4>1, <4>2
      <3> QED
        BY <2>1, <2>3, <3>2, <3>3, <3>4, <3>5
    <2> QED
      BY <2>4, <2>5
  <1> HIDE DEF Good
  <1>7. \A k \in 0 .. D : k \in Good
    BY <1>0, <1>5, <1>6, UpTo
  <1>8. D \in Good
    BY <1>0, <1>7
  <1> QED
    BY <1>2, <1>8 DEF Good, P, D, X, Has, Node

Paired(side, x, y) == IF side % 2 = 0 THEN Hash(x, y) ELSE Hash(y, x)

\* The running hash of computeMerkleRoot.
HashesOf(leaf, proof, index) ==
    CHOOSE hash : hash = [n \in 0 .. Len(proof) |->
        IF n = 0 THEN leaf
        ELSE IF Ancestor(index, n - 1) % 2 = 0
        THEN Hash(hash[n - 1], proof[n])
        ELSE Hash(proof[n], hash[n - 1])]

LEMMA HashesAre ==
    ASSUME NEW leaf, NEW proof, Len(proof) \in Nat, NEW index
    PROVE  LET h == HashesOf(leaf, proof, index) IN
           /\ h[0] = leaf /\ ComputeMerkleRoot(leaf, proof, index) = h[Len(proof)]
           /\ \A n \in 1 .. Len(proof) :
                 h[n] = Paired(Ancestor(index, n - 1), h[n - 1], proof[n])
  <1> DEFINE N == Len(proof)
             Step(n, x) == IF Ancestor(index, n - 1) % 2 = 0 THEN Hash(x, proof[n])
                           ELSE Hash(proof[n], x)
             Is(f, n) == f = [k \in 0 .. n |-> IF k = 0 THEN leaf ELSE Step(k, f[k - 1])]
             Exists == {n \in Nat : \E f : Is(f, n)}
  <1>1. \E f : Is(f, N)
    <2> HIDE DEF Step, N
    <2>0. N \in Nat
      BY DEF N
    <2>1. 0 \in Exists
      <3>1. Is([k \in 0 .. 0 |-> leaf], 0)
        OBVIOUS
      <3> QED
        BY <3>1
    <2>2. ASSUME NEW n \in Nat, n \in Exists PROVE n + 1 \in Exists
      <3>1. PICK g : Is(g, n)
        BY <2>2
      <3> DEFINE f == [k \in 0 .. n + 1 |-> IF k = n + 1 THEN Step(k, g[n]) ELSE g[k]]
      <3>2. ASSUME NEW k \in 0 .. n + 1
            PROVE  f[k] = IF k = 0 THEN leaf ELSE Step(k, f[k - 1])
        <4>1. CASE k = n + 1
          BY <4>1
        <4>2. CASE k # n + 1
          <5>1. k \in 0 .. n /\ (k # 0 => k - 1 \in 0 .. n + 1 /\ k - 1 # n + 1)
            BY <4>2
          <5>2. f[k] = g[k] /\ (k # 0 => f[k - 1] = g[k - 1])
            BY <4>2, <5>1
          <5>3. g[k] = IF k = 0 THEN leaf ELSE Step(k, g[k - 1])
            BY <3>1, <5>1
          <5> QED
            BY <5>2, <5>3
        <4> QED
          BY <4>1, <4>2
      <3>3. f = [k \in 0 .. n + 1 |-> f[k]]
        OBVIOUS
      <3> HIDE DEF f
      <3>4. Is(f, n + 1)
        BY <3>2, <3>3
      <3> QED
        BY <3>4
    <2> HIDE DEF Exists
    <2>3. \A n \in 0 .. N - 1 : n \in Exists => n + 1 \in Exists
      BY <2>0, <2>2
    <2>4. \A n \in 0 .. N : n \in Exists
      BY <2>0, <2>1, <2>3, UpTo
    <2> QED
      BY <2>0, <2>4 DEF Exists
  <1> DEFINE h == HashesOf(leaf, proof, index)
  <1>2. h = (CHOOSE f : Is(f, N)) /\ ComputeMerkleRoot(leaf, proof, index) = h[N]
    BY DEF ComputeMerkleRoot, HashesOf
  <1>3. h[0] = leaf /\ \A n \in 1 .. N : h[n] = Step(n, h[n - 1])
    <2>1. Is(h, N)
      BY <1>1, <1>2
    <2> HIDE DEF h, Step
    <2> QED
      BY <2>1
  <1> HIDE DEF h
  <1>4. \A n \in 1 .. N : h[n] = Paired(Ancestor(index, n - 1), h[n - 1], proof[n])
    BY <1>3 DEF Paired
  <1> QED
    BY <1>2, <1>3, <1>4 DEF h

\* A node of the tree is the hash of two nodes of the level below, of the node
\* on the way and its sibling in particular.
LEMMA ParentIs ==
    ASSUME NEW leaves, IsList(leaves), Len(leaves) > 0, NEW index \in Nat,
           NEW k \in 0 .. Depth(leaves) - 1,
           Ancestor(index, k) < Len(Levels(leaves)[k]), HasSibling(leaves, index, k)
    PROVE  LET L == Levels(leaves)
               a == Ancestor(index, k)
               b == Ancestor(index, k + 1)
           IN  /\ b < Len(L[k + 1])
               /\ L[k + 1][b + 1] = Paired(a, L[k][a + 1], SiblingNode(leaves, index, k))
  <1> DEFINE l == Levels(leaves)[k]
             a == Ancestor(index, k)
             b == Ancestor(index, k + 1)
             s == Sibling(index, k)
             n == Len(l)
             m == (n + 1) \div 2
             up1 == Levels(leaves)[k + 1]
  <1>1. k \in Nat /\ k \in 0 .. Depth(leaves)
    <2>1. Depth(leaves) \in Nat
      <3>1. Depth(leaves) \in 0 .. Len(leaves)
        BY DepthIs
      <3> QED
        BY <3>1 DEF IsList
    <2> QED
      BY <2>1
  <1>2. n \in Nat
    BY <1>1, DepthIs DEF IsList
  <1>3. /\ Len(up1) = m
        /\ \A i \in 1 .. m : up1[i] = Hash(l[2 * i - 1], l[IF 2 * i =< n THEN 2 * i ELSE 2 * i - 1])
    <2>1. up1 = NextLevel(l)
      BY DepthIs
    <2> QED
      BY <1>2, <2>1, NextLevelIs
  <1>4. /\ a \in Nat /\ s \in Nat /\ b \in Nat /\ a < n /\ s < n
        /\ a % 2 = 0 => s = a + 1 /\ a = 2 * b
        /\ a % 2 # 0 => s = a - 1 /\ a = 2 * b + 1
    <2>1. s < n
      BY DEF HasSibling
    <2>2. b \in Nat
      <3>1. k + 1 \in Nat
        BY <1>1
      <3> QED
        BY <3>1, AncestorsAre
    <2>3. /\ a \in Nat /\ s \in Nat
          /\ a % 2 = 0 => s = a + 1 /\ a = 2 * b
          /\ a % 2 # 0 => s = a - 1 /\ a = 2 * b + 1
      BY <1>1, SiblingIs
    <2> QED
      BY <2>1, <2>2, <2>3
  <1>5. SiblingNode(leaves, index, k) = l[s + 1]
    BY DEF SiblingNode
  <1> HIDE DEF l, a, b, s, n, up1
  <1>6. m \in Nat /\ b < m /\ b + 1 \in 1 .. m
    BY <1>2, <1>4
  <1>7. 2 * (b + 1) =< n
    BY <1>2, <1>4
  <1>8. up1[b + 1] = Hash(l[2 * (b + 1) - 1], l[2 * (b + 1)])
    BY <1>3, <1>6, <1>7
  <1>9. up1[b + 1] = Paired(a, l[a + 1], l[s + 1])
    <2>1. CASE a % 2 = 0
      <3>1. 2 * (b + 1) - 1 = a + 1 /\ 2 * (b + 1) = s + 1
        BY <1>4, <2>1
      <3> QED
        BY <1>8, <2>1, <3>1 DEF Paired
    <2>2. CASE a % 2 # 0
      <3>1. 2 * (b + 1) - 1 = s + 1 /\ 2 * (b + 1) = a + 1
        BY <1>4, <2>2
      <3> QED
        BY <1>8, <2>2, <3>1 DEF Paired
    <2> QED
      BY <2>1, <2>2
  <1> QED
    BY <1>3, <1>5, <1>6, <1>9 DEF l, a, b, s, n, up1

\* When every node on the way has a sibling, the proof leads to the root.
LEMMA FullProofVerifies ==
    ASSUME NEW leaves, IsList(leaves), NEW index \in Nat, index < Len(leaves),
           \A k \in 0 .. Depth(leaves) - 1 : HasSibling(leaves, index, k)
    PROVE  ComputeMerkleRoot(leaves[index + 1], GenerateProof(leaves, index), index)
             = Root(leaves)
  <1> DEFINE L == Levels(leaves)
             D == Depth(leaves)
             A(k) == Ancestor(index, k)
             proof == GenerateProof(leaves, index)
  <1>0. Len(leaves) \in Nat /\ Len(leaves) > 0
    BY DEF IsList
  <1>1. D \in Nat /\ Len(L[D]) = 1 /\ L[0] = leaves
    BY <1>0, DepthIs
  <1>2. Len(proof) = D /\ \A k \in 0 .. D - 1 : proof[k + 1] = SiblingNode(leaves, index, k)
    BY <1>0, ProofIs
  <1> DEFINE leaf == leaves[index + 1]
             h == HashesOf(leaf, proof, index)
  <1>3. /\ h[0] = leaf /\ ComputeMerkleRoot(leaf, proof, index) = h[Len(proof)]
        /\ \A n \in 1 .. Len(proof) : h[n] = Paired(A(n - 1), h[n - 1], proof[n])
    <2>1. Len(proof) \in Nat
      BY <1>1, <1>2
    <2> HIDE DEF proof, leaf
    <2> QED
      BY <2>1, HashesAre
  <1> HIDE DEF h
  <1> DEFINE Good == {k \in 0 .. D : A(k) < Len(L[k]) /\ h[k] = L[k][A(k) + 1]}
  <1>4. 0 \in Good
    <2>1. A(0) = index
      BY AncestorsAre
    <2> HIDE DEF A, L, D
    <2> QED
      BY <1>1, <1>3, <2>1
  <1>5. ASSUME NEW k \in 0 .. D - 1, k \in Good PROVE k + 1 \in Good
    <2>1. A(k) < Len(L[k]) /\ h[k] = L[k][A(k) + 1] /\ HasSibling(leaves, index, k)
      BY <1>5
    <2>2. /\ A(k + 1) < Len(L[k + 1])
          /\ L[k + 1][A(k + 1) + 1] = Paired(A(k), L[k][A(k) + 1], SiblingNode(leaves, index, k))
      BY <1>0, <2>1, ParentIs
    <2>3. k + 1 \in 1 .. D /\ (k + 1) - 1 = k /\ k + 1 \in 0 .. D
      BY <1>1
    <2> HIDE DEF A, L, D, proof
    <2>4. h[k + 1] = Paired(A(k), h[k], proof[k + 1])
      BY <1>2, <1>3, <2>3
    <2> QED
      BY <1>2, <2>1, <2>2, <2>3, <2>4
  <1> HIDE DEF Good
  <1>6. \A k \in 0 .. D : k \in Good
    BY <1>1, <1>4, <1>5, UpTo
  <1>7. A(D) < 1 /\ h[D] = L[D][A(D) + 1] /\ A(D) \in Nat
    <2>1. A(D) \in Nat
      BY <1>1, AncestorsAre
    <2>2. D \in Good
      BY <1>1, <1>6
    <2> QED
      BY <1>1, <2>1, <2>2 DEF Good
  <1>8. A(D) + 1 = 1
    <2> HIDE DEF A
    <2> QED
      BY <1>7
  <1> HIDE DEF A, D, L, proof
  <1>9. h[Len(proof)] = L[D][1]
    BY <1>2, <1>7, <1>8
  <1> QED
    BY <1>3, <1>9 DEF Root, L, D, proof

\* When a node on the way is hashed with itself, the proof is shorter than the
\* tree is deep, and a hash found at one depth is not found at another, leaves
\* being no hashes of pairs.
LEMMA ShortProofFails ==
    ASSUME NEW leaves, IsList(leaves), NEW index \in Nat, index < Len(leaves),
           \A left, right : leaves[index + 1] # Hash(left, right),
           ~ \A k \in 0 .. Depth(leaves) - 1 : HasSibling(leaves, index, k)
    PROVE  ComputeMerkleRoot(leaves[index + 1], GenerateProof(leaves, index), index)
             # Root(leaves)
  <1> DEFINE L == Levels(leaves)
             D == Depth(leaves)
             proof == GenerateProof(leaves, index)
             m == Len(proof)
             leaf == leaves[index + 1]
             h == HashesOf(leaf, proof, index)
             Node(k, x) == \E p \in DOMAIN L[k] : x = L[k][p]
  <1>0. Len(leaves) \in Nat /\ Len(leaves) > 0
    BY DEF IsList
  <1>1. /\ D \in Nat /\ Len(L[D]) = 1
        /\ \A k \in 0 .. D : IsList(L[k])
        /\ \A k \in 0 .. D - 1 : L[k + 1] = NextLevel(L[k])
    <2>1. D \in 0 .. Len(leaves)
      BY <1>0, DepthIs
    <2>2. D \in Nat
      BY <1>0, <2>1
    <2> QED
      BY <1>0, <2>2, DepthIs
  <1>2. m \in Nat /\ m =< D /\ m # D
    <2>1. proof \in Seq(Nodes(leaves)) /\ m =< D
          /\ (m = D => \A k \in 0 .. D - 1 : HasSibling(leaves, index, k))
      BY <1>0, ProofIs
    <2>2. m \in Nat
      <3>1. proof \in Seq(Nodes(leaves))
        BY <2>1
      <3> HIDE DEF proof
      <3> QED
        BY <3>1
    <2> HIDE DEF m
    <2> QED
      BY <2>1, <2>2
  <1>3. /\ h[0] = leaf /\ ComputeMerkleRoot(leaf, proof, index) = h[m]
        /\ \A n \in 1 .. m : h[n] = Paired(Ancestor(index, n - 1), h[n - 1], proof[n])
    <2>1. Len(proof) \in Nat
      BY <1>2
    <2> HIDE DEF proof, leaf
    <2> QED
      BY <2>1, HashesAre
  <1>4. Root(leaves) = L[D][1]
    BY DEF Root
  <1> HIDE DEF h, m, proof, D, L
  <1> SUFFICES ASSUME h[m] = L[D][1] PROVE FALSE
    BY <1>3, <1>4 DEF leaf, proof
  <1>5. ASSUME NEW k \in 0 .. D - 1, NEW x, Node(k + 1, x)
        PROVE  \E p, q : Node(k, p) /\ Node(k, q) /\ x = Hash(p, q)
    <2> DEFINE l == L[k]
               n == Len(l)
    <2>1. k \in 0 .. D /\ L[k + 1] = NextLevel(l)
      BY <1>1
    <2>2. n \in Nat /\ DOMAIN l = 1 .. n
      BY <1>1, <2>1 DEF IsList
    <2>3. PICK i \in DOMAIN L[k + 1] : x = L[k + 1][i]
      BY <1>5
    <2> DEFINE w == (n + 1) \div 2
               j == IF 2 * i =< n THEN 2 * i ELSE 2 * i - 1
    <2>4. /\ NextLevel(l) = [p \in 1 .. w |-> NextLevel(l)[p]]
          /\ \A p \in 1 .. w : NextLevel(l)[p] =
                Hash(l[2 * p - 1], l[IF 2 * p =< n THEN 2 * p ELSE 2 * p - 1])
      BY <2>2, NextLevelIs
    <2>5. i \in 1 .. w
      BY <2>1, <2>3, <2>4
    <2> HIDE DEF l, n
    <2>6. x = Hash(l[2 * i - 1], l[j])
      BY <2>1, <2>3, <2>4, <2>5
    <2>7. 2 * i - 1 \in 1 .. n /\ j \in 1 .. n
      BY <2>2, <2>5
    <2>8. Node(k, l[2 * i - 1]) /\ Node(k, l[j])
      BY <2>2, <2>7 DEF l
    <2> QED
      BY <2>6, <2>8
  <1> DEFINE Good == {j \in 0 .. m : Node(D - j, h[m - j])}
  <1>6. 0 \in Good
    <2>1. D - 0 = D /\ m - 0 = m /\ 0 \in 0 .. m /\ D \in 0 .. D
      BY <1>1, <1>2
    <2>2. DOMAIN L[D] = 1 .. 1
      BY <1>1, <2>1 DEF IsList
    <2>3. Node(D, h[m])
      BY <2>2
    <2> QED
      BY <2>1, <2>3
  <1>7. ASSUME NEW j \in 0 .. m - 1, j \in Good PROVE j + 1 \in Good
    <2>1. /\ m - j \in 1 .. m /\ (m - j) - 1 = m - (j + 1)
          /\ D - (j + 1) \in 0 .. D - 1 /\ (D - (j + 1)) + 1 = D - j /\ j + 1 \in 0 .. m
      BY <1>1, <1>2
    <2>2. Node(D - j, h[m - j])
      BY <1>7
    <2> DEFINE k == D - (j + 1)
               n == m - j
    <2>3. PICK p, q : Node(k, p) /\ Node(k, q) /\ h[n] = Hash(p, q)
      <3>1. k \in 0 .. D - 1 /\ k + 1 = D - j
        BY <2>1
      <3> HIDE DEF k, Node
      <3>2. Node(k + 1, h[n])
        BY <2>2, <3>1
      <3> QED
        BY <1>5, <3>1, <3>2
    <2>4. h[n] = Paired(Ancestor(index, n - 1), h[n - 1], proof[n])
      BY <1>3, <2>1
    <2>5. h[n - 1] = p \/ h[n - 1] = q
      BY <2>3, <2>4 DEF Paired, Hash
    <2>6. Node(k, h[n - 1])
      BY <2>3, <2>5
    <2> QED
      BY <2>1, <2>6
  <1> HIDE DEF Good
  <1>8. m \in Good
    <2>1. \A j \in 0 .. m : j \in Good
      BY <1>2, <1>6, <1>7, UpTo
    <2> QED
      BY <1>2, <2>1
  <1>9. Node(D - m, leaf)
    <2>1. m - m = 0
      BY <1>2
    <2> QED
      BY <1>3, <1>8, <2>1 DEF Good
  <1>10. (D - m) - 1 \in 0 .. D - 1 /\ ((D - m) - 1) + 1 = D - m
    BY <1>1, <1>2
  <1>11. PICK p, q : leaf = Hash(p, q)
    <2> DEFINE k == (D - m) - 1
    <2>1. k \in 0 .. D - 1 /\ k + 1 = D - m
      BY <1>10
    <2> HIDE DEF k, Node
    <2>2. Node(k + 1, leaf)
      BY <1>9, <2>1
    <2> QED
      BY <1>5, <2>1, <2>2
  <1> QED
    BY <1>11

\* A leaf is the keccak256 of a presentation (calculateVPHash), a node the SHA-256
\* of two hashes: that no leaf equals a node is the absence of collisions that Hash
\* stands for.
LeavesAreNoHashes == \A v \in VPs : \A left, right : v # Hash(left, right)

\* Where the mapping says a presentation is, it is.
LEMMA LeafOf ==
    ASSUME IndInv, NEW v \in VPs, mapping[v] # None
    PROVE  LET leaves == batches[mapping[v].batch]
               index == mapping[v].leaf
           IN  /\ IsList(leaves) /\ index \in Nat /\ index < Len(leaves)
               /\ leaves[index + 1] = v
  <1> DEFINE b == mapping[v].batch
             index == mapping[v].leaf
  <1>1. mapping[v] \in Place
    BY DEF IndInv, TypeOK
  <1>2. index \in Nat /\ mapping[v] = [batch |-> b, leaf |-> index]
    BY <1>1 DEF Place
  <1>3. b \in DOMAIN batches /\ index + 1 \in DOMAIN batches[b]
    BY DEF IndInv, BatchesInv, MappingInv
  <1>4. batches[b] \in Seq(VPs)
    BY <1>3 DEF IndInv, TypeOK
  <1>5. batches[b][index + 1] = v
    <2>1. mapping[v] = [batch |-> b, leaf |-> (index + 1) - 1]
      BY <1>2
    <2> HIDE DEF b, index
    <2> QED
      BY <1>3, <2>1 DEF IndInv, BatchesInv, MappingIsTree
  <1> HIDE DEF b, index
  <1>6. IsList(batches[b]) /\ index < Len(batches[b])
    BY <1>2, <1>3, <1>4 DEF IsList
  <1> QED
    BY <1>2, <1>5, <1>6 DEF b, index

\* getMerkleProof's proof of a presentation whose way up has a sibling on every
\* level leads computeMerkleRoot to the root that createBatch stored, for
\* batches of any size.
THEOREM FullProofsLeadToTheRoot ==
    Spec => [](\A v \in VPs : mapping[v] # None =>
        LET leaves == batches[mapping[v].batch]
            index == mapping[v].leaf
        IN  (\A k \in 0 .. Depth(leaves) - 1 : HasSibling(leaves, index, k))
              => ComputeMerkleRoot(v, GenerateProof(leaves, index), index) = Root(leaves))
  <1> DEFINE Reaches == \A v \in VPs : mapping[v] # None =>
        LET leaves == batches[mapping[v].batch]
            index == mapping[v].leaf
        IN  (\A k \in 0 .. Depth(leaves) - 1 : HasSibling(leaves, index, k))
              => ComputeMerkleRoot(v, GenerateProof(leaves, index), index) = Root(leaves)
  <1>1. ASSUME IndInv, NEW v \in VPs, mapping[v] # None,
               \A k \in 0 .. Depth(batches[mapping[v].batch]) - 1 :
                   HasSibling(batches[mapping[v].batch], mapping[v].leaf, k)
        PROVE  ComputeMerkleRoot(v, GenerateProof(batches[mapping[v].batch], mapping[v].leaf),
                                 mapping[v].leaf) = Root(batches[mapping[v].batch])
    <2> DEFINE leaves == batches[mapping[v].batch]
               index == mapping[v].leaf
    <2>1. IsList(leaves) /\ index \in Nat /\ index < Len(leaves) /\ leaves[index + 1] = v
      BY <1>1, LeafOf
    <2>2. \A k \in 0 .. Depth(leaves) - 1 : HasSibling(leaves, index, k)
      BY <1>1
    <2> HIDE DEF leaves, index
    <2>3. ComputeMerkleRoot(leaves[index + 1], GenerateProof(leaves, index), index) = Root(leaves)
      BY <2>1, <2>2, FullProofVerifies
    <2> QED
      BY <2>1, <2>3 DEF leaves, index
  <1>2. IndInv => Reaches
    BY <1>1
  <1> QED
    BY <1>2, Invariance, PTL

\* It leads there exactly then: a node hashed with itself is in no proof, and
\* the library's contract refuses the presentation under it.
THEOREM ProofsVerifyExactlyWhenFull ==
    ASSUME LeavesAreNoHashes
    PROVE  Spec => []ProofsVerify
  <1>1. ASSUME IndInv, NEW v \in VPs, mapping[v] # None
        PROVE  LET leaves == batches[mapping[v].batch]
                   index == mapping[v].leaf
               IN  ComputeMerkleRoot(v, GenerateProof(leaves, index), index) = Root(leaves)
                     <=> \A k \in 0 .. Depth(leaves) - 1 : HasSibling(leaves, index, k)
    <2> DEFINE leaves == batches[mapping[v].batch]
               index == mapping[v].leaf
    <2>1. IsList(leaves) /\ index \in Nat /\ index < Len(leaves) /\ leaves[index + 1] = v
      BY <1>1, LeafOf
    <2>2. \A left, right : leaves[index + 1] # Hash(left, right)
      BY <2>1 DEF LeavesAreNoHashes
    <2> HIDE DEF leaves, index
    <2>3. ComputeMerkleRoot(leaves[index + 1], GenerateProof(leaves, index), index) = Root(leaves)
            <=> \A k \in 0 .. Depth(leaves) - 1 : HasSibling(leaves, index, k)
      BY <2>1, <2>2, FullProofVerifies, ShortProofFails
    <2> QED
      BY <2>1, <2>3 DEF leaves, index
  <1>2. IndInv => ProofsVerify
    BY <1>1 DEF ProofsVerify
  <1> QED
    BY <1>2, Invariance, PTL
=============================================================================
