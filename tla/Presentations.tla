---------------------------- MODULE Presentations ----------------------------
(***************************************************************************)
(* The verifier's presentations: a challenge per login, verified and       *)
(* consumed by the vp routes, and the batches of accepted presentations    *)
(* with their Merkle trees (ChallengeService, BatchService, routes/vp.ts). *)
(*                                                                         *)
(* better-sqlite3 is synchronous and a handler awaits nothing but promises *)
(* already settled, so a request is one step.  The two databases survive   *)
(* the process; it dies of a promise that nobody catches, such as that of  *)
(* a createBatch that throws, and the container starts it again.  A        *)
(* process that cannot open the second runs without batches.               *)
(***************************************************************************)
EXTENDS Naturals, Sequences, FiniteSets

CONSTANTS
    VPs,            \* signed presentations, named by their hash
    Challenges,     \* the 32 random bytes that generateChallenge may draw
    Holders,
    None,
    Ttl,            \* challengeTtlSeconds
    MaxBatchSize,   \* config.maxBatchSize
    MaxTime         \* bound: seconds

Row == [holder : Holders, expiresAt : Nat, used : BOOLEAN]
Place == [batch : Nat, leaf : Nat]

ASSUME NoneAssumption ==
    None \notin VPs \cup Challenges \cup Holders /\ None \notin Row \cup Place
ASSUME BoundsAssumption ==
    Ttl \in Nat /\ MaxTime \in Nat /\ MaxBatchSize \in Nat \ {0}

VARIABLES
    now,        \* the clock
    drawn,      \* the challenges drawn
    challenges, \* table challenges: each challenge's row, if any
    signed,     \* who signed each presentation, with which challenge if any
    pending,    \* table pending_vps, by timestamp
    batches,    \* tables batches, merkle_tree_nodes: the leaves of each batch
    mapping,    \* table vp_batch_mapping
    up,         \* whether the process runs
    batching,   \* whether it could start the batch service
    uses,       \* history: how many presentations each challenge got accepted
    queued      \* history: the presentations that got a row in pending_vps

db == <<challenges, pending, batches, mapping>>
ghosts == <<uses, queued>>
vars == <<now, drawn, db, signed, up, batching, ghosts>>

TypeOK ==
    /\ now \in Nat
    /\ drawn \subseteq Challenges
    /\ challenges \in [Challenges -> Row \cup {None}]
    /\ signed \in [VPs -> [holder : Holders, challenge : Challenges \cup {None}] \cup {None}]
    /\ pending \in Seq(VPs)
    /\ batches \in Seq(Seq(VPs))
    /\ mapping \in [VPs -> Place \cup {None}]
    /\ up \in BOOLEAN /\ batching \in BOOLEAN
    /\ uses \in [Challenges -> Nat]
    /\ queued \subseteq VPs

Elements(s) == {s[i] : i \in DOMAIN s}

-----------------------------------------------------------------------------
(* Challenges. *)

\* POST marketplace/auth/challenge.
GenerateChallenge(h) ==
    /\ up
    /\ \E c \in Challenges \ drawn :
          /\ drawn' = drawn \cup {c}
          /\ challenges' = [challenges EXCEPT
                ![c] = [holder |-> h, expiresAt |-> now + Ttl, used |-> FALSE]]
    /\ UNCHANGED <<now, signed, pending, batches, mapping, up, batching, ghosts>>

\* The wallet signs a presentation, with a challenge or without.
Sign(v, h) ==
    /\ signed[v] = None
    /\ \E c \in drawn \cup {None} :
          signed' = [signed EXCEPT ![v] = [holder |-> h, challenge |-> c]]
    /\ UNCHANGED <<now, drawn, db, up, batching, ghosts>>

ChallengeValid(c, h) ==
    /\ challenges[c] # None
    /\ challenges[c].holder = h
    /\ challenges[c].expiresAt > now
    /\ ~ challenges[c].used

\* Fault: checked, not consumed.
IsValid(c) == UNCHANGED challenges

Consume(c) == challenges' = [challenges EXCEPT ![c].used = TRUE]

\* Of the routes' checks, the one that changes state: without a challenge
\* nothing is consumed.
CheckChallenge(v) ==
    LET c == signed[v].challenge
    IN  \/ c = None /\ UNCHANGED challenges
        \/ c # None /\ ChallengeValid(c, signed[v].holder) /\ Consume(c)

\* DELETE FROM challenges WHERE expires_at <= ?, every hour and at startup.
Cleaned == [c \in Challenges |->
              IF challenges[c] # None /\ challenges[c].expiresAt =< now
              THEN None ELSE challenges[c]]

CleanupExpired ==
    /\ up /\ challenges' = Cleaned
    /\ UNCHANGED <<now, drawn, signed, pending, batches, mapping, up, batching, ghosts>>

-----------------------------------------------------------------------------
(* Batches. *)

\* INSERT OR IGNORE INTO pending_vps.
WithPending(v) == IF v \in Elements(pending) THEN pending ELSE Append(pending, v)

PlacesOf(leaves) ==
    [v \in VPs |->
        IF v \in Elements(leaves)
        THEN [batch |-> Len(batches) + 1,
              leaf |-> (CHOOSE i \in DOMAIN leaves : leaves[i] = v) - 1]
        ELSE mapping[v]]

\* Fault: the mapping of a presentation batched before is replaced.
ReplacingMappings(leaves) ==
    /\ batches' = Append(batches, leaves)
    /\ mapping' = PlacesOf(leaves)
    /\ pending' = <<>>
    /\ UNCHANGED up

\* Fault: pending_vps is emptied outside the transaction.
DeletingFirst(leaves) ==
    /\ pending' = <<>>
    /\ \/ /\ \A v \in Elements(leaves) : mapping[v] = None
          /\ batches' = Append(batches, leaves)
          /\ mapping' = PlacesOf(leaves)
          /\ UNCHANGED up
       \/ up' = FALSE /\ UNCHANGED <<batches, mapping>>

\* createBatch of the rows of pending_vps.  vp_hash is the key of
\* vp_batch_mapping: a presentation batched before fails the whole
\* transaction, as any other error of SQLite does, and no caller catches what
\* createBatch then rejects with.
CreateBatch(leaves) ==
    \/ /\ \A v \in Elements(leaves) : mapping[v] = None
       /\ batches' = Append(batches, leaves)
       /\ mapping' = PlacesOf(leaves)
       /\ pending' = <<>> /\ UNCHANGED up
    \/ /\ pending' = leaves /\ up' = FALSE
       /\ UNCHANGED <<batches, mapping>>

AddVP(v) ==
    IF Len(WithPending(v)) >= MaxBatchSize
    THEN CreateBatch(WithPending(v))
    ELSE pending' = WithPending(v) /\ UNCHANGED <<batches, mapping, up>>

\* Fault: the interval looks for a full batch.
FullBatchTimer ==
    /\ up /\ batching /\ Len(pending) >= MaxBatchSize
    /\ CreateBatch(pending)
    /\ UNCHANGED <<now, drawn, challenges, signed, batching, ghosts>>

\* The interval of startBatchTimer.
BatchTimer ==
    /\ up /\ batching /\ pending # <<>>
    /\ CreateBatch(pending)
    /\ UNCHANGED <<now, drawn, challenges, signed, batching, ghosts>>

-----------------------------------------------------------------------------
(* The routes. *)

CountUse(v) ==
    uses' = (IF signed[v].challenge = None THEN uses
             ELSE [uses EXCEPT ![signed[v].challenge] = @ + 1])

\* The presentation is accepted whatever becomes of its addition: addVP may throw
\* at its insert or, the row being there, as it counts, and the route logs it; or
\* there is no batch service.
Queue(v) ==
    \/ /\ batching
       /\ AddVP(v) \/ (pending' = WithPending(v) /\ UNCHANGED <<batches, mapping, up>>)
       /\ queued' = queued \cup {v}
    \/ UNCHANGED <<pending, batches, mapping, up, queued>>

\* POST verify-vp.
VerifyVP(v) ==
    /\ up /\ signed[v] # None
    /\ CheckChallenge(v) /\ CountUse(v)
    /\ Queue(v)
    /\ UNCHANGED <<now, drawn, signed, batching>>

\* POST verify-vp/quick, for the gateway: nothing is batched.
VerifyVPQuick(v) ==
    /\ up /\ signed[v] # None
    /\ CheckChallenge(v) /\ CountUse(v)
    /\ UNCHANGED <<now, drawn, signed, pending, batches, mapping, up, batching, queued>>

\* Either route, when a credential in it does not verify: its challenge is gone.
Refuse(v) ==
    /\ up /\ signed[v] # None
    /\ CheckChallenge(v)
    /\ UNCHANGED <<now, drawn, signed, pending, batches, mapping, up, batching, ghosts>>

Tick ==
    /\ now < MaxTime /\ now' = now + 1
    /\ UNCHANGED <<drawn, db, signed, up, batching, ghosts>>

\* After a crash, or a stop from outside.
Restart ==
    /\ up' = TRUE /\ batching' \in BOOLEAN
    /\ challenges' = Cleaned
    /\ UNCHANGED <<now, drawn, signed, pending, batches, mapping, ghosts>>

Init ==
    /\ now = 0 /\ drawn = {}
    /\ up = TRUE /\ batching \in BOOLEAN
    /\ challenges = [c \in Challenges |-> None]
    /\ signed = [v \in VPs |-> None]
    /\ pending = <<>> /\ batches = <<>>
    /\ mapping = [v \in VPs |-> None]
    /\ uses = [c \in Challenges |-> 0] /\ queued = {}

Next ==
    \/ \E h \in Holders : GenerateChallenge(h) \/ \E v \in VPs : Sign(v, h)
    \/ \E v \in VPs : VerifyVP(v) \/ VerifyVPQuick(v) \/ Refuse(v)
    \/ CleanupExpired \/ BatchTimer
    \/ Tick \/ Restart

Spec == Init /\ [][Next]_vars

BatchMade == BatchTimer /\ up'

\* setInterval fires while the process runs, SQLite does not fail for ever, and the
\* container is started again (restart: unless-stopped).
Fair == WF_vars(BatchTimer) /\ SF_vars(BatchMade) /\ WF_vars(~ up /\ Restart)
FairSpec == Spec /\ Fair

-----------------------------------------------------------------------------
(* Merkle trees.  Hashing is free: two trees are equal if built alike. *)

Hash(left, right) == <<left, right>>

\* One level up; the last node of an odd level is hashed with itself.
NextLevel(nodes) ==
    [i \in 1 .. (Len(nodes) + 1) \div 2 |->
        Hash(nodes[2 * i - 1], nodes[IF 2 * i =< Len(nodes) THEN 2 * i ELSE 2 * i - 1])]

\* The levels of buildMerkleTree, the leaves at 0, and copies of the last.
Levels(leaves) ==
    LET level[k \in 0 .. Len(leaves)] ==
            IF k = 0 THEN leaves
            ELSE IF Len(level[k - 1]) = 1 THEN level[k - 1]
            ELSE NextLevel(level[k - 1])
    IN  level

Depth(leaves) == Cardinality({k \in 0 .. Len(leaves) : Len(Levels(leaves)[k]) > 1})
Root(leaves) == Levels(leaves)[Depth(leaves)][1]

\* k levels up, the index halved k times.
Ancestor(index, k) ==
    LET half[n \in 0 .. k] == IF n = 0 THEN index ELSE half[n - 1] \div 2
    IN  half[k]

\* Fault: the right neighbour, whatever the side.
RightNeighbour(index, k) == Ancestor(index, k) + 1

Sibling(index, k) ==
    LET i == Ancestor(index, k) IN IF i % 2 = 1 THEN i - 1 ELSE i + 1

HasSibling(leaves, index, k) == Sibling(index, k) < Len(Levels(leaves)[k])

\* generateProof: the siblings on the way to the root, those there are.
GenerateProof(leaves, index) ==
    LET proof[k \in 0 .. Depth(leaves)] ==
            IF k = 0 THEN <<>>
            ELSE IF HasSibling(leaves, index, k - 1)
            THEN Append(proof[k - 1], Levels(leaves)[k - 1][Sibling(index, k - 1) + 1])
            ELSE proof[k - 1]
    IN  proof[Depth(leaves)]

\* LibAttestationBatch.computeMerkleRoot, with the service's hash in place of
\* keccak256: bit n of the index tells the side of the n-th element.
ComputeMerkleRoot(leaf, proof, index) ==
    LET hash[n \in 0 .. Len(proof)] ==
            IF n = 0 THEN leaf
            ELSE IF Ancestor(index, n - 1) % 2 = 0
            THEN Hash(hash[n - 1], proof[n])
            ELSE Hash(proof[n], hash[n - 1])
    IN  hash[Len(proof)]

-----------------------------------------------------------------------------
(* What the verifier promises. *)

\* Anti-replay: a challenge gets at most one presentation accepted, by either
\* route, whatever is cleaned up, refused or restarted in between.
AcceptedOnce == \A c \in Challenges : uses[c] =< 1

\* What got a row in pending_vps is pending or in a batch, also when addVP threw
\* after that or a createBatch failed.  (What verify-vp accepts need not get one.)
QueuedIsKept ==
    \A v \in queued : v \in Elements(pending) \/ mapping[v] # None

\* vp_batch_mapping and the leaves of the trees say the same.
MappingIsTree ==
    \A v \in VPs : \A b \in DOMAIN batches : \A i \in DOMAIN batches[b] :
        batches[b][i] = v <=> mapping[v] = [batch |-> b, leaf |-> i - 1]

\* getMerkleProof of a batched presentation leads to the root of its batch in
\* the order computeMerkleRoot hashes in, exactly when no node on its way was
\* hashed with itself: such a node is in no proof.
ProofsVerify ==
    \A v \in VPs : mapping[v] # None =>
        LET leaves == batches[mapping[v].batch]
            index == mapping[v].leaf
        IN  ComputeMerkleRoot(v, GenerateProof(leaves, index), index) = Root(leaves)
              <=> \A k \in 0 .. Depth(leaves) - 1 : HasSibling(leaves, index, k)

Blocked == \E v \in Elements(pending) : mapping[v] # None

\* Nothing but a presentation already batched keeps the pending ones from
\* being batched, where there is a batch service.
BatchedUnlessBlocked ==
    \A v \in VPs : v \in Elements(pending) ~> mapping[v] # None \/ Blocked \/ ~ batching

\* Every pending presentation gets into a batch, where there is a batch service.
EveryVPIsBatched ==
    \A v \in VPs : v \in Elements(pending) ~> mapping[v] # None \/ ~ batching

=============================================================================
