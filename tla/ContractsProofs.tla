-------------------------- MODULE ContractsProofs --------------------------
(***************************************************************************)
(* Proofs about the facets and their deployment, each alone and side by    *)
(* side as MCContracts runs them.                                          *)
(*                                                                         *)
(* CredentialStatus, for every set of hashes and accounts: LogTellsStatus  *)
(* is not inductive, it has to know that nobody but the issuer appears in  *)
(* the log, that the log's times lie in the past, and that a hash which    *)
(* was never issued has the empty record.  The batch is the loop of the    *)
(* library by induction on its turns.                                      *)
(*                                                                         *)
(* TrustedIssuers, for every set of addresses, and any length of list and  *)
(* log.  LogAlternates rests on LogTellsTrust: add and remove look at the  *)
(* mapping, and the mapping is the log's last word.  The pages are the     *)
(* list by induction on how many are read.                                 *)
(*                                                                         *)
(* Deployment, for any services, addresses and number of restarts: the     *)
(* deployer publishes a diamond after its last transaction; one under      *)
(* which the chain was emptied finds no diamond to change, and what it     *)
(* publishes is no address of the new chain.                               *)
(***************************************************************************)
EXTENDS MCContracts, SequenceTheorems, WellFoundedInduction, TLAPS

-----------------------------------------------------------------------------
(* The statuses of credentials. *)

\* A record is empty until issued; a revoked one was issued.
RecordsInv ==
    \A h \in Hashes :
        IF statuses[h].issuedAt = 0
        THEN statuses[h] = NoStatus
        ELSE statuses[h].issuer \in Accounts

\* Every event was emitted by the issuer of its hash, in the past.
LogInv ==
    \A k \in 1 .. Len(log) :
        /\ statuses[log[k].hash].issuedAt # 0
        /\ log[k].by = statuses[log[k].hash].issuer
        /\ log[k].at <= timestamp

StatusInv == TypeOK /\ RecordsInv /\ LogInv /\ LogInOrder /\ LogTellsStatus

LEMMA LogDomain == ASSUME TypeOK PROVE DOMAIN log = 1 .. Len(log)
  BY DEF TypeOK

\* The log a transaction with one event leaves behind.
LEMMA EmitGrows ==
    ASSUME TypeOK, NEW event \in {"Issued", "Revoked", "Suspended", "Unsuspended"},
           NEW h \in Hashes, NEW by \in Accounts, Emit(event, h, by)
    PROVE  /\ log' \in Seq(Event)
           /\ Len(log') = Len(log) + 1
           /\ DOMAIN log' = 1 .. Len(log) + 1
           /\ \A k \in 1 .. Len(log) : log'[k] = log[k]
           /\ log'[Len(log) + 1] = EventOf(event, h, by)
  <1>1. EventOf(event, h, by) \in Event
    BY DEF EventOf, Event, TypeOK
  <1> QED
    BY <1>1 DEF Emit, TypeOK

\* The log a batch leaves behind.
LEMMA BatchGrows ==
    ASSUME TypeOK, NEW hs \in Batches, NEW by \in Accounts,
           BatchRevokeCredential(hs, by)
    PROVE  /\ hs \in Seq(Hashes)
           /\ log' \in Seq(Event)
           /\ Len(log') = Len(log) + Len(hs)
           /\ DOMAIN log' = 1 .. Len(log) + Len(hs)
           /\ \A k \in 1 .. Len(log) : log'[k] = log[k]
           /\ \A k \in 1 .. Len(hs) :
                 log'[Len(log) + k] = EventOf("Revoked", hs[k], by)
  <1>1. hs \in Seq(Hashes)
    BY BoundsAssumption DEF Batches
  <1> DEFINE new == [k \in DOMAIN hs |-> EventOf("Revoked", hs[k], by)]
  <1>2. \A k \in 1 .. Len(hs) : EventOf("Revoked", hs[k], by) \in Event
    BY <1>1 DEF EventOf, Event, TypeOK
  <1>3. new \in Seq(Event) /\ Len(new) = Len(hs)
    BY <1>1, <1>2
  <1>4. \A k \in 1 .. Len(hs) : new[k] = EventOf("Revoked", hs[k], by)
    BY <1>1
  <1>5. log' = log \o new
    BY DEF BatchRevokeCredential
  <1> HIDE DEF new
  <1>6. log \in Seq(Event)
    BY DEF TypeOK
  <1>7. /\ log' \in Seq(Event) /\ Len(log') = Len(log) + Len(hs)
        /\ \A k \in 1 .. Len(log) + Len(hs) :
              log'[k] = IF k <= Len(log) THEN log[k] ELSE new[k - Len(log)]
    <2>1. /\ log \o new \in Seq(Event)
          /\ Len(log \o new) = Len(log) + Len(new)
          /\ \A k \in 1 .. Len(log) + Len(new) :
                (log \o new)[k] = IF k <= Len(log) THEN log[k] ELSE new[k - Len(log)]
      BY <1>3, <1>6, ConcatProperties
    <2> QED
      BY <1>3, <1>5, <2>1
  <1>8. Len(log) \in Nat /\ Len(hs) \in Nat
    BY <1>1, <1>6
  <1>9. \A k \in 1 .. Len(log) : log'[k] = log[k]
    BY <1>7, <1>8
  <1>10. \A k \in 1 .. Len(hs) : log'[Len(log) + k] = new[k]
    BY <1>7, <1>8
  <1> QED
    BY <1>1, <1>4, <1>7, <1>9, <1>10

LEMMA StatusInitial == Init => StatusInv
  BY BoundsAssumption DEF Init, StatusInv, TypeOK, RecordsInv, LogInv, LogInOrder,
     LogTellsStatus, LogTells, LastToggleSuspends, NoStatus, Status, Event

-----------------------------------------------------------------------------
LEMMA IssueStep ==
    ASSUME StatusInv, NEW h \in Hashes, NEW by \in Accounts, IssueCredential(h, by)
    PROVE  StatusInv'
  <1> DEFINE n == Len(log) + 1
  <1> USE DEF StatusInv
  <1>0. n \in Nat /\ timestamp \in Nat \ {0} /\ statuses \in [Hashes -> Status]
    BY DEF TypeOK
  <1>1. /\ log' \in Seq(Event) /\ Len(log') = n /\ DOMAIN log' = 1 .. n
        /\ \A k \in 1 .. Len(log) : log'[k] = log[k]
        /\ log'[n] = EventOf("Issued", h, by)
    BY EmitGrows DEF IssueCredential
  <1>2. /\ statuses'[h] = [issuer |-> by, issuedAt |-> timestamp,
                           revokedAt |-> 0, suspended |-> FALSE]
        /\ \A g \in Hashes \ {h} : statuses'[g] = statuses[g]
        /\ statuses[h].issuedAt = 0 /\ timestamp' = timestamp
    BY <1>0 DEF IssueCredential
  <1>a. statuses[h] = NoStatus
    BY <1>2 DEF RecordsInv
  <1>b. \A k \in 1 .. Len(log) : log[k].hash \in Hashes \ {h}
    <2> TAKE k \in 1 .. Len(log)
    <2>1. log[k] \in Event
      BY DEF TypeOK
    <2> QED
      BY <1>2, <2>1 DEF LogInv, Event
  <1>3. TypeOK'
    BY <1>1, <1>2 DEF IssueCredential, TypeOK, Status
  <1>4. RecordsInv'
    BY <1>0, <1>2 DEF RecordsInv
  <1> HIDE DEF n
  <1>5. LogInv'
    BY <1>0, <1>1, <1>2, <1>b DEF LogInv, EventOf, n
  <1>6. LogInOrder'
    BY <1>0, <1>1, <1>2, <1>b, LogDomain DEF LogInOrder, LogInv, EventOf, n
  <1>7. LogTellsStatus'
    <2> SUFFICES ASSUME NEW g \in Hashes PROVE LogTells(g)'
      BY DEF LogTellsStatus
    <2>1. CASE g = h
      <3>1. statuses'[h].issuedAt # 0 /\ Logged("Issued", h, statuses[h].issuedAt)'
        BY <1>0, <1>1, <1>2 DEF Logged, EventOf, n
      <3>2. \A k \in DOMAIN log' : log'[k].hash = h => log'[k].event = "Issued"
        BY <1>0, <1>1, <1>b DEF EventOf, n
      <3> QED
        BY <1>2, <2>1, <3>1, <3>2 DEF LogTells, LastToggleSuspends
    <2>2. CASE g # h
      <3>1. LogTells(g) /\ statuses'[g] = statuses[g]
        BY <1>2, <2>2 DEF LogTellsStatus
      <3>2. log'[n].hash # g
        BY <1>1, <2>2 DEF EventOf
      <3>3. LastToggleSuspends(g)' <=> LastToggleSuspends(g)
        BY <1>0, <1>1, <3>2, LogDomain DEF LastToggleSuspends, n
      <3>4. \A event, at : Logged(event, g, at) => Logged(event, g, at)'
        BY <1>0, <1>1, <3>1, LogDomain DEF Logged, n
      <3> QED
        BY <1>0, <1>1, <3>1, <3>2, <3>3, <3>4, LogDomain DEF LogTells, n
    <2> QED
      BY <2>1, <2>2
  <1> QED
    BY <1>3, <1>4, <1>5, <1>6, <1>7

\* Revocations, one or a batch: the hashes hs, all different, of the set H.
LEMMA RevokeStep ==
    ASSUME StatusInv, NEW by \in Accounts, NEW hs \in Seq(Hashes),
           \A k \in 1 .. Len(hs) : Changeable(hs[k], by),
           \A j, k \in 1 .. Len(hs) : hs[j] = hs[k] => j = k,
           statuses' = [h \in Hashes |->
               IF \E k \in 1 .. Len(hs) : hs[k] = h
               THEN [statuses[h] EXCEPT !.revokedAt = timestamp]
               ELSE statuses[h]],
           log' \in Seq(Event),
           Len(log') = Len(log) + Len(hs),
           \A k \in 1 .. Len(log) : log'[k] = log[k],
           \A k \in 1 .. Len(hs) :
               log'[Len(log) + k] = EventOf("Revoked", hs[k], by),
           timestamp' = timestamp
    PROVE  StatusInv'
  <1> USE DEF StatusInv
  <1> DEFINE n == Len(log)  m == Len(hs)
  <1>0. /\ n \in Nat /\ m \in Nat /\ timestamp \in Nat \ {0}
        /\ statuses \in [Hashes -> Status]
        /\ DOMAIN log = 1 .. n /\ DOMAIN log' = 1 .. n + m
    BY DEF TypeOK
  <1>1. \A k \in 1 .. n : log[k] \in Event
    BY DEF TypeOK
  <1>2. \A k \in 1 .. n + m : k \in 1 .. n \/ \E j \in 1 .. m : k = n + j
    <2> TAKE k \in 1 .. n + m
    <2> CASE k > n
      <3>1. k - n \in 1 .. m /\ k = n + (k - n)
        BY <1>0
      <3> QED
        BY <3>1
    <2> CASE k <= n
      BY <1>0
    <2> QED
      BY <1>0
  <1>3. \A h \in Hashes :
          /\ statuses'[h].issuer = statuses[h].issuer
          /\ statuses'[h].issuedAt = statuses[h].issuedAt
          /\ statuses'[h].suspended = statuses[h].suspended
          /\ statuses'[h] \in Status
    BY <1>0 DEF Status
  <1>4. \A k \in 1 .. m : /\ hs[k] \in Hashes
                          /\ statuses[hs[k]].issuedAt # 0
                          /\ statuses[hs[k]].revokedAt = 0
                          /\ statuses[hs[k]].issuer = by
    BY DEF Changeable
  <1>5. \A h \in Hashes :
          (\A k \in 1 .. m : hs[k] # h) => statuses'[h] = statuses[h]
    BY <1>0
  <1>6. \A k \in 1 .. m : statuses'[hs[k]].revokedAt = timestamp
    BY <1>0, <1>4 DEF Status
  <1> HIDE DEF n, m
  <1>7. \A k \in 1 .. m : log'[n + k] = [event |-> "Revoked", hash |-> hs[k],
                                        by |-> by, at |-> timestamp]
    BY DEF EventOf, n, m
  <1>8. \A k \in 1 .. n : log'[k] = log[k]
    BY DEF n
  <1>new. ASSUME NEW k \in 1 .. n + m, k \notin 1 .. n
          PROVE  \E p \in 1 .. m :
                    /\ k = n + p
                    /\ log'[k].event = "Revoked" /\ log'[k].hash = hs[p]
                    /\ log'[k].by = by /\ log'[k].at = timestamp
    <2> PICK p \in 1 .. m : k = n + p
      BY <1>2, <1>new
    <2>1. log'[n + p] = [event |-> "Revoked", hash |-> hs[p],
                         by |-> by, at |-> timestamp]
      BY <1>7
    <2>2. log'[k] = log'[n + p]
      OBVIOUS
    <2> QED
      BY <2>1, <2>2
  <1>9. \A k \in 1 .. n : log[k].event = "Revoked" =>
          \A j \in 1 .. m : hs[j] # log[k].hash
    BY <1>0, <1>1, <1>4 DEF LogTellsStatus, LogTells, Event
  <1>10. TypeOK'
    BY <1>3 DEF TypeOK
  <1>11. RecordsInv'
    BY <1>3, <1>4, <1>5 DEF RecordsInv
  <1>12. LogInv'
    <2> SUFFICES ASSUME NEW k \in 1 .. n + m
                 PROVE  /\ statuses'[log'[k].hash].issuedAt # 0
                        /\ log'[k].by = statuses'[log'[k].hash].issuer
                        /\ log'[k].at <= timestamp'
      BY DEF LogInv, n, m
    <2>1. CASE k \in 1 .. n
      BY <1>1, <1>3, <1>8, <2>1 DEF LogInv, Event, n
    <2>2. CASE k \notin 1 .. n
      BY <1>0, <1>3, <1>4, <1>new, <2>2
    <2> QED
      BY <2>1, <2>2
  <1>13. LogInOrder'
    <2> SUFFICES ASSUME NEW j \in 1 .. n + m, NEW k \in 1 .. n + m,
                        j < k, log'[j].hash = log'[k].hash
                 PROVE  /\ log'[k].event # "Issued"
                        /\ log'[j].event # "Revoked"
                        /\ log'[j].by = log'[k].by
                        /\ log'[j].at <= log'[k].at
      BY <1>0 DEF LogInOrder
    <2>1. CASE k \in 1 .. n
      <3>1. j \in 1 .. n
        BY <1>0, <2>1
      <3> QED
        BY <1>0, <1>8, <2>1, <3>1 DEF LogInOrder
    <2>2. CASE j \in 1 .. n /\ k \notin 1 .. n
      <3> PICK p \in 1 .. m : /\ log'[k].event = "Revoked" /\ log'[k].hash = hs[p]
                              /\ log'[k].by = by /\ log'[k].at = timestamp
        BY <1>new, <2>2
      <3>1. log[j].hash = hs[p] /\ log'[j] = log[j]
        BY <1>8, <2>2
      <3>2. log[j].by = by /\ log[j].at <= timestamp
        BY <1>4, <2>2, <3>1 DEF LogInv, n
      <3>3. log[j].event # "Revoked"
        BY <1>9, <2>2, <3>1
      <3> QED
        BY <3>1, <3>2, <3>3
    <2>3. CASE j \notin 1 .. n /\ k \notin 1 .. n
      <3> PICK p \in 1 .. m : j = n + p /\ log'[j].hash = hs[p]
        BY <1>new, <2>3
      <3> PICK q \in 1 .. m : k = n + q /\ log'[k].hash = hs[q]
        BY <1>new, <2>3
      <3>1. p = q
        BY DEF m
      <3> QED
        BY <1>0, <3>1
    <2>4. k \in 1 .. n => j \in 1 .. n
      BY <1>0
    <2> QED
      BY <2>1, <2>2, <2>3, <2>4
  <1>14. LogTellsStatus'
    <2> SUFFICES ASSUME NEW g \in Hashes PROVE LogTells(g)'
      BY DEF LogTellsStatus
    <2>1. LogTells(g) /\ n \in Nat
      BY <1>0 DEF LogTellsStatus
    <2>2. \A event, at : Logged(event, g, at) => Logged(event, g, at)'
      <3> TAKE event, at
      <3> HAVE Logged(event, g, at)
      <3> PICK k \in 1 .. n : /\ log[k].event = event /\ log[k].hash = g
                              /\ log[k].at = at /\ log[k].by = statuses[g].issuer
        BY <1>0 DEF Logged
      <3>1. k \in 1 .. n + m
        BY <1>0
      <3> QED
        BY <1>0, <1>3, <1>8, <3>1 DEF Logged
    <2>3. LastToggleSuspends(g)' <=> LastToggleSuspends(g)
      <3>1. \A k \in 1 .. n + m : k \notin 1 .. n => log'[k].event = "Revoked"
        BY <1>new
      <3>2. 1 .. n \subseteq 1 .. n + m
        BY <1>0
      <3> QED
        BY <1>0, <1>8, <3>1, <3>2 DEF LastToggleSuspends
    <2>4. CASE \E p \in 1 .. m : hs[p] = g
      <3> PICK p \in 1 .. m : hs[p] = g
        BY <2>4
      <3>1. n + p \in 1 .. n + m /\ n + p \in DOMAIN log'
        BY <1>0
      <3>a. log'[n + p] = [event |-> "Revoked", hash |-> g, by |-> by, at |-> timestamp]
        BY <1>7
      <3>b. statuses'[g].issuer = by
        BY <1>3, <1>4
      <3>2. Logged("Revoked", g, timestamp)'
        BY <3>1, <3>a, <3>b DEF Logged
      <3> QED
        BY <1>0, <1>3, <1>4, <1>6, <2>1, <2>2, <2>3, <3>2 DEF LogTells
    <2>5. CASE \A p \in 1 .. m : hs[p] # g
      <3>1. statuses'[g] = statuses[g]
        BY <1>5, <2>5
      <3>2. \A k \in 1 .. n + m : (k \in 1 .. n /\ log'[k] = log[k]) \/ log'[k].hash # g
        BY <1>new, <1>8, <2>5
      <3> QED
        BY <1>0, <2>1, <2>2, <2>3, <3>1, <3>2 DEF LogTells
    <2> QED
      BY <2>4, <2>5
  <1> QED
    BY <1>10, <1>11, <1>12, <1>13, <1>14

LEMMA SingleRevokeStep ==
    ASSUME StatusInv, NEW h \in Hashes, NEW by \in Accounts, RevokeCredential(h, by)
    PROVE  StatusInv'
  <1> DEFINE hs == <<h>>
  <1>1. hs \in Seq(Hashes) /\ Len(hs) = 1 /\ hs[1] = h /\ 1 .. Len(hs) = {1}
    OBVIOUS
  <1> HIDE DEF hs
  <1>2. /\ log' \in Seq(Event) /\ Len(log') = Len(log) + 1
        /\ \A k \in 1 .. Len(log) : log'[k] = log[k]
        /\ log'[Len(log) + 1] = EventOf("Revoked", h, by)
    BY EmitGrows DEF RevokeCredential, StatusInv
  <1>3. statuses' = [g \in Hashes |-> IF \E k \in 1 .. Len(hs) : hs[k] = g
                                     THEN [statuses[g] EXCEPT !.revokedAt = timestamp]
                                     ELSE statuses[g]]
    BY <1>1 DEF RevokeCredential, StatusInv, TypeOK
  <1>4. Changeable(h, by) /\ timestamp' = timestamp
    BY DEF RevokeCredential
  <1> QED
    BY <1>1, <1>2, <1>3, <1>4, RevokeStep

LEMMA BatchStep ==
    ASSUME StatusInv, NEW hs \in Batches, NEW by \in Accounts,
           BatchRevokeCredential(hs, by)
    PROVE  StatusInv'
  <1>1. /\ hs \in Seq(Hashes) /\ log' \in Seq(Event)
        /\ Len(log') = Len(log) + Len(hs)
        /\ \A k \in 1 .. Len(log) : log'[k] = log[k]
        /\ \A k \in 1 .. Len(hs) :
              log'[Len(log) + k] = EventOf("Revoked", hs[k], by)
    BY BatchGrows DEF StatusInv
  <1>2. DOMAIN hs = 1 .. Len(hs)
    BY <1>1
  <1>3. /\ \A k \in 1 .. Len(hs) : Changeable(hs[k], by)
        /\ \A j, k \in 1 .. Len(hs) : hs[j] = hs[k] => j = k
        /\ timestamp' = timestamp
    BY <1>2 DEF BatchRevokeCredential, BatchRevocable
  <1>4. statuses' = [h \in Hashes |-> IF \E k \in 1 .. Len(hs) : hs[k] = h
                                     THEN [statuses[h] EXCEPT !.revokedAt = timestamp]
                                     ELSE statuses[h]]
    BY <1>2 DEF BatchRevokeCredential, BatchRevoked
  <1> QED
    BY <1>1, <1>3, <1>4, RevokeStep

LEMMA UpdateStep ==
    ASSUME StatusInv, NEW h \in Hashes, NEW suspended \in BOOLEAN,
           NEW by \in Accounts, UpdateCredentialStatus(h, suspended, by)
    PROVE  StatusInv'
  <1> DEFINE n == Len(log) + 1
             event == IF suspended THEN "Suspended" ELSE "Unsuspended"
  <1> USE DEF StatusInv
  <1>0. /\ n \in Nat \ {0} /\ timestamp \in Nat \ {0} /\ timestamp' = timestamp
        /\ statuses \in [Hashes -> Status] /\ DOMAIN log = 1 .. Len(log)
    BY DEF TypeOK, UpdateCredentialStatus
  <1>1. /\ log' \in Seq(Event) /\ Len(log') = n /\ DOMAIN log' = 1 .. n
        /\ \A k \in 1 .. Len(log) : log'[k] = log[k]
        /\ log'[n] = EventOf(event, h, by)
    BY EmitGrows DEF UpdateCredentialStatus
  <1>2. \A g \in Hashes : /\ statuses'[g].issuer = statuses[g].issuer
                          /\ statuses'[g].issuedAt = statuses[g].issuedAt
                          /\ statuses'[g].revokedAt = statuses[g].revokedAt
                          /\ g # h => statuses'[g] = statuses[g]
    BY <1>0 DEF UpdateCredentialStatus, Status
  <1>3. statuses'[h].suspended = suspended
    BY <1>0 DEF UpdateCredentialStatus, Status
  <1>4. /\ statuses[h].issuedAt # 0 /\ statuses[h].revokedAt = 0
        /\ statuses[h].issuer = by
    BY DEF UpdateCredentialStatus, Changeable
  <1>5. /\ log'[n].hash = h /\ log'[n].by = by /\ log'[n].at = timestamp
        /\ log'[n].event = IF suspended THEN "Suspended" ELSE "Unsuspended"
    BY <1>1 DEF EventOf
  <1>6. \A k \in 1 .. n : k = n \/ k \in 1 .. Len(log)
    BY <1>0
  <1>7. \A k \in 1 .. Len(log) : k \in 1 .. n /\ log[k] \in Event /\ k < n
    BY <1>0 DEF TypeOK
  <1> HIDE DEF n, event
  <1>8. \A k \in 1 .. Len(log) : log[k].hash = h => log[k].event # "Revoked"
    BY <1>0, <1>4 DEF LogTellsStatus, LogTells
  <1>9. TypeOK'
    BY <1>0, <1>1 DEF UpdateCredentialStatus, TypeOK, Status
  <1>10. RecordsInv'
    BY <1>2, <1>4 DEF RecordsInv
  <1>11. LogInv'
    BY <1>0, <1>1, <1>2, <1>4, <1>5, <1>6, <1>7 DEF LogInv, Event
  <1>12. LogInOrder'
    <2> SUFFICES ASSUME NEW j \in 1 .. n, NEW k \in 1 .. n,
                        j < k, log'[j].hash = log'[k].hash
                 PROVE  /\ log'[k].event # "Issued"
                        /\ log'[j].event # "Revoked"
                        /\ log'[j].by = log'[k].by
                        /\ log'[j].at <= log'[k].at
      BY <1>1 DEF LogInOrder
    <2>1. j \in 1 .. Len(log)
      BY <1>0, <1>6
    <2>2. CASE k = n
      BY <1>1, <1>4, <1>5, <1>8, <2>1, <2>2 DEF LogInv
    <2>3. CASE k \in 1 .. Len(log)
      BY <1>0, <1>1, <2>1, <2>3 DEF LogInOrder
    <2> QED
      BY <1>6, <2>2, <2>3
  <1>13. LogTellsStatus'
    <2> SUFFICES ASSUME NEW g \in Hashes PROVE LogTells(g)'
      BY DEF LogTellsStatus
    <2>1. LogTells(g)
      BY DEF LogTellsStatus
    <2>2. \A e, at : Logged(e, g, at) => Logged(e, g, at)'
      BY <1>0, <1>1, <1>2, <1>7 DEF Logged
    <2>3. CASE g = h
      <3>1. LastToggleSuspends(h)' <=> suspended
        <4>1. n \in 1 .. n /\ \A k \in 1 .. n : ~(k > n)
          BY <1>0, <1>6, <1>7
        <4>2. CASE suspended
          BY <1>1, <1>5, <4>1, <4>2 DEF LastToggleSuspends
        <4>3. CASE ~suspended
          <5>1. \A k \in 1 .. n : log'[k].event = "Suspended" => n > k
            BY <1>0, <1>5, <1>6, <1>7, <4>3
          <5> QED
            BY <1>1, <1>5, <4>1, <4>3, <5>1 DEF LastToggleSuspends
        <4> QED
          BY <4>2, <4>3
      <3>2. \A k \in 1 .. n : log'[k].hash = h => log'[k].event # "Revoked"
        BY <1>1, <1>5, <1>6, <1>8
      <3> QED
        BY <1>1, <1>2, <1>3, <1>4, <2>1, <2>2, <2>3, <3>1, <3>2 DEF LogTells
    <2>4. CASE g # h
      <3>1. LastToggleSuspends(g)' <=> LastToggleSuspends(g)
        BY <1>0, <1>1, <1>5, <1>6, <1>7, <2>4 DEF LastToggleSuspends
      <3> QED
        BY <1>0, <1>1, <1>2, <1>5, <1>6, <2>1, <2>2, <2>4, <3>1 DEF LogTells
    <2> QED
      BY <2>3, <2>4
  <1> QED
    BY <1>9, <1>10, <1>11, <1>12, <1>13

LEMMA BlockStep == ASSUME StatusInv, NextBlock PROVE StatusInv'
  <1> USE DEF StatusInv, NextBlock
  <1>1. TypeOK' /\ RecordsInv'
    BY DEF TypeOK, RecordsInv
  <1>2. LogInv'
    <2>1. \A k \in 1 .. Len(log) : log[k] \in Event
      BY DEF TypeOK
    <2>2. \A k \in 1 .. Len(log) : log[k].at \in Nat /\ timestamp \in Nat
      BY <2>1 DEF Event, TypeOK
    <2> QED
      BY <2>2 DEF LogInv
  <1>3. LogInOrder'
    BY DEF LogInOrder
  <1>4. LogTellsStatus'
    BY DEF LogTellsStatus, LogTells, Logged, LastToggleSuspends
  <1> QED
    BY <1>1, <1>2, <1>3, <1>4

LEMMA StatusStep == StatusInv /\ [Next]_vars => StatusInv'
  <1> SUFFICES ASSUME StatusInv, [Next]_vars PROVE StatusInv'
    OBVIOUS
  <1>1. ASSUME NEW by \in Accounts, NEW h \in Hashes, IssueCredential(h, by)
        PROVE  StatusInv'
    BY <1>1, IssueStep
  <1>2. ASSUME NEW by \in Accounts, NEW h \in Hashes, RevokeCredential(h, by)
        PROVE  StatusInv'
    BY <1>2, SingleRevokeStep
  <1>3. ASSUME NEW by \in Accounts, NEW h \in Hashes, NEW suspended \in BOOLEAN,
               UpdateCredentialStatus(h, suspended, by)
        PROVE  StatusInv'
    BY <1>3, UpdateStep
  <1>4. ASSUME NEW by \in Accounts, NEW hs \in Batches, BatchRevokeCredential(hs, by)
        PROVE  StatusInv'
    BY <1>4, BatchStep
  <1>5. CASE NextBlock
    BY <1>5, BlockStep
  <1>6. CASE UNCHANGED vars
    BY <1>6 DEF vars, StatusInv, TypeOK, RecordsInv, LogInv, LogInOrder,
                LogTellsStatus, LogTells, Logged, LastToggleSuspends
  <1> QED
    BY <1>1, <1>2, <1>3, <1>4, <1>5, <1>6 DEF Next

\* The invariant holds in every reachable state of the facet.
THEOREM StatusInductive == Spec => []StatusInv
  BY StatusInitial, StatusStep, PTL DEF Spec

\* The storage record and the log of the facet are well-formed.
THEOREM StatusesAreTyped == Spec => []TypeOK
  BY StatusInductive, PTL DEF StatusInv

\* The events of a credential come in order, whatever the number of
\* credentials, accounts and hashes in a batch.
THEOREM EventsInOrder == Spec => []LogInOrder
  BY StatusInductive, PTL DEF StatusInv

\* The events a credential has emitted tell its storage record.
THEOREM EventsTellStatus == Spec => []LogTellsStatus
  BY StatusInductive, PTL DEF StatusInv

-----------------------------------------------------------------------------
\* No transaction changes the record of a revoked credential.
THEOREM RevocationIsPermanent == Spec => RevokedIsFrozen
  <1>1. StatusInv /\ [Next]_vars =>
          [\A h \in Hashes : statuses[h].revokedAt # 0 => statuses'[h] = statuses[h]]_vars
    <2> SUFFICES ASSUME StatusInv, Next, NEW h \in Hashes, statuses[h].revokedAt # 0
                 PROVE  statuses'[h] = statuses[h]
      BY DEF vars
    <2>0. statuses \in [Hashes -> Status] /\ statuses[h].issuedAt # 0
      BY DEF StatusInv, TypeOK, RecordsInv, NoStatus
    <2>1. ASSUME NEW g \in Hashes, NEW by \in Accounts, IssueCredential(g, by)
          PROVE  statuses'[h] = statuses[h]
      BY <2>0, <2>1 DEF IssueCredential
    <2>2. ASSUME NEW g \in Hashes, NEW by \in Accounts, RevokeCredential(g, by)
          PROVE  statuses'[h] = statuses[h]
      BY <2>0, <2>2 DEF RevokeCredential, Changeable
    <2>3. ASSUME NEW g \in Hashes, NEW suspended \in BOOLEAN, NEW by \in Accounts,
                 UpdateCredentialStatus(g, suspended, by)
          PROVE  statuses'[h] = statuses[h]
      BY <2>0, <2>3 DEF UpdateCredentialStatus, Changeable
    <2>4. ASSUME NEW hs \in Batches, NEW by \in Accounts, BatchRevokeCredential(hs, by)
          PROVE  statuses'[h] = statuses[h]
      BY <2>0, <2>4 DEF BatchRevokeCredential, BatchRevocable, BatchRevoked, Changeable
    <2>5. CASE NextBlock
      BY <2>5 DEF NextBlock
    <2> QED
      BY <2>1, <2>2, <2>3, <2>4, <2>5 DEF Next
  <1> QED
    BY <1>1, StatusInductive, PTL DEF Spec, RevokedIsFrozen

-----------------------------------------------------------------------------
\* A transaction on the storage records is a transition of the lifecycle.
LEMMA LifecycleStep == StatusInv /\ [Next]_vars => [Lifecycle!Next]_(Lifecycle!vars)
  <1> DEFINE life == [h \in Hashes |-> LifeOf(h)]
             controller == [h \in Hashes |-> statuses[h].issuer]
  <1> SUFFICES ASSUME StatusInv, [Next]_vars PROVE Lifecycle!Next \/ UNCHANGED <<life, controller>>
    BY DEF Lifecycle!vars
  <1>0. statuses \in [Hashes -> Status] /\ timestamp \in Nat \ {0}
    BY DEF StatusInv, TypeOK
  <1>1. ASSUME NEW by \in Accounts, NEW h \in Hashes, IssueCredential(h, by)
        PROVE  Lifecycle!Register(h, by)
    BY <1>0, <1>1 DEF IssueCredential, LifeOf, Lifecycle!Register
  <1>2. ASSUME NEW by \in Accounts, NEW h \in Hashes, RevokeCredential(h, by)
        PROVE  Lifecycle!RevokeAll({h}, by)
    BY <1>0, <1>2 DEF RevokeCredential, Changeable, LifeOf, Lifecycle!RevokeAll, Status
  <1>3. ASSUME NEW by \in Accounts, NEW h \in Hashes, NEW suspended \in BOOLEAN,
               UpdateCredentialStatus(h, suspended, by)
        PROVE  \/ Lifecycle!Move(h, by, "active", "suspended")
               \/ Lifecycle!Move(h, by, "suspended", "active")
    <2>1. CASE suspended
      BY <1>0, <1>3, <2>1 DEF UpdateCredentialStatus, Changeable, LifeOf,
         Lifecycle!Move, Status
    <2>2. CASE ~suspended
      BY <1>0, <1>3, <2>2 DEF UpdateCredentialStatus, Changeable, LifeOf,
         Lifecycle!Move, Status
    <2> QED
      BY <2>1, <2>2
  <1>4. ASSUME NEW by \in Accounts, NEW hs \in Batches, BatchRevokeCredential(hs, by)
        PROVE  Lifecycle!Next
    <2> DEFINE H == {h \in Hashes : \E k \in DOMAIN hs : hs[k] = h}
    <2>1. Lifecycle!RevokeAll(H, by)
      BY <1>0, <1>4 DEF BatchRevokeCredential, BatchRevocable, BatchRevoked,
         Changeable, LifeOf, Lifecycle!RevokeAll, Status
    <2>2. H \in SUBSET Hashes
      OBVIOUS
    <2> QED
      BY <2>1, <2>2 DEF Lifecycle!Next
  <1>5. CASE NextBlock
    BY <1>5 DEF NextBlock, LifeOf
  <1>6. CASE UNCHANGED vars
    BY <1>6 DEF vars, LifeOf
  <1> QED
    BY <1>1, <1>2, <1>3, <1>4, <1>5, <1>6 DEF Next, Lifecycle!Next

\* The facet implements the lifecycle of a credential, for every number of
\* credentials and accounts.
THEOREM ImplementsLifecycle == Spec => FollowsLifecycle
  <1>1. Init => Lifecycle!Init
    BY DEF Init, Lifecycle!Init, LifeOf, NoStatus
  <1> QED
    BY <1>1, LifecycleStep, StatusInductive, PTL
    DEF Spec, FollowsLifecycle, Lifecycle!Spec

-----------------------------------------------------------------------------
(* The batch as a loop.                                                    *)

\* Every set of numbers has a least one: induction, for the formulas below.
LEMMA LeastNat ==
    ASSUME NEW T \in SUBSET Nat, T # {}
    PROVE  \E n \in T : \A m \in T : n =< m
  <1> DEFINE R == OpToRel(<, Nat)
  <1>1. IsWellFoundedOn(R, Nat)
    BY NatLessThanWellFounded
  <1>2. \A x, y \in Nat : y < x => <<y, x>> \in R
    BY DEF R, OpToRel
  <1> HIDE DEF R
  <1>3. PICK x \in T : \A y \in T : ~(<<y, x>> \in R)
    BY <1>1, WFMin
  <1>4. ASSUME NEW y \in T PROVE x =< y
    <2>1. x \in Nat /\ y \in Nat /\ ~(y < x)
      BY <1>2, <1>3
    <2> QED
      BY <2>1
  <1> QED
    BY <1>4

\* What holds at 0, and at n + 1 if at n, holds up to N: Good is where it holds.
LEMMA UpTo ==
    ASSUME NEW N \in Nat, NEW Good, 0 \in Good,
           \A n \in 0 .. N - 1 : n \in Good => n + 1 \in Good
    PROVE  \A n \in 0 .. N : n \in Good
  <1> DEFINE Bad == {n \in 0 .. N : n \notin Good}
  <1> SUFFICES ASSUME Bad # {} PROVE FALSE
    OBVIOUS
  <1>1. PICK n \in Bad : \A m \in Bad : n =< m
    <2>1. Bad \in SUBSET Nat
      OBVIOUS
    <2> HIDE DEF Bad
    <2> QED
      BY <2>1, LeastNat
  <1>2. n # 0 /\ n \in 0 .. N
    BY <1>1
  <1>3. n - 1 \in 0 .. N - 1 /\ n - 1 \notin Bad /\ (n - 1) + 1 = n
    BY <1>1, <1>2
  <1> QED
    BY <1>1, <1>3

\* The loop turn by turn.
Turns(hs, by) ==
    CHOOSE turn : turn = [k \in 0 .. Len(hs) |->
        IF k = 0 THEN [statuses |-> statuses, reverted |-> FALSE]
        ELSE RevokeTurn(turn[k - 1], hs[k], by)]

\* The loop goes on from turn to turn.
LEMMA TurnsAre ==
    ASSUME NEW hs, Len(hs) \in Nat, NEW by
    PROVE  /\ RevokeLoop(hs, by) = Turns(hs, by)[Len(hs)]
           /\ Turns(hs, by)[0] = [statuses |-> statuses, reverted |-> FALSE]
           /\ \A k \in 1 .. Len(hs) :
                 Turns(hs, by)[k] = RevokeTurn(Turns(hs, by)[k - 1], hs[k], by)
  <1> DEFINE start == [statuses |-> statuses, reverted |-> FALSE]
             Step(k, x) == RevokeTurn(x, hs[k], by)
             Is(f, n) == f = [k \in 0 .. n |-> IF k = 0 THEN start ELSE Step(k, f[k - 1])]
             Good == {n \in Nat : \E f : Is(f, n)}
  <1>1. RevokeLoop(hs, by) = Turns(hs, by)[Len(hs)]
    BY DEF RevokeLoop, Turns
  <1>2. Turns(hs, by) = CHOOSE f : Is(f, Len(hs))
    BY DEF Turns
  <1> HIDE DEF Step
  <1>3. 0 \in Good
    <2>1. Is([k \in 0 .. 0 |-> start], 0)
      OBVIOUS
    <2> QED
      BY <2>1
  <1>4. ASSUME NEW n \in Nat, n \in Good PROVE n + 1 \in Good
    <2>1. PICK g : Is(g, n)
      BY <1>4
    <2> DEFINE f == [k \in 0 .. n + 1 |-> IF k = n + 1 THEN Step(k, g[n]) ELSE g[k]]
    <2>2. ASSUME NEW k \in 0 .. n + 1
          PROVE  f[k] = IF k = 0 THEN start ELSE Step(k, f[k - 1])
      <3>1. CASE k = n + 1
        BY <3>1
      <3>2. CASE k # n + 1
        <4>1. k \in 0 .. n /\ (k # 0 => k - 1 \in 0 .. n + 1 /\ k - 1 # n + 1)
          BY <3>2
        <4>2. f[k] = g[k] /\ (k # 0 => f[k - 1] = g[k - 1])
          BY <3>2, <4>1
        <4>3. g[k] = IF k = 0 THEN start ELSE Step(k, g[k - 1])
          BY <2>1, <4>1
        <4> QED
          BY <4>2, <4>3
      <3> QED
        BY <3>1, <3>2
    <2>3. f = [k \in 0 .. n + 1 |-> f[k]]
      OBVIOUS
    <2> HIDE DEF f
    <2>4. Is(f, n + 1)
      BY <2>2, <2>3
    <2> QED
      BY <2>4
  <1> HIDE DEF Good
  <1>5. Len(hs) \in Good
    <2>1. \A n \in 0 .. Len(hs) - 1 : n \in Good => n + 1 \in Good
      BY <1>4
    <2>2. \A n \in 0 .. Len(hs) : n \in Good
      BY <1>3, <2>1, UpTo
    <2> QED
      BY <2>2
  <1>6. \E f : Is(f, Len(hs))
    BY <1>5 DEF Good
  <1> DEFINE T == CHOOSE f : Is(f, Len(hs))
  <1>7. Is(T, Len(hs))
    BY <1>6
  <1> HIDE DEF T
  <1>8. T[0] = start /\ \A k \in 1 .. Len(hs) : T[k] = Step(k, T[k - 1])
    <2>1. \A k \in 0 .. Len(hs) : T[k] = IF k = 0 THEN start ELSE Step(k, T[k - 1])
      BY <1>7
    <2>2. 0 \in 0 .. Len(hs) /\ \A k \in 1 .. Len(hs) : k \in 0 .. Len(hs) /\ k # 0
      OBVIOUS
    <2> QED
      BY <2>1, <2>2
  <1> QED
    BY <1>1, <1>2, <1>8 DEF T, Step

\* The first k hashes, as BatchRevocable and BatchRevoked look at all of them.
Revocable(hs, by, k) ==
    /\ \A i \in 1 .. k : Changeable(hs[i], by)
    /\ \A i, j \in 1 .. k : hs[i] = hs[j] => i = j

Revoked(hs, k) ==
    [h \in Hashes |-> IF \E i \in 1 .. k : hs[i] = h
                      THEN [statuses[h] EXCEPT !.revokedAt = timestamp]
                      ELSE statuses[h]]

\* After k turns.
TurnIs(acc, hs, by, k) ==
    /\ acc = [statuses |-> acc.statuses, reverted |-> acc.reverted]
    /\ acc.reverted \in BOOLEAN
    /\ acc.reverted <=> ~ Revocable(hs, by, k)
    /\ ~ acc.reverted => acc.statuses = Revoked(hs, k)

\* A turn finds the record changeable unless it was not, or an earlier turn had it.
LEMMA TurnGoesOn ==
    ASSUME TypeOK, NEW hs \in Seq(Hashes), NEW by \in Accounts, NEW k \in 1 .. Len(hs),
           NEW acc, TurnIs(acc, hs, by, k - 1)
    PROVE  TurnIs(RevokeTurn(acc, hs[k], by), hs, by, k)
  <1> DEFINE h == hs[k]
             new == RevokeTurn(acc, h, by)
  <1>1. /\ h \in Hashes /\ k \in Nat /\ k >= 1
        /\ \A i : i \in 1 .. k <=> i \in 1 .. k - 1 \/ i = k
        /\ statuses \in [Hashes -> Status] /\ timestamp # 0
        /\ k \notin 1 .. k - 1
    BY DEF TypeOK
  <1>2. Revocable(hs, by, k) <=>
            /\ Revocable(hs, by, k - 1) /\ Changeable(h, by)
            /\ ~ \E i \in 1 .. k - 1 : hs[i] = h
    BY <1>1 DEF Revocable
  <1>3. CASE acc.reverted
    <2>1. new = [acc EXCEPT !.reverted = TRUE]
      BY <1>3 DEF RevokeTurn
    <2>2. new = [statuses |-> acc.statuses, reverted |-> TRUE]
      BY <2>1 DEF TurnIs
    <2>3. ~ Revocable(hs, by, k)
      BY <1>2, <1>3 DEF TurnIs
    <2> QED
      BY <2>2, <2>3 DEF TurnIs
  <1>4. CASE ~ acc.reverted
    <2>1. /\ acc = [statuses |-> Revoked(hs, k - 1), reverted |-> FALSE]
          /\ Revocable(hs, by, k - 1)
      BY <1>4 DEF TurnIs
    <2> DEFINE s == acc.statuses[h]
               earlier == \E i \in 1 .. k - 1 : hs[i] = h
    <2>2. /\ acc.statuses = Revoked(hs, k - 1)
          /\ s = IF earlier THEN [statuses[h] EXCEPT !.revokedAt = timestamp] ELSE statuses[h]
      BY <1>1, <2>1 DEF Revoked
    <2>3. statuses[h] \in Status
      BY <1>1
    <2>4. (s.issuedAt = 0 \/ s.revokedAt # 0 \/ s.issuer # by) <=> earlier \/ ~ Changeable(h, by)
      BY <1>1, <2>2, <2>3 DEF Changeable, Status
    <2>5. CASE earlier \/ ~ Changeable(h, by)
      <3>1. new = [acc EXCEPT !.reverted = TRUE]
        BY <2>4, <2>5 DEF RevokeTurn
      <3>2. new = [statuses |-> acc.statuses, reverted |-> TRUE]
        BY <2>1, <3>1
      <3>3. ~ Revocable(hs, by, k)
        BY <1>2, <2>5
      <3> QED
        BY <3>2, <3>3 DEF TurnIs
    <2>6. CASE ~ earlier /\ Changeable(h, by)
      <3>1. new = [acc EXCEPT !.statuses[h].revokedAt = timestamp]
        BY <1>4, <2>4, <2>6 DEF RevokeTurn
      <3> DEFINE after == [acc.statuses EXCEPT ![h] = [acc.statuses[h] EXCEPT !.revokedAt = timestamp]]
      <3>2. new = [statuses |-> after, reverted |-> FALSE]
        BY <2>1, <3>1
      <3>3. Revocable(hs, by, k)
        BY <1>2, <2>1, <2>6
      <3>4. after = Revoked(hs, k)
        <4>1. \A g \in Hashes : after[g] = Revoked(hs, k)[g]
          BY <1>1, <2>2, <2>6 DEF Revoked
        <4>2. after = [g \in Hashes |-> after[g]] /\ Revoked(hs, k) = [g \in Hashes |-> Revoked(hs, k)[g]]
          BY <2>2 DEF Revoked
        <4> HIDE DEF after
        <4> QED
          BY <4>1, <4>2
      <3> HIDE DEF after, new
      <3> QED
        BY <3>2, <3>3, <3>4 DEF TurnIs, new
    <2> QED
      BY <2>5, <2>6
  <1> QED
    BY <1>3, <1>4 DEF TurnIs

\* batchRevokeCredential is the loop.
LEMMA LoopIsBatch == TypeOK => BatchIsTheLoop
  <1> SUFFICES ASSUME TypeOK, NEW hs \in Batches, NEW by \in Accounts
               PROVE  /\ BatchRevocable(hs, by) <=> ~ RevokeLoop(hs, by).reverted
                      /\ ~ RevokeLoop(hs, by).reverted
                             => RevokeLoop(hs, by).statuses = BatchRevoked(hs)
    BY DEF BatchIsTheLoop
  <1>1. hs \in Seq(Hashes) /\ Len(hs) \in Nat /\ DOMAIN hs = 1 .. Len(hs)
    BY BoundsAssumption DEF Batches
  <1> DEFINE T == Turns(hs, by)
             Good == {n \in Nat : TurnIs(T[n], hs, by, n)}
  <1>2. /\ RevokeLoop(hs, by) = T[Len(hs)]
        /\ T[0] = [statuses |-> statuses, reverted |-> FALSE]
        /\ \A k \in 1 .. Len(hs) : T[k] = RevokeTurn(T[k - 1], hs[k], by)
    BY <1>1, TurnsAre
  <1> HIDE DEF T
  <1>3. 0 \in Good
    <2>1. Revocable(hs, by, 0) /\ Revoked(hs, 0) = [h \in Hashes |-> statuses[h]]
      BY DEF Revocable, Revoked
    <2>2. Revoked(hs, 0) = statuses
      BY <2>1 DEF TypeOK
    <2>3. TurnIs(T[0], hs, by, 0)
      BY <1>2, <2>1, <2>2 DEF TurnIs
    <2> QED
      BY <2>3
  <1>4. ASSUME NEW n \in 0 .. Len(hs) - 1, n \in Good PROVE n + 1 \in Good
    <2>1. n + 1 \in 1 .. Len(hs) /\ (n + 1) - 1 = n /\ n + 1 \in Nat
      BY <1>1
    <2>2. TurnIs(RevokeTurn(T[n], hs[n + 1], by), hs, by, n + 1)
      BY <1>1, <1>4, <2>1, TurnGoesOn
    <2>3. T[n + 1] = RevokeTurn(T[n], hs[n + 1], by)
      BY <1>2, <2>1
    <2> QED
      BY <2>1, <2>2, <2>3
  <1> HIDE DEF Good
  <1>5. \A n \in 0 .. Len(hs) : n \in Good
    <2>1. \A n \in 0 .. Len(hs) - 1 : n \in Good => n + 1 \in Good
      BY <1>4
    <2> QED
      BY <1>1, <1>3, <2>1, UpTo
  <1>6. TurnIs(RevokeLoop(hs, by), hs, by, Len(hs))
    BY <1>1, <1>2, <1>5 DEF Good
  <1>7. Revocable(hs, by, Len(hs)) <=> BatchRevocable(hs, by)
    BY <1>1 DEF Revocable, BatchRevocable
  <1>8. Revoked(hs, Len(hs)) = BatchRevoked(hs)
    BY <1>1 DEF Revoked, BatchRevoked
  <1> QED
    BY <1>6, <1>7, <1>8 DEF TurnIs

\* A batch is the loop of revoke over its hashes: it reverts when a turn does, and
\* else leaves what the turns leave, however long it is and whatever it repeats
\* (batchRevoke of LibCredentialStatus).
THEOREM BatchesAreLoops == Spec => []BatchIsTheLoop
  BY StatusesAreTyped, LoopIsBatch, PTL

-----------------------------------------------------------------------------
(* The issuer registry. *)

RegistryInv == RegistryTypeOK /\ ListIsMapping /\ LogTellsTrust /\ LogAlternates

\* What swap-and-pop leaves of a list without repetitions: everybody but the
\* removed issuer, once.
LEMMA SwapAndPopRemoves ==
    ASSUME NEW list \in Seq(Addresses), NEW issuer \in Addresses,
           \A j, k \in DOMAIN list : list[j] = list[k] => j = k,
           \E k \in DOMAIN list : list[k] = issuer
    PROVE  LET popped == SwapAndPop(list, issuer) IN
           /\ popped \in Seq(Addresses)
           /\ \A s \in Addresses :
                 (\E k \in DOMAIN popped : popped[k] = s) <=>
                     s # issuer /\ \E k \in DOMAIN list : list[k] = s
           /\ \A j, k \in DOMAIN popped : popped[j] = popped[k] => j = k
  <1> DEFINE n == Len(list)
             i == CHOOSE k \in DOMAIN list :
                      /\ list[k] = issuer
                      /\ \A j \in DOMAIN list : list[j] = issuer => k <= j
             popped == SwapAndPop(list, issuer)
  <1>1. n \in Nat /\ DOMAIN list = 1 .. n /\ \A k \in 1 .. n : list[k] \in Addresses
    OBVIOUS
  <1>2. i \in 1 .. n /\ list[i] = issuer
    <2> PICK k \in 1 .. n : list[k] = issuer
      BY <1>1
    <2>1. \A j \in 1 .. n : list[j] = issuer => k <= j
      BY <1>1
    <2> QED
      BY <1>1, <2>1
  <1>3. popped = [k \in 1 .. n - 1 |-> IF k = i THEN list[n] ELSE list[k]]
    BY DEF SwapAndPop
  <1> HIDE DEF n, i, popped
  <1>4. n \in 1 .. n /\ n - 1 \in Nat /\ 1 .. n - 1 \subseteq 1 .. n
    BY <1>1, <1>2
  <1>5. popped \in Seq(Addresses) /\ DOMAIN popped = 1 .. n - 1
    BY <1>1, <1>3, <1>4
  <1>6. \A k \in 1 .. n - 1 : popped[k] = IF k = i THEN list[n] ELSE list[k]
    BY <1>3
  <1>7. \A k \in 1 .. n : k = n \/ k \in 1 .. n - 1
    BY <1>1
  <1>8. n \notin 1 .. n - 1
    BY <1>1
  <1>9. \A j, k \in 1 .. n - 1 : popped[j] = popped[k] => j = k
    BY <1>1, <1>4, <1>6, <1>8
  <1>10. ASSUME NEW s \in Addresses
         PROVE  (\E k \in 1 .. n - 1 : popped[k] = s) <=>
                    s # issuer /\ \E k \in 1 .. n : list[k] = s
    <2>1. ASSUME NEW k \in 1 .. n - 1, popped[k] = s
          PROVE  s # issuer /\ \E j \in 1 .. n : list[j] = s
      BY <1>1, <1>2, <1>4, <1>6, <1>8, <2>1
    <2>2. ASSUME NEW k \in 1 .. n, list[k] = s, s # issuer
          PROVE  \E j \in 1 .. n - 1 : popped[j] = s
      <3>1. k # i
        BY <1>2, <2>2
      <3>2. CASE k = n
        <4>1. i \in 1 .. n - 1
          BY <1>2, <1>7, <3>1, <3>2
        <4> QED
          BY <1>6, <2>2, <3>2, <4>1
      <3>3. CASE k \in 1 .. n - 1
        BY <1>6, <2>2, <3>1, <3>3
      <3> QED
        BY <1>7, <3>2, <3>3
    <2> QED
      BY <2>1, <2>2
  <1> QED
    BY <1>1, <1>5, <1>9, <1>10 DEF popped

LEMMA RegistryInitial == RegistryInit => RegistryInv
  BY RegistryBounds DEF RegistryInit, RegistryInv, RegistryTypeOK, ListIsMapping, LogTellsTrust, LogAlternates

\* The log keeps telling the mapping when the mapping changes for one issuer
\* only and the change is announced.
LEMMA RegistryLogStep ==
    ASSUME RegistryInv, NEW issuer \in Addresses, NEW event \in {"Added", "Removed"},
           Announce(event, issuer),
           issuer \in trustedIssuers <=> event = "Removed",
           issuer \in trustedIssuers' <=> event = "Added",
           \A s \in Addresses \ {issuer} : s \in trustedIssuers' <=> s \in trustedIssuers
    PROVE  events' \in Seq(RegistryEvent) /\ LogTellsTrust' /\ LogAlternates'
  <1> PICK n \in Nat : n = Len(events) + 1
    BY DEF RegistryInv, RegistryTypeOK
  <1>1. /\ n \in Nat /\ events \in Seq(RegistryEvent) /\ DOMAIN events = 1 .. Len(events)
        /\ \A k \in 1 .. Len(events) : events[k] \in RegistryEvent
    BY DEF RegistryInv, RegistryTypeOK
  <1>2. [event |-> event, issuer |-> issuer] \in RegistryEvent
    BY DEF RegistryEvent
  <1>3. /\ events' \in Seq(RegistryEvent) /\ DOMAIN events' = 1 .. n
        /\ \A k \in 1 .. Len(events) : events'[k] = events[k]
        /\ events'[n].issuer = issuer /\ events'[n].event = event
    BY <1>1, <1>2 DEF Announce
  <1>4. \A k \in 1 .. Len(events) : k \in 1 .. n /\ k < n
    BY <1>1
  <1>5. \A k \in 1 .. n : k = n \/ k \in 1 .. Len(events)
    BY <1>1
  <1>6. n \in 1 .. n /\ \A k \in 1 .. n : k <= n
    BY <1>1
  <1>7. LogTellsTrust'
    <2> SUFFICES ASSUME NEW s \in Addresses
                 PROVE  s \in trustedIssuers' <=>
                          \E k \in 1 .. n : LastWordOn(s, k)' /\ events'[k].event = "Added"
      BY <1>3 DEF LogTellsTrust
    <2>1. CASE s = issuer
      <3>1. LastWordOn(s, n)'
        BY <1>3, <1>6, <2>1 DEF LastWordOn
      <3>2. \A k \in 1 .. n : LastWordOn(s, k)' => k = n
        BY <1>1, <1>3, <1>5, <1>6, <2>1 DEF LastWordOn
      <3> QED
        BY <1>3, <1>6, <2>1, <3>1, <3>2
    <2>2. CASE s # issuer
      <3>1. \A k \in 1 .. Len(events) : LastWordOn(s, k)' <=> LastWordOn(s, k)
        BY <1>1, <1>3, <1>4, <1>5, <2>2 DEF LastWordOn
      <3>2. ~LastWordOn(s, n)'
        BY <1>3, <2>2 DEF LastWordOn
      <3>3. s \in trustedIssuers <=>
              \E k \in 1 .. Len(events) : LastWordOn(s, k) /\ events[k].event = "Added"
        BY <1>1 DEF RegistryInv, LogTellsTrust
      <3> QED
        BY <1>3, <1>4, <1>5, <2>2, <3>1, <3>2, <3>3
    <2> QED
      BY <2>1, <2>2
  <1>8. LogAlternates'
    <2> SUFFICES ASSUME NEW j \in 1 .. n, NEW k \in 1 .. n,
                        j < k, events'[j].issuer = events'[k].issuer,
                        \A i \in 1 .. n : events'[i].issuer = events'[j].issuer => i <= j \/ i >= k
                 PROVE  events'[j].event # events'[k].event
      BY <1>3 DEF LogAlternates
    <2>1. j \in 1 .. Len(events)
      BY <1>1, <1>5, <1>6
    <2>2. CASE k \in 1 .. Len(events)
      BY <1>1, <1>3, <1>4, <2>1, <2>2 DEF RegistryInv, LogAlternates
    <2>3. CASE k = n
      <3>1. events[j].issuer = issuer
        BY <1>3, <2>1, <2>3
      <3>2. LastWordOn(issuer, j)
        BY <1>1, <1>3, <1>4, <2>1, <2>3, <3>1 DEF LastWordOn
      <3>3. \A i \in 1 .. Len(events) : LastWordOn(issuer, i) => i = j
        BY <1>1, <2>1, <3>2 DEF LastWordOn
      <3>4. issuer \in trustedIssuers <=> events[j].event = "Added"
        BY <1>1, <2>1, <3>2, <3>3 DEF RegistryInv, LogTellsTrust
      <3> QED
        BY <1>1, <1>3, <2>1, <2>3, <3>4 DEF RegistryEvent
    <2> QED
      BY <1>5, <2>2, <2>3
  <1> QED
    BY <1>3, <1>7, <1>8

LEMMA AddStep ==
    ASSUME RegistryInv, NEW caller \in Addresses, NEW a \in Addresses \cup {NoAddress},
           AddTrustedIssuer(caller, a)
    PROVE  RegistryInv'
  <1> USE DEF AddTrustedIssuer
  <1>1. a \in Addresses
    OBVIOUS
  <1>2. events' \in Seq(RegistryEvent) /\ LogTellsTrust' /\ LogAlternates'
    BY <1>1, RegistryLogStep
  <1>3. RegistryTypeOK'
    BY <1>1, <1>2 DEF RegistryInv, RegistryTypeOK
  <1>4. ListIsMapping'
    <2> DEFINE n == Len(issuerList)
    <2>1. /\ n \in Nat /\ DOMAIN issuerList = 1 .. n /\ DOMAIN issuerList' = 1 .. n + 1
          /\ \A k \in 1 .. n : issuerList'[k] = issuerList[k] /\ issuerList[k] \in Addresses
          /\ issuerList'[n + 1] = a
      BY <1>1 DEF RegistryInv, RegistryTypeOK
    <2> HIDE DEF n
    <2>2. /\ \A k \in 1 .. n + 1 : k = n + 1 \/ k \in 1 .. n
          /\ \A k \in 1 .. n : k \in 1 .. n + 1
          /\ n + 1 \in 1 .. n + 1
      BY <2>1
    <2>3. \A k \in 1 .. n : issuerList[k] # a
      BY <2>1 DEF RegistryInv, ListIsMapping
    <2> QED
      BY <2>1, <2>2, <2>3 DEF RegistryInv, ListIsMapping
  <1> QED
    BY <1>2, <1>3, <1>4 DEF RegistryInv

LEMMA RemoveStep ==
    ASSUME RegistryInv, NEW caller \in Addresses, NEW a \in Addresses \cup {NoAddress},
           RemoveTrustedIssuer(caller, a)
    PROVE  RegistryInv'
  <1> USE DEF RemoveTrustedIssuer
  <1>1. a \in Addresses
    BY DEF RegistryInv, RegistryTypeOK
  <1>2. events' \in Seq(RegistryEvent) /\ LogTellsTrust' /\ LogAlternates'
    BY <1>1, RegistryLogStep
  <1>3. /\ issuerList \in Seq(Addresses)
        /\ \A j, k \in DOMAIN issuerList : issuerList[j] = issuerList[k] => j = k
        /\ \E k \in DOMAIN issuerList : issuerList[k] = a
    BY <1>1 DEF RegistryInv, RegistryTypeOK, ListIsMapping
  <1>4. issuerList' = SwapAndPop(issuerList, a)
    BY <1>3
  <1>5. /\ issuerList' \in Seq(Addresses)
        /\ \A s \in Addresses :
              (\E k \in DOMAIN issuerList' : issuerList'[k] = s) <=>
                  s # a /\ \E k \in DOMAIN issuerList : issuerList[k] = s
        /\ \A j, k \in DOMAIN issuerList' : issuerList'[j] = issuerList'[k] => j = k
    BY <1>1, <1>3, <1>4, SwapAndPopRemoves
  <1>6. RegistryTypeOK'
    BY <1>2, <1>5 DEF RegistryInv, RegistryTypeOK
  <1>7. ListIsMapping'
    BY <1>5 DEF RegistryInv, ListIsMapping
  <1> QED
    BY <1>2, <1>6, <1>7 DEF RegistryInv

LEMMA RegistryStep == RegistryInv /\ [RegistryNext]_registryVars => RegistryInv'
  <1> SUFFICES ASSUME RegistryInv, [RegistryNext]_registryVars PROVE RegistryInv'
    OBVIOUS
  <1>1. ASSUME NEW caller \in Addresses, NEW a \in Addresses \cup {NoAddress},
               TransferOwnership(caller, a)
        PROVE  RegistryInv'
    BY <1>1 DEF TransferOwnership, RegistryInv, RegistryTypeOK, ListIsMapping, LogTellsTrust,
                LastWordOn, LogAlternates
  <1>2. CASE UNCHANGED registryVars
    BY <1>2 DEF registryVars, RegistryInv, RegistryTypeOK, ListIsMapping, LogTellsTrust, LastWordOn, LogAlternates
  <1> QED
    BY <1>1, <1>2, AddStep, RemoveStep DEF RegistryNext

\* The invariant holds in every reachable state of the registry.
THEOREM RegistryInductive == RegistrySpec => []RegistryInv
  BY RegistryInitial, RegistryStep, PTL DEF RegistrySpec

\* The mapping, the list, the owner and the log of the registry are well-formed.
THEOREM RegistryIsTyped == RegistrySpec => []RegistryTypeOK
  BY RegistryInductive, PTL DEF RegistryInv

\* Mapping and list agree, for any number of issuers.
THEOREM ListAndMappingAgree == RegistrySpec => []ListIsMapping
  BY RegistryInductive, PTL DEF RegistryInv

\* The last event about an issuer tells whether it is trusted.
THEOREM EventsTellTrust == RegistrySpec => []LogTellsTrust
  BY RegistryInductive, PTL DEF RegistryInv

\* Additions and removals of an issuer alternate in the log.
THEOREM EventsAlternate == RegistrySpec => []LogAlternates
  BY RegistryInductive, PTL DEF RegistryInv

-----------------------------------------------------------------------------
(* The list in pages.                                                      *)

\* The first n of a sequence.
Prefix(seq, n) == [i \in 1 .. n |-> seq[i]]

\* The end of the first k pages.
EndOf(k, limit) == IF k * limit > Len(issuerList) THEN Len(issuerList) ELSE k * limit

LEMMA PageEnds ==
    ASSUME NEW limit \in Nat \ {0}, RegistryTypeOK
    PROVE  /\ EndOf(1, limit) = IF limit > Len(issuerList) THEN Len(issuerList) ELSE limit
           /\ \A k \in Nat : EndOf(k, limit) \in 0 .. Len(issuerList)
           /\ \A k \in Nat : k > Len(issuerList) => EndOf(k, limit) = Len(issuerList)
           /\ \A k \in Nat : k * limit \in Nat /\ (k + 1) * limit = k * limit + limit
  <1> DEFINE n == Len(issuerList)
  <1>1. n \in Nat
    BY DEF RegistryTypeOK
  <1> HIDE DEF n
  <1>2. \A k \in Nat : k * limit \in Nat /\ (k + 1) * limit = k * limit + limit /\ k * limit >= k
    OBVIOUS
  <1>3. \A k \in Nat : k > n => (IF k * limit > n THEN n ELSE k * limit) = n
    BY <1>1, <1>2
  <1>4. \A k \in Nat : (IF k * limit > n THEN n ELSE k * limit) \in 0 .. n
    BY <1>1, <1>2
  <1>5. 1 * limit = limit
    OBVIOUS
  <1> QED
    BY <1>2, <1>3, <1>4, <1>5 DEF EndOf, n

\* A page goes on where the pages before it ended.
LEMMA PageJoins ==
    ASSUME NEW limit \in Nat \ {0}, RegistryTypeOK, NEW k \in Nat
    PROVE  /\ Prefix(issuerList, EndOf(k, limit)) \o GetIssuers(k * limit, limit)
                  = Prefix(issuerList, EndOf(k + 1, limit))
           /\ GetIssuers(0, limit) = Prefix(issuerList, EndOf(1, limit))
  <1> DEFINE n == Len(issuerList)
             off == k * limit
             a == EndOf(k, limit)
             b == EndOf(k + 1, limit)
             page == GetIssuers(off, limit)
  <1>1. /\ n \in Nat /\ off \in Nat /\ (k + 1) * limit = off + limit
        /\ a \in 0 .. n /\ b \in 0 .. n
    <2>1. n \in Nat /\ k \in Nat /\ k + 1 \in Nat
      BY DEF RegistryTypeOK
    <2> QED
      BY <2>1, PageEnds
  <1>2. /\ a = IF off > n THEN n ELSE off
        /\ b = IF off + limit > n THEN n ELSE off + limit
    BY <1>1 DEF EndOf
  <1>3. page = IF off >= n THEN <<>> ELSE SubSeq(issuerList, off + 1, b)
    BY <1>2 DEF GetIssuers
  <1>4. GetIssuers(0, limit) = IF 0 >= n THEN <<>>
            ELSE SubSeq(issuerList, 1, IF limit > n THEN n ELSE limit)
    BY <1>1 DEF GetIssuers
  <1>5. issuerList \in Seq(Addresses) /\ DOMAIN issuerList = 1 .. n
    BY DEF RegistryTypeOK
  <1> HIDE DEF off, a, b
  <1>6. Prefix(issuerList, a) \o page = Prefix(issuerList, b)
    <2>1. CASE off >= n
      <3>1. page = <<>> /\ a = n /\ b = n
        BY <1>1, <1>2, <1>3, <2>1
      <3>2. Prefix(issuerList, n) \in Seq(Addresses)
        BY <1>1, <1>5 DEF Prefix
      <3> QED
        BY <3>1, <3>2
    <2>2. CASE ~ off >= n
      <3>1. a = off /\ b - a \in Nat /\ off =< b /\ b =< n
        BY <1>1, <1>2, <2>2
      <3>2. page = SubSeq(issuerList, a + 1, b)
        BY <1>3, <2>2, <3>1
      <3> HIDE DEF page, n
      <3>3. /\ page \in Seq(Addresses) /\ Len(page) = b - a
            /\ \A i \in 1 .. b - a : page[i] = issuerList[a + i]
        BY <1>1, <1>5, <3>1, <3>2
      <3>4. Prefix(issuerList, a) \in Seq(Addresses) /\ Len(Prefix(issuerList, a)) = a
        BY <1>1, <1>5 DEF Prefix
      <3> DEFINE both == Prefix(issuerList, a) \o page
      <3>5. both = [i \in 1 .. b |-> both[i]]
        <4>1. both \in Seq(Addresses) /\ Len(both) = a + (b - a)
          BY <3>3, <3>4
        <4>2. a + (b - a) = b
          BY <1>1, <3>1
        <4> HIDE DEF both
        <4> QED
          BY <4>1, <4>2
      <3>6. ASSUME NEW i \in 1 .. b PROVE both[i] = issuerList[i]
        <4>1. CASE i \in 1 .. a
          BY <1>1, <3>3, <3>4, <4>1 DEF Prefix
        <4>2. CASE i \notin 1 .. a
          <5>1. i - a \in 1 .. b - a /\ a + (i - a) = i
            BY <1>1, <3>1, <4>2
          <5>2. both[i] = page[i - a]
            BY <1>1, <3>1, <3>3, <3>4, <4>2
          <5> QED
            BY <3>3, <5>1, <5>2
        <4> QED
          BY <4>1, <4>2
      <3> HIDE DEF both
      <3>7. both = Prefix(issuerList, b)
        BY <3>5, <3>6 DEF Prefix
      <3> QED
        BY <3>7 DEF both
    <2> QED
      BY <2>1, <2>2
  <1>7. GetIssuers(0, limit) = Prefix(issuerList, EndOf(1, limit))
    <2> DEFINE e == EndOf(1, limit)
    <2>1. e = IF limit > n THEN n ELSE limit
      BY PageEnds
    <2> HIDE DEF e
    <2>2. e \in 0 .. n /\ (n # 0 => e # 0)
      BY <1>1, <2>1
    <2>3. CASE n = 0
      <3>1. e = 0 /\ GetIssuers(0, limit) = <<>>
        BY <1>1, <1>4, <2>2, <2>3
      <3>2. Prefix(issuerList, 0) = <<>>
        BY DEF Prefix
      <3> QED
        BY <3>1, <3>2 DEF e
    <2>4. CASE n # 0
      <3>1. GetIssuers(0, limit) = SubSeq(issuerList, 1, e)
        BY <1>1, <1>4, <2>1, <2>4
      <3>2. SubSeq(issuerList, 1, e) = [i \in 1 .. e |-> issuerList[i]]
        BY <1>1, <1>5, <2>2
      <3> QED
        BY <3>1, <3>2 DEF Prefix, e
    <2> QED
      BY <2>3, <2>4 DEF e
  <1> QED
    BY <1>6, <1>7 DEF off, a, b

\* The pages one after the other are the list.
LEMMA PagesAreList == RegistryTypeOK => PagesAreTheList
  <1> SUFFICES ASSUME RegistryTypeOK, NEW limit \in 1 .. MaxUint
               PROVE  FlattenSeq(PagesRead(limit)) = issuerList
    BY DEF PagesAreTheList
  <1> DEFINE M == Len(issuerList) + 1
             pages == PagesRead(limit)
             upTo == [i \in 1 .. M |-> Prefix(issuerList, EndOf(i, limit))]
             Is(f) == f = [i \in 1 .. M |-> IF i = 1 THEN pages[i] ELSE f[i - 1] \o pages[i]]
  <1>1. /\ limit \in Nat \ {0} /\ M \in Nat /\ M >= 1
        /\ issuerList \in Seq(Addresses)
    BY RegistryBounds DEF RegistryTypeOK
  <1>2. Len(pages) = M /\ \A i \in 1 .. M : pages[i] = GetIssuers((i - 1) * limit, limit)
    BY <1>1 DEF PagesRead
  <1>3. FlattenSeq(pages) = (CHOOSE f : Is(f))[M]
    BY <1>1, <1>2 DEF FlattenSeq
  <1> HIDE DEF pages
  <1>4. pages[1] = upTo[1]
    <2>1. pages[1] = GetIssuers(0, limit)
      BY <1>1, <1>2
    <2> QED
      BY <1>1, <2>1, PageJoins
  <1>5. ASSUME NEW i \in 2 .. M PROVE upTo[i] = upTo[i - 1] \o pages[i]
    <2>1. i - 1 \in Nat /\ (i - 1) + 1 = i /\ i \in 1 .. M /\ i - 1 \in 1 .. M
      BY <1>1
    <2> QED
      BY <1>1, <1>2, <2>1, PageJoins
  <1>6. Is(upTo)
    <2>1. ASSUME NEW i \in 1 .. M
          PROVE  upTo[i] = IF i = 1 THEN pages[i] ELSE upTo[i - 1] \o pages[i]
      <3>1. i = 1 \/ i \in 2 .. M
        BY <1>1
      <3> HIDE DEF upTo, M
      <3> QED
        BY <1>4, <1>5, <3>1
    <2>2. upTo = [i \in 1 .. M |-> upTo[i]]
      OBVIOUS
    <2> HIDE DEF upTo, M
    <2> QED
      BY <2>1, <2>2
  <1> DEFINE F == CHOOSE f : Is(f)
  <1>7. Is(F)
    BY <1>6
  <1> HIDE DEF F
  <1>8. F[1] = pages[1] /\ \A i \in 2 .. M : F[i] = F[i - 1] \o pages[i]
    <2>1. \A i \in 1 .. M : F[i] = IF i = 1 THEN pages[i] ELSE F[i - 1] \o pages[i]
      BY <1>7
    <2>2. 1 \in 1 .. M /\ \A i \in 2 .. M : i \in 1 .. M /\ i # 1
      BY <1>1
    <2> HIDE DEF M
    <2> QED
      BY <2>1, <2>2
  <1> DEFINE Good == {n \in Nat : F[n + 1] = upTo[n + 1]}
  <1>9. \A n \in 0 .. M - 1 : n \in Good
    <2>1. 0 \in Good
      BY <1>4, <1>8
    <2>2. ASSUME NEW n \in 0 .. (M - 1) - 1, n \in Good PROVE n + 1 \in Good
      <3>1. n + 2 \in 2 .. M /\ (n + 2) - 1 = n + 1 /\ (n + 1) + 1 = n + 2 /\ n + 1 \in Nat
        BY <1>1
      <3>2. F[n + 1] = upTo[n + 1]
        BY <2>2
      <3> HIDE DEF upTo, M
      <3>3. F[n + 2] = F[n + 1] \o pages[n + 2] /\ upTo[n + 2] = upTo[n + 1] \o pages[n + 2]
        BY <1>5, <1>8, <3>1
      <3> QED
        BY <3>1, <3>2, <3>3
    <2> HIDE DEF Good
    <2>3. M - 1 \in Nat
      BY <1>1
    <2>4. \A n \in 0 .. (M - 1) - 1 : n \in Good => n + 1 \in Good
      BY <2>2
    <2> QED
      BY <2>1, <2>3, <2>4, UpTo
  <1>10. F[M] = upTo[M]
    <2>1. M - 1 \in 0 .. M - 1 /\ (M - 1) + 1 = M
      BY <1>1
    <2> QED
      BY <1>9, <2>1
  <1>11. upTo[M] = Prefix(issuerList, Len(issuerList))
    <2>1. EndOf(M, limit) = Len(issuerList) /\ M \in 1 .. M
      BY <1>1, PageEnds
    <2> QED
      BY <2>1
  <1>12. Prefix(issuerList, Len(issuerList)) = issuerList
    BY <1>1 DEF Prefix
  <1> QED
    BY <1>3, <1>10, <1>11, <1>12 DEF F, pages

\* Pages of any size put together are the list, for a list of any length
\* (getTrustedIssuers of LibTrustedIssuer).
THEOREM PagesJoinUp == RegistrySpec => []PagesAreTheList
  BY RegistryIsTyped, PagesAreList, PTL

-----------------------------------------------------------------------------
(* How the diamond comes to the services (Deployment). *)

\* No address is of a chain that is down.
FreshHasChain == ~ node => fresh = {}

\* A deployer's diamond is of this chain from its creation on, not complete before
\* its last call and complete after; or the chain was emptied under it, and no
\* diamond is there for it to change.
DeployerBuilds ==
    /\ deployer = "running" => line \in DOMAIN Script
    /\ deployer = "running" /\ line > 3 => diamond \in DiamondAddresses
    /\ "deployer" \in fresh =>
          /\ diamond \in DiamondAddresses /\ line > 3
          /\ IF line > 11 THEN diamonds[diamond] = "complete"
             ELSE diamonds[diamond] \in {"bare", "cut"}
    /\ deployer = "running" /\ line \in 4 .. 11 /\ "deployer" \notin fresh =>
          diamonds = NoDiamonds

Complete(d) == d \in DiamondAddresses /\ diamonds[d] = "complete"

AllShown == \A x \in fresh \ {"deployer"} : Complete(AddressOf(x))

DeployInv == DeployTypeOK /\ FreshHasChain /\ DeployerBuilds /\ AllShown

\* The script by its lines.
LEMMA ScriptLines ==
    /\ Len(Script) = 13 /\ DOMAIN Script = 1 .. 13
    /\ Script[3] = "Diamond" /\ Script[10] = "diamondCut" /\ Script[11] = "addTrustedIssuer"
    /\ Script[1] = "deployment_pending" /\ Script[12] = "saveToSharedConfig" /\ Script[13] = "ready"
    /\ \A l \in 1 .. 13 : /\ Script[l] = "Diamond" => l = 3
                          /\ Script[l] = "diamondCut" => l = 10
                          /\ Script[l] = "addTrustedIssuer" => l = 11
                          /\ Script[l] = "deployment_pending" => l = 1
                          /\ Script[l] = "saveToSharedConfig" => l = 12
                          /\ Script[l] = "ready" => l = 13
                          /\ Script[l] \notin Files => l \in 2 .. 11
  BY DEF Script, Files

\* What a transaction does to the diamonds: a new one, or a call to the deployer's.
LEMMA TransactsStep ==
    ASSUME DeployInv, Transacts
    PROVE  /\ deployer = "running" /\ node /\ line \in 2 .. 11 /\ line' = line + 1
           /\ deployer' = "running"
           /\ \/ /\ line = 3 /\ fresh' = fresh \cup {"deployer"}
                 /\ diamond' \in DiamondAddresses /\ diamonds[diamond'] = "none"
                 /\ diamonds' = [diamonds EXCEPT ![diamond'] = "bare"]
              \/ line = 10 /\ Call("cut") /\ UNCHANGED <<diamond, fresh>>
              \/ line = 11 /\ Call("complete") /\ UNCHANGED <<diamond, fresh>>
              \/ line \notin {3, 10, 11} /\ UNCHANGED <<diamonds, diamond, fresh>>
           /\ UNCHANGED <<node, boot, config, checkpoint, wanted, running>>
<1>1. deployer = "running" /\ node /\ line \in 1 .. 13
  BY ScriptLines DEF Transacts, DeployInv, DeployerBuilds
<1>2. line \in 2 .. 11
  BY <1>1, ScriptLines DEF Transacts
<1>3. line' = line + 1 /\ deployer' = "running"
  BY <1>2, ScriptLines DEF Transacts, Proceeds
<1> QED BY <1>1, <1>2, <1>3, ScriptLines DEF Transacts, Running

\* A complete diamond stays complete until its chain is emptied.
LEMMA CompleteStays ==
    ASSUME DeployInv, [DeployNext]_deployVars, NEW d, Complete(d)
    PROVE  fresh' = {} \/ Complete(d)'
<1>1. d \in DiamondAddresses /\ diamonds[d] = "complete"
  BY DEF Complete
<1>2. diamonds \in [DiamondAddresses -> {"none", "bare", "cut", "complete"}]
  BY DEF DeployInv, DeployTypeOK
<1>3. CASE EmptyChain
  BY <1>3 DEF EmptyChain
<1>4. CASE Down
  BY <1>4 DEF Down
<1>5. CASE Transacts
  <2>1. CASE diamonds' = diamonds
    BY <1>1, <2>1 DEF Complete
  <2>2. CASE diamond' \in DiamondAddresses /\ diamonds[diamond'] = "none"
             /\ diamonds' = [diamonds EXCEPT ![diamond'] = "bare"]
    BY <1>1, <1>2, <2>2 DEF Complete
  <2>3. ASSUME NEW how \in {"cut", "complete"}, line \in {10, 11}, Call(how)
        PROVE  Complete(d)'
    <3>1. diamonds[diamond] = "none" \/ "deployer" \in fresh
      <4>1. deployer = "running"
        BY <1>5, TransactsStep
      <4>2. "deployer" \notin fresh => diamonds = NoDiamonds
        BY <2>3, <4>1 DEF DeployInv, DeployerBuilds
      <4>3. diamond \in DiamondAddresses
        BY <2>3, <4>1 DEF DeployInv, DeployerBuilds
      <4> QED BY <4>2, <4>3 DEF NoDiamonds
    <3>2. "deployer" \in fresh => diamonds[diamond] \in {"bare", "cut"}
      BY <2>3 DEF DeployInv, DeployerBuilds
    <3> QED BY <1>1, <1>2, <2>3, <3>1, <3>2 DEF Call, Complete
  <2> QED BY <1>5, <2>1, <2>2, <2>3, TransactsStep
<1>6. CASE UNCHANGED diamonds
  BY <1>1, <1>6 DEF Complete
<1> QED BY <1>3, <1>4, <1>5, <1>6 DEF DeployNext, deployVars, Up, Starts, Restarts, UpHardhat,
        UpdateCheckpoint, CutsConfig, SaveToSharedConfig, DeployerFails, NodeRestarts, chain

\* Nothing has been published when the chain first starts.
LEMMA DeployStart == DeployInit => DeployInv
<1> SUFFICES ASSUME DeployInit PROVE DeployInv
  OBVIOUS
<1>1. DeployTypeOK
  <2>1. 0 \in 0 .. MaxBoots /\ 1 \in 1 .. Len(Script) + 1
    BY DeploymentAssumption, ScriptLines
  <2>2. NoCheckpoint \in [status : {"none", "deployment_pending", "ready"},
                         diamond : DiamondAddresses \cup {NoDiamond}]
    BY DEF NoCheckpoint
  <2>3. NoDiamonds \in [DiamondAddresses -> {"none", "bare", "cut", "complete"}]
    BY DEF NoDiamonds
  <2>4. [s \in Services |-> Off] \in [Services -> DiamondAddresses \cup {NoDiamond, Off}]
    OBVIOUS
  <2> QED BY <2>1, <2>2, <2>3, <2>4 DEF DeployInit, DeployTypeOK
<1> QED BY <1>1 DEF DeployInit, DeployInv, FreshHasChain, DeployerBuilds, AllShown

LEMMA DeployTypes == DeployInv /\ [DeployNext]_deployVars => DeployTypeOK'
<1> SUFFICES ASSUME DeployInv, [DeployNext]_deployVars PROVE DeployTypeOK'
  OBVIOUS
<1> USE ScriptLines, DeploymentAssumption
<1> DEFINE Stages == {"none", "bare", "cut", "complete"}
           Checkpoints == [status : {"none", "deployment_pending", "ready"},
                           diamond : DiamondAddresses \cup {NoDiamond}]
<1>1. DeployTypeOK
  BY DEF DeployInv
<1>2. ASSUME EmptyChain
      PROVE  /\ node' \in BOOLEAN /\ boot' \in 0 .. MaxBoots
             /\ diamonds' \in [DiamondAddresses -> Stages] /\ fresh' = {}
  BY <1>1, <1>2 DEF EmptyChain, DeployTypeOK, NoDiamonds
<1>3. ResolveDiamondAddress \in DiamondAddresses \cup {NoDiamond}
  BY <1>1 DEF ResolveDiamondAddress, DeployTypeOK
<1>4. NoCheckpoint \in Checkpoints
  BY DEF NoCheckpoint
<1>5. ASSUME NEW s \in Services, Resolves(s)
      PROVE  /\ running' \in [Services -> DiamondAddresses \cup {NoDiamond, Off}]
             /\ fresh' \subseteq Services \cup Keepers
  BY <1>1, <1>3, <1>5 DEF Resolves, TakesOver, DeployTypeOK
<1>6. ASSUME NEW services \in SUBSET Services, Up(services) PROVE DeployTypeOK'
  <2>1. /\ node' \in BOOLEAN /\ boot' \in 0 .. MaxBoots
        /\ diamonds' \in [DiamondAddresses -> Stages] /\ fresh' \subseteq Services \cup Keepers
    BY <1>1, <1>2, <1>6 DEF Up, chain, DeployTypeOK
  <2>2. checkpoint' \in Checkpoints
    BY <1>1, <1>4, <1>6 DEF Up, DeployTypeOK
  <2>3. 1 \in 1 .. Len(Script) + 1
    OBVIOUS
  <2>4. /\ deployer' = "running" /\ line' = 1 /\ diamond' = NoDiamond /\ wanted' = services
        /\ UNCHANGED <<config, running>>
    BY <1>6 DEF Up
  <2> QED BY <1>1, <2>1, <2>2, <2>3, <2>4 DEF DeployTypeOK
<1>7. CASE UpHardhat
  BY <1>1, <1>2, <1>7 DEF DeployTypeOK, UpHardhat
<1>8. ASSUME NEW s \in Services, Starts(s) PROVE DeployTypeOK'
  <2>1. /\ running' \in [Services -> DiamondAddresses \cup {NoDiamond, Off}]
        /\ fresh' \subseteq Services \cup Keepers
    BY <1>1, <1>5, <1>8 DEF Starts, DeployTypeOK
  <2> QED BY <1>1, <1>8, <2>1 DEF DeployTypeOK, Starts, chain
<1>9. ASSUME NEW s \in Services, Restarts(s) PROVE DeployTypeOK'
  <2>1. /\ running' \in [Services -> DiamondAddresses \cup {NoDiamond, Off}]
        /\ fresh' \subseteq Services \cup Keepers
    BY <1>5, <1>9 DEF Restarts
  <2> QED BY <1>1, <1>9, <2>1 DEF DeployTypeOK, Restarts, chain
<1>10. CASE Down
  <2>1. 1 \in 1 .. Len(Script) + 1 /\ NoDiamonds \in [DiamondAddresses -> Stages]
    BY DEF NoDiamonds
  <2>2. [s \in Services |-> Off] \in [Services -> DiamondAddresses \cup {NoDiamond, Off}]
    OBVIOUS
  <2> QED BY <1>1, <1>4, <1>10, <2>1, <2>2 DEF DeployTypeOK, Down
<1>11. CASE Transacts
  <2>1. diamonds' \in [DiamondAddresses -> Stages]
    BY <1>1, <1>11, TransactsStep DEF DeployTypeOK, Call
  <2>2. diamond' \in DiamondAddresses \cup {NoDiamond} /\ fresh' \subseteq Services \cup Keepers
    BY <1>1, <1>11, TransactsStep DEF DeployTypeOK, Keepers
  <2>3. line' \in 1 .. Len(Script) + 1 /\ deployer' = "running"
        /\ UNCHANGED <<node, boot, config, checkpoint, wanted, running>>
    BY <1>11, TransactsStep
  <2> QED BY <1>1, <2>1, <2>2, <2>3 DEF DeployTypeOK
<1>12. CASE UpdateCheckpoint
  <2>1. checkpoint' \in Checkpoints
    BY <1>1, <1>12 DEF DeployTypeOK, UpdateCheckpoint
  <2>2. fresh' \subseteq Services \cup Keepers
    BY <1>1, <1>12 DEF DeployTypeOK, UpdateCheckpoint, TakesOver, Keepers
  <2> QED BY <1>1, <1>12, <2>1, <2>2 DEF DeployTypeOK, UpdateCheckpoint, Running, Proceeds, chain
<1>13. CASE CutsConfig
  BY <1>1, <1>13 DEF DeployTypeOK, CutsConfig, chain
<1>14. CASE SaveToSharedConfig
  <2>1. fresh' \subseteq Services \cup Keepers
    BY <1>1, <1>14 DEF DeployTypeOK, SaveToSharedConfig, TakesOver, Keepers
  <2> QED BY <1>1, <1>14, <2>1 DEF DeployTypeOK, SaveToSharedConfig, Running, Proceeds, chain
<1>15. CASE DeployerFails
  BY <1>1, <1>15 DEF DeployTypeOK, DeployerFails, chain
<1>16. CASE NodeRestarts
  BY <1>1, <1>2, <1>16 DEF DeployTypeOK, NodeRestarts
<1>17. CASE UNCHANGED deployVars
  BY <1>1, <1>17 DEF DeployTypeOK, deployVars, chain
<1> QED BY <1>6, <1>7, <1>8, <1>9, <1>10, <1>11, <1>12, <1>13, <1>14, <1>15, <1>16, <1>17
     DEF DeployNext

LEMMA FreshHasChainStep == DeployInv /\ [DeployNext]_deployVars => FreshHasChain'
<1> SUFFICES ASSUME DeployInv, [DeployNext]_deployVars, ~ node' PROVE fresh' = {}
  BY DEF FreshHasChain
<1>1. ~ node => fresh = {}
  BY DEF DeployInv, FreshHasChain
<1>2. CASE EmptyChain \/ Down
  BY <1>2 DEF EmptyChain, Down
<1>3. CASE \E s \in Services : Starts(s) \/ Restarts(s)
  BY <1>1, <1>3 DEF Starts, Restarts, Resolves, TakesOver, chain,
                    DeployInv, DeployTypeOK, Keepers, DeploymentAssumption
<1>4. CASE UpdateCheckpoint \/ SaveToSharedConfig \/ CutsConfig \/ DeployerFails
  BY <1>1, <1>4 DEF UpdateCheckpoint, SaveToSharedConfig, CutsConfig, DeployerFails, TakesOver, chain
<1> QED BY <1>1, <1>2, <1>3, <1>4 DEF DeployNext, deployVars, Up, UpHardhat, Transacts, NodeRestarts, chain

\* The chain may be emptied under the deployer; its own transactions take the diamond
\* from "bare" to "complete".
LEMMA DeployerStep == DeployInv /\ [DeployNext]_deployVars => DeployerBuilds'
<1> SUFFICES ASSUME DeployInv, [DeployNext]_deployVars PROVE DeployerBuilds'
  OBVIOUS
<1> USE ScriptLines
<1>1. DeployTypeOK /\ DeployerBuilds
  BY DEF DeployInv
<1>2. "deployer" \notin Services
  BY DeploymentAssumption DEF Keepers
<1>3. CASE Transacts
  <2> USE <1>3, TransactsStep
  <2>1. diamonds \in [DiamondAddresses -> {"none", "bare", "cut", "complete"}]
    BY <1>1 DEF DeployTypeOK
  <2>2. CASE line = 3
    <3>1. diamond' \in DiamondAddresses /\ diamonds'[diamond'] = "bare"
          /\ "deployer" \in fresh' /\ line' = 4
      BY <2>1, <2>2
    <3> QED BY <3>1 DEF DeployerBuilds
  <2>3. ASSUME NEW how \in {"cut", "complete"}, Call(how), UNCHANGED <<diamond, fresh>>,
               (line = 10 /\ how = "cut") \/ (line = 11 /\ how = "complete")
        PROVE  DeployerBuilds'
    <3>1. diamond \in DiamondAddresses
      BY <1>1, <2>3 DEF DeployerBuilds
    <3>2. "deployer" \in fresh => diamonds[diamond] \in {"bare", "cut"} /\ diamonds'[diamond] = how
      BY <1>1, <2>1, <2>3, <3>1 DEF DeployerBuilds, Call
    <3>3. "deployer" \notin fresh => diamonds' = NoDiamonds
      BY <1>1, <2>3, <3>1 DEF DeployerBuilds, Call, NoDiamonds
    <3> QED BY <2>3, <3>1, <3>2, <3>3 DEF DeployerBuilds
  <2>4. CASE line \notin {3, 10, 11}
    BY <1>1, <2>4 DEF DeployerBuilds
  <2>5. CASE line = 10
    <3>1. Call("cut") /\ UNCHANGED <<diamond, fresh>>
      BY <2>5
    <3> QED BY <2>3, <2>5, <3>1
  <2>6. CASE line = 11
    <3>1. Call("complete") /\ UNCHANGED <<diamond, fresh>>
      BY <2>6
    <3> QED BY <2>3, <2>6, <3>1
  <2> QED BY <2>2, <2>4, <2>5, <2>6
<1>4. CASE \E services \in SUBSET Services \ {{}} : Up(services)
  <2>1. line' = 1 /\ deployer' = "running" /\ "deployer" \notin fresh'
    BY <1>4 DEF Up, EmptyChain
  <2> QED BY <2>1 DEF DeployerBuilds
<1>5. CASE EmptyChain /\ UNCHANGED <<deployer, line, diamond>>
  BY <1>1, <1>5 DEF EmptyChain, DeployerBuilds
<1>6. CASE UNCHANGED <<diamonds, deployer, line, diamond>>
           /\ ("deployer" \in fresh' <=> "deployer" \in fresh)
  BY <1>1, <1>6 DEF DeployerBuilds
<1>7. CASE \E s \in Services : Starts(s) \/ Restarts(s)
  <2>1. "deployer" \in fresh' <=> "deployer" \in fresh
    BY <1>2, <1>7 DEF Starts, Restarts, Resolves, TakesOver
  <2> QED BY <1>6, <1>7, <2>1 DEF Starts, Restarts, chain
<1>8. CASE UpdateCheckpoint \/ SaveToSharedConfig
  <2>1. /\ UNCHANGED <<diamonds, diamond>> /\ line \in {1, 12, 13} /\ line' = line + 1
        /\ deployer = "running" /\ (deployer' = "running" => line # 13)
    BY <1>8 DEF UpdateCheckpoint, SaveToSharedConfig, Running, Proceeds, chain
  <2>2. "deployer" \in fresh' <=> "deployer" \in fresh
    BY <1>8 DEF UpdateCheckpoint, SaveToSharedConfig, TakesOver
  <2> QED BY <1>1, <2>1, <2>2 DEF DeployerBuilds
<1>9. CASE CutsConfig
  BY <1>6, <1>9 DEF CutsConfig, chain
<1>10. CASE DeployerFails \/ Down
  BY <1>10 DEF DeployerFails, Down, DeployerBuilds
<1>11. CASE UNCHANGED deployVars
  BY <1>6, <1>11 DEF deployVars, chain
<1> QED BY <1>3, <1>4, <1>5, <1>7, <1>8, <1>9, <1>10, <1>11
     DEF DeployNext, UpHardhat, NodeRestarts

\* Whoever comes to hold an address of this chain has it from one who held one: from
\* the deployer only when it is done with its diamond.
LEMMA AllShownStep == DeployInv /\ [DeployNext]_deployVars => AllShown'
<1> SUFFICES ASSUME DeployInv, [DeployNext]_deployVars, NEW x \in fresh' \ {"deployer"}
             PROVE  Complete(AddressOf(x))'
  BY DEF AllShown
<1> USE ScriptLines
<1>1. DeployTypeOK /\ DeployerBuilds /\ AllShown
  BY DEF DeployInv
<1>2. /\ Services \cap {"deployer", "config", "checkpoint"} = {}
      /\ fresh \subseteq Services \cup {"deployer", "config", "checkpoint"}
  BY <1>1, DeploymentAssumption DEF Keepers, DeployTypeOK
<1>3. /\ AddressOf("deployer") = diamond /\ AddressOf("config") = config
      /\ AddressOf("checkpoint") = checkpoint.diamond
      /\ \A s \in Services : AddressOf(s) = running[s]
      /\ AddressOf("config")' = config' /\ AddressOf("checkpoint")' = checkpoint'.diamond
      /\ \A s \in Services : AddressOf(s)' = running'[s]
  BY <1>2 DEF AddressOf
<1>4. \A y \in fresh : y # "deployer" \/ line > 11 => Complete(AddressOf(y))
  BY <1>1, <1>3 DEF AllShown, DeployerBuilds, Complete
<1>5. \A y \in fresh : (y # "deployer" \/ line > 11) /\ AddressOf(x)' = AddressOf(y)
                         => Complete(AddressOf(x))'
  <2>1. \A d : Complete(d) => Complete(d)'
    <3> TAKE d
    <3> QED BY CompleteStays
  <2> QED BY <1>4, <2>1 DEF Complete
<1>6. CASE UNCHANGED <<config, checkpoint, running>> /\ x \in fresh
  BY <1>2, <1>3, <1>5, <1>6
<1>7. CASE \E s \in Services : Resolves(s) /\ UNCHANGED <<config, checkpoint>>
  <2>1. PICK s \in Services : Resolves(s) /\ UNCHANGED <<config, checkpoint>>
    BY <1>7
  <2>2. running' = [running EXCEPT ![s] = ResolveDiamondAddress]
        /\ running \in [Services -> DiamondAddresses \cup {NoDiamond, Off}]
    BY <1>1, <2>1 DEF Resolves, DeployTypeOK
  <2>3. CASE x = s
    <3>1. "config" \in fresh
      BY <2>1, <2>3 DEF Resolves, TakesOver
    <3>2. config # Torn
      BY <1>3, <1>4, <3>1, DeploymentAssumption DEF Complete
    <3>3. AddressOf(x)' = AddressOf("config")
      BY <1>3, <2>2, <2>3, <3>2 DEF ResolveDiamondAddress
    <3> QED BY <1>5, <3>1, <3>3
  <2>4. CASE x # s
    <3>1. x \in fresh
      BY <2>1, <2>4 DEF Resolves, TakesOver
    <3>2. AddressOf(x)' = AddressOf(x)
      BY <1>2, <1>3, <2>1, <2>2, <2>4, <3>1
    <3> QED BY <1>5, <3>1, <3>2
  <2> QED BY <2>3, <2>4
<1>8. CASE SaveToSharedConfig
  <2>1. CASE x = "config" /\ config' = diamond /\ "deployer" \in fresh
    BY <1>3, <1>5, <1>8, <2>1 DEF SaveToSharedConfig, Running
  <2>2. CASE x \in fresh /\ AddressOf(x)' = AddressOf(x)
    BY <1>5, <2>2
  <2> QED BY <1>2, <1>3, <1>8, <2>1, <2>2 DEF SaveToSharedConfig, TakesOver
<1>9. CASE UpdateCheckpoint
  <2>1. CASE x = "checkpoint" /\ checkpoint'.diamond = diamond /\ "deployer" \in fresh /\ line = 13
    BY <1>3, <1>5, <2>1
  <2>2. CASE x \in fresh /\ AddressOf(x)' = AddressOf(x)
    BY <1>5, <2>2
  <2>3. CASE UNCHANGED fresh /\ checkpoint'.diamond = checkpoint.diamond
    BY <1>2, <1>3, <1>9, <2>2, <2>3 DEF UpdateCheckpoint
  <2>4. CASE checkpoint' = [status |-> "ready", diamond |-> diamond]
             /\ TakesOver("checkpoint", "deployer") /\ Running("ready")
    BY <1>2, <1>3, <1>9, <2>1, <2>2, <2>4 DEF UpdateCheckpoint, TakesOver, Running
  <2> QED BY <1>1, <1>9, <2>3, <2>4 DEF UpdateCheckpoint, DeployTypeOK
<1>10. CASE CutsConfig
  BY <1>2, <1>3, <1>5, <1>10 DEF CutsConfig
<1>11. CASE \E services \in SUBSET Services \ {{}} : Up(services)
  <2>1. x \in fresh /\ UNCHANGED <<config, running>> /\ (x = "checkpoint" => checkpoint' = checkpoint)
    BY <1>11 DEF Up, EmptyChain
  <2> QED BY <1>2, <1>3, <1>5, <2>1
<1>12. CASE EmptyChain \/ Down
  BY <1>12 DEF EmptyChain, Down
<1>13. CASE Transacts
  <2>1. x \in fresh /\ UNCHANGED <<config, checkpoint, running>>
    BY <1>13, TransactsStep
  <2> QED BY <1>6, <2>1
<1> QED BY <1>6, <1>7, <1>8, <1>9, <1>10, <1>11, <1>12, <1>13
     DEF DeployNext, deployVars, Starts, Restarts, UpHardhat, DeployerFails, NodeRestarts

\* A deployer that runs has its diamond on the chain, unfinished until its last
\* transaction, or no diamond at all; and every address handed on that was made on this
\* chain is of a complete one (deployDiamond of deploy-diamond.ts).
THEOREM DeployInductive == DeploySpec => []DeployInv
<1>1. DeployInv /\ [DeployNext]_deployVars => DeployInv'
  BY DeployTypes, FreshHasChainStep, DeployerStep, AllShownStep DEF DeployInv
<1> QED BY <1>1, DeployStart, PTL DEF DeploySpec

\* Neither the shared config, nor a checkpoint, nor a service is given an address of the
\* chain that runs before its diamond is complete, and it stays complete as long as they
\* hold it (saveToSharedConfig and updateCheckpoint of deploy-diamond.ts).
THEOREM NoneHalfBuilt == DeploySpec => []PublishedIsComplete
<1>1. DeployInv => PublishedIsComplete
  BY DEF DeployInv, AllShown, Complete, PublishedIsComplete
<1> QED BY <1>1, DeployInductive, PTL

-----------------------------------------------------------------------------
(* The facets and the deployment side by side, of which one moves.          *)

\* Side by side, each does what its own specification says.
THEOREM FacetsAreIndependent == MCSpec => Spec /\ RegistrySpec /\ DeploySpec
  <1>1. MCInit => Init /\ RegistryInit /\ DeployInit
    BY DEF MCInit
  <1>2. [MCNext]_<<vars, registryVars, deployVars, facet>> =>
            [Next]_vars /\ [RegistryNext]_registryVars /\ [DeployNext]_deployVars
    BY DEF MCNext
  <1> QED
    BY <1>1, <1>2, PTL DEF MCSpec, Spec, RegistrySpec, DeploySpec

\* So all that is proved of each holds of them together.
THEOREM AllIsKept ==
    MCSpec => /\ [](LogTellsStatus /\ BatchIsTheLoop /\ ListIsMapping /\ LogTellsTrust)
              /\ [](PagesAreTheList /\ PublishedIsComplete)
              /\ RevokedIsFrozen /\ FollowsLifecycle
  BY FacetsAreIndependent, EventsTellStatus, BatchesAreLoops, ListAndMappingAgree,
     EventsTellTrust, PagesJoinUp, NoneHalfBuilt, RevocationIsPermanent,
     ImplementsLifecycle, PTL

=============================================================================
