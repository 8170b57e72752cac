---------------------------- MODULE OutboxProofs ----------------------------
(* Proofs about Outbox for every set of rows and dispatchers, every timing. *)
EXTENDS Outbox, FiniteSetTheorems, TLAPS

-----------------------------------------------------------------------------
\* A back-off delay is a number of ticks.
LEMMA BackoffNat == \A n \in Nat : Backoff(n) \in Nat
<1> SUFFICES ASSUME NEW n \in Nat PROVE Backoff(n) \in Nat
    OBVIOUS
<1> DEFINE k == IF n > 30 THEN 30 ELSE n
           p == 2 ^ k
<1>1. k \in 0..30
    OBVIOUS
<1>2. p \in Nat
    BY <1>1, PowersOfTwo
<1>3. Backoff(n) = IF BackoffBase * p > BackoffMax THEN BackoffMax ELSE BackoffBase * p
    BY DEF Backoff
<1> HIDE DEF p, k
<1>4. QED
    BY <1>2, <1>3, OutboxAssumption

LEMMA TypeInit == Init => TypeOK
    BY OutboxAssumption DEF Init, TypeOK, Statuses, Phases, NoLease

\* Every action keeps every column and field within its type.
LEMMA TypeStep == TypeOK /\ [Next]_vars => TypeOK'
<1> SUFFICES ASSUME TypeOK, [Next]_vars PROVE TypeOK'
    OBVIOUS
<1> USE OutboxAssumption DEF TypeOK, Statuses, Phases, NoLease, rowVars, dispVars
<1>1. ASSUME NEW r \in Rows, Append(r) PROVE TypeOK'
    BY <1>1 DEF Append
<1>2. ASSUME NEW d \in Dispatchers, Claim(d) PROVE TypeOK'
    BY <1>2 DEF Claim, Idle, Due
<1>3. ASSUME NEW d \in Dispatchers, Publish(d) PROVE TypeOK'
    BY <1>3 DEF Publish
<1>4. ASSUME NEW d \in Dispatchers, BrokerAck(d) PROVE TypeOK'
    BY <1>4 DEF BrokerAck
<1>5. ASSUME NEW d \in Dispatchers, BrokerNack(d) PROVE TypeOK'
    BY <1>5 DEF BrokerNack
<1>6. ASSUME NEW d \in Dispatchers, MarkPublished(d) PROVE TypeOK'
    BY <1>6 DEF MarkPublished, FinishRow
<1>7. ASSUME NEW d \in Dispatchers, MarkRetry(d) PROVE TypeOK'
    <2>1. Backoff(seen[d][cur[d]]) \in Nat
        BY <1>7, BackoffNat DEF MarkRetry
    <2>2. QED
        BY <1>7, <2>1 DEF MarkRetry, FinishRow
<1>8. ASSUME NEW d \in Dispatchers, MarkFailed(d) PROVE TypeOK'
    BY <1>8 DEF MarkFailed, FinishRow
<1>9. ASSUME NEW d \in Dispatchers, MarkError(d) PROVE TypeOK'
    BY <1>9 DEF MarkError, FinishRow
<1>10. ASSUME NEW d \in Dispatchers, Abandon(d) PROVE TypeOK'
    BY <1>10 DEF Abandon
<1>11. ASSUME NEW d \in Dispatchers, Sweep(d) PROVE TypeOK'
    BY <1>11 DEF Sweep, Idle
<1>12. ASSUME Tick PROVE TypeOK'
    BY <1>12 DEF Tick, Countdown
<1>13. ASSUME UNCHANGED vars PROVE TypeOK'
    BY <1>13 DEF vars
<1>14. ASSUME NEW d \in Dispatchers, BrokerOffline(d) PROVE TypeOK'
    BY <1>14 DEF BrokerOffline
<1>15. ASSUME NEW r \in Rows, Arrive(r) PROVE TypeOK'
    BY <1>15 DEF Arrive
<1>16. QED
    BY <1>1, <1>2, <1>3, <1>4, <1>5, <1>6, <1>7, <1>8, <1>9, <1>10, <1>11, <1>12,
       <1>13, <1>14, <1>15 DEF Next

\* In every reachable state every column and field has a value of its type.
THEOREM TypeCorrect == Spec => []TypeOK
<1>1. QED
    BY TypeInit, TypeStep, PTL DEF Spec

-----------------------------------------------------------------------------
(* Safety for any timing. LeaseOnlyInFlight is inductive by itself; the two  *)
(* verdicts need to know what a dispatcher with a row in hand already knows. *)

\* A dispatcher about to mark a row published has had the broker's answer.
AckedWasAccepted ==
    \A d \in Dispatchers : phase[d] = "acked" => cur[d] \in accepted

\* A dispatcher that waits for the broker has handed its row over.
PublishingWasHanded ==
    \A d \in Dispatchers : phase[d] = "publishing" => handed[cur[d]] > 0

\* The attempts a dispatcher judges by are never ahead of the row's.
SeenIsNotAhead ==
    \A d \in Dispatchers : \A r \in batch[d] : seen[d][r] <= attempts[r]

AnyTimingInv ==
    /\ TypeOK
    /\ LeaseOnlyInFlight
    /\ PublishingWasHanded
    /\ AckedWasAccepted
    /\ PublishedWasAccepted
    /\ SeenIsNotAhead
    /\ FailedOnlyWhenExhausted

LEMMA AnyTimingInit == Init => AnyTimingInv
<1> SUFFICES ASSUME Init PROVE AnyTimingInv
    OBVIOUS
<1>1. TypeOK
    BY TypeInit
<1>2. QED
    BY <1>1, OutboxAssumption
    DEF Init, AnyTimingInv, LeaseOnlyInFlight, PublishingWasHanded, AckedWasAccepted, PublishedWasAccepted,
        SeenIsNotAhead, FailedOnlyWhenExhausted, NoLease

\* lease and status change together.
LEMMA LeaseStep == TypeOK /\ LeaseOnlyInFlight /\ [Next]_vars => LeaseOnlyInFlight'
<1> SUFFICES ASSUME TypeOK, LeaseOnlyInFlight, [Next]_vars PROVE LeaseOnlyInFlight'
    OBVIOUS
<1> USE OutboxAssumption DEF TypeOK, LeaseOnlyInFlight, NoLease, rowVars, dispVars
<1>1. ASSUME NEW r \in Rows, Append(r) PROVE LeaseOnlyInFlight'
    BY <1>1 DEF Append
<1>2. ASSUME NEW d \in Dispatchers, Claim(d) PROVE LeaseOnlyInFlight'
    BY <1>2 DEF Claim
<1>3. ASSUME NEW d \in Dispatchers,
             \/ Publish(d) \/ BrokerOffline(d) \/ BrokerAck(d) \/ BrokerNack(d)
             \/ MarkError(d) \/ Abandon(d)
      PROVE LeaseOnlyInFlight'
    BY <1>3 DEF Publish, BrokerOffline, BrokerAck, BrokerNack, MarkError, Abandon
<1>4. ASSUME NEW d \in Dispatchers, MarkPublished(d) PROVE LeaseOnlyInFlight'
    BY <1>4 DEF MarkPublished
<1>5. ASSUME NEW d \in Dispatchers, MarkRetry(d) PROVE LeaseOnlyInFlight'
    BY <1>5 DEF MarkRetry
<1>6. ASSUME NEW d \in Dispatchers, MarkFailed(d) PROVE LeaseOnlyInFlight'
    BY <1>6 DEF MarkFailed
<1>7. ASSUME NEW d \in Dispatchers, Sweep(d) PROVE LeaseOnlyInFlight'
    BY <1>7 DEF Sweep, Expired
<1>8. ASSUME Tick PROVE LeaseOnlyInFlight'
    BY <1>8 DEF Tick, Countdown
<1>9. ASSUME UNCHANGED vars \/ \E r \in Rows : Arrive(r) PROVE LeaseOnlyInFlight'
    BY <1>9 DEF vars, Arrive
<1>10. QED
    BY <1>1, <1>2, <1>3, <1>4, <1>5, <1>6, <1>7, <1>8, <1>9 DEF Next

\* Handing a row over is the only way to wait for the broker, and is never undone.
LEMMA HandedStep == TypeOK /\ PublishingWasHanded /\ [Next]_vars => PublishingWasHanded'
<1> SUFFICES ASSUME TypeOK, PublishingWasHanded, [Next]_vars PROVE PublishingWasHanded'
    OBVIOUS
<1> USE DEF TypeOK, PublishingWasHanded, rowVars, dispVars
<1>1. ASSUME NEW d \in Dispatchers, Publish(d) PROVE PublishingWasHanded'
    <2>1. PICK r \in Rows : /\ cur' = [cur EXCEPT ![d] = r]
                            /\ handed' = [handed EXCEPT ![r] = @ + 1]
        BY <1>1 DEF Publish
    <2>2. \A x \in Rows : handed'[x] \in Nat /\ handed'[x] >= handed[x]
        BY <2>1
    <2>3. handed'[r] > 0
        BY <2>1
    <2>4. \A e \in Dispatchers : e # d => cur'[e] = cur[e] /\ phase'[e] = phase[e]
        BY <1>1, <2>1 DEF Publish
    <2>5. ASSUME NEW e \in Dispatchers, e # d, phase'[e] = "publishing"
          PROVE  handed'[cur'[e]] > 0
        <3>1. cur[e] \in Rows /\ handed[cur[e]] > 0 /\ cur'[e] = cur[e]
            BY <2>4, <2>5
        <3>2. QED
            BY <2>2, <3>1
    <2>6. cur'[d] = r
        BY <2>1
    <2>7. QED
        BY <2>3, <2>5, <2>6
<1>2. ASSUME handed' = handed,
             \A d \in Dispatchers :
                phase'[d] = "publishing" => phase[d] = "publishing" /\ cur'[d] = cur[d]
      PROVE  PublishingWasHanded'
    BY <1>2
<1>3. ASSUME NEW d \in Dispatchers,
             BrokerOffline(d) \/ BrokerAck(d) \/ BrokerNack(d) \/ MarkError(d) \/ Abandon(d)
      PROVE  PublishingWasHanded'
    BY <1>2, <1>3 DEF BrokerOffline, BrokerAck, BrokerNack, MarkError, Abandon, FinishRow
<1>4. ASSUME NEW d \in Dispatchers, MarkPublished(d) \/ MarkRetry(d) \/ MarkFailed(d)
      PROVE  PublishingWasHanded'
    BY <1>2, <1>4 DEF MarkPublished, MarkRetry, MarkFailed, FinishRow
<1>5. ASSUME handed' = handed, phase' = phase, cur' = cur PROVE PublishingWasHanded'
    BY <1>5
<1>6. ASSUME \/ UNCHANGED vars \/ Tick \/ \E r \in Rows : Append(r) \/ Arrive(r)
             \/ \E d \in Dispatchers : Claim(d) \/ Sweep(d)
      PROVE  handed' = handed /\ phase' = phase /\ cur' = cur
    BY <1>6 DEF vars, Tick, Append, Arrive, Claim, Sweep
<1>7. QED
    BY <1>1, <1>3, <1>4, <1>5, <1>6 DEF Next

\* What a dispatcher knows stays true whatever the others do meanwhile, and each
\* verdict it writes follows from what it knows.
LEMMA AnyTimingStep == AnyTimingInv /\ [Next]_vars => AnyTimingInv'
<1> SUFFICES ASSUME AnyTimingInv, [Next]_vars PROVE AnyTimingInv'
    OBVIOUS
<1> DEFINE Verdicts == /\ AckedWasAccepted
                       /\ PublishedWasAccepted
                       /\ SeenIsNotAhead
                       /\ FailedOnlyWhenExhausted
<1>1. TypeOK' /\ LeaseOnlyInFlight'
    BY TypeStep, LeaseStep DEF AnyTimingInv
<1> USE <1>1, OutboxAssumption
    DEF AnyTimingInv, TypeOK, AckedWasAccepted, PublishedWasAccepted, SeenIsNotAhead,
        FailedOnlyWhenExhausted, rowVars, dispVars
<1>a. PublishingWasHanded'
    BY HandedStep
<1>2. ASSUME NEW r \in Rows, Append(r) PROVE Verdicts'
    BY <1>2 DEF Append
<1>3. ASSUME NEW d \in Dispatchers, Claim(d) PROVE Verdicts'
    <2>1. SeenIsNotAhead'
        BY <1>3 DEF Claim
    <2>2. AckedWasAccepted' /\ PublishedWasAccepted' /\ FailedOnlyWhenExhausted'
        BY <1>3 DEF Claim
    <2>3. QED
        BY <2>1, <2>2
<1>4. ASSUME NEW d \in Dispatchers, Publish(d) \/ BrokerOffline(d) PROVE Verdicts'
    <2>1. /\ UNCHANGED <<rowVars, accepted, batch, seen>>
          /\ \A e \in Dispatchers : phase'[e] = "acked" => phase[e] = "acked" /\ cur'[e] = cur[e]
        BY <1>4 DEF Publish, BrokerOffline
    <2>2. QED
        BY <2>1
<1>5. ASSUME NEW d \in Dispatchers, BrokerAck(d) \/ BrokerNack(d) PROVE Verdicts'
    BY <1>5 DEF BrokerAck, BrokerNack
<1>6. ASSUME NEW d \in Dispatchers, MarkPublished(d) PROVE Verdicts'
    BY <1>6 DEF MarkPublished, FinishRow
<1>7. ASSUME NEW d \in Dispatchers, MarkRetry(d) PROVE Verdicts'
    BY <1>7, SMTT(30) DEF MarkRetry, FinishRow
<1>8. ASSUME NEW d \in Dispatchers, MarkFailed(d) PROVE Verdicts'
    <2>. cur[d] \in batch[d] /\ cur[d] \in Rows
        BY <1>8 DEF MarkFailed
    <2>1. attempts[cur[d]] + 1 >= MaxAttempts
        <3>1. seen[d][cur[d]] <= attempts[cur[d]]
            OBVIOUS
        <3>2. seen[d][cur[d]] \in Nat /\ attempts[cur[d]] \in Nat
            OBVIOUS
        <3>3. seen[d][cur[d]] + 1 >= MaxAttempts
            BY <1>8 DEF MarkFailed, IsTerminal
        <3>4. QED
            BY <3>1, <3>2, <3>3
    <2>2. FailedOnlyWhenExhausted'
        BY <1>8, <2>1 DEF MarkFailed, FinishRow
    <2>3. SeenIsNotAhead'
        BY <1>8, <2>1 DEF MarkFailed, FinishRow
    <2>4. AckedWasAccepted' /\ PublishedWasAccepted'
        BY <1>8 DEF MarkFailed, FinishRow
    <2>5. QED
        BY <2>2, <2>3, <2>4
<1>9. ASSUME NEW d \in Dispatchers, MarkError(d) \/ Abandon(d) PROVE Verdicts'
    <2>1. UNCHANGED <<rowVars, accepted, seen>>
        BY <1>9 DEF MarkError, Abandon
    <2>2. \A e \in Dispatchers :
            /\ batch'[e] \subseteq batch[e]
            /\ phase'[e] = "acked" => phase[e] = "acked" /\ cur'[e] = cur[e]
        BY <1>9 DEF MarkError, Abandon, FinishRow
    <2>3. QED
        BY <2>1, <2>2
<1>10. ASSUME NEW d \in Dispatchers, Sweep(d) PROVE Verdicts'
    BY <1>10 DEF Sweep
<1>11. ASSUME Tick \/ \E r \in Rows : Arrive(r) PROVE Verdicts'
    BY <1>11 DEF Tick, Arrive
<1>12. ASSUME UNCHANGED vars PROVE Verdicts'
    BY <1>12 DEF vars
<1>13. QED
    BY <1>a, <1>2, <1>3, <1>4, <1>5, <1>6, <1>7, <1>8, <1>9, <1>10, <1>11, <1>12 DEF Next

LEMMA AnyTimingCorrect == Spec => []AnyTimingInv
<1>1. QED
    BY AnyTimingInit, AnyTimingStep, PTL DEF Spec

\* The lease columns and the status column never drift apart.
THEOREM LeaseConsistent == Spec => []LeaseOnlyInFlight
<1>1. AnyTimingInv => LeaseOnlyInFlight
    BY DEF AnyTimingInv
<1>2. QED
    BY <1>1, AnyTimingCorrect, PTL

\* At-least-once: a row is written off as published only after the broker took it.
THEOREM AtLeastOnce == Spec => []PublishedWasAccepted
<1>1. AnyTimingInv => PublishedWasAccepted
    BY DEF AnyTimingInv
<1>2. QED
    BY <1>1, AnyTimingCorrect, PTL

\* A row is given up only when its attempts are exhausted.
THEOREM NoEarlyFailure == Spec => []FailedOnlyWhenExhausted
<1>1. AnyTimingInv => FailedOnlyWhenExhausted
    BY DEF AnyTimingInv
<1>2. QED
    BY <1>1, AnyTimingCorrect, PTL

-----------------------------------------------------------------------------
(* Safety when leases outlast batches. The heart is LeaseOutlastsBatch: time  *)
(* takes as much from a lease as from what its dispatcher has left to do, and *)
(* every call that returns early only widens the margin. So a held row cannot *)
(* be swept, and nobody but its holder touches it.                            *)

\* Setting one row's work aside takes one RowTicks off the work left.
LEMMA TakeRow ==
    ASSUME NEW S \in SUBSET Rows, NEW x \in S
    PROVE  /\ Cardinality(S) \in Nat
           /\ Cardinality(S \ {x}) \in Nat
           /\ RowTicks \in Nat
           /\ Cardinality(S) * RowTicks = Cardinality(S \ {x}) * RowTicks + RowTicks
<1>1. IsFiniteSet(S)
    BY FS_Subset, OutboxAssumption
<1>2. Cardinality(S) \in Nat /\ Cardinality(S \ {x}) \in Nat
    BY <1>1, FS_CardinalityType, FS_RemoveElement
<1>3. Cardinality(S) = Cardinality(S \ {x}) + 1
    <2>1. Cardinality(S \ {x}) = Cardinality(S) - 1
        BY <1>1, FS_RemoveElement
    <2>2. QED
        BY <1>2, <2>1
<1>4. RowTicks \in Nat
    BY OutboxAssumption DEF RowTicks
<1>5. \A n, c \in Nat : (n + 1) * c = n * c + c
    BY Z3
<1>6. QED
    BY <1>2, <1>3, <1>4, <1>5

\* The work of a batch is at most the work of BatchSize rows.
LEMMA BatchWork ==
    ASSUME NEW S \in SUBSET Rows, Cardinality(S) <= BatchSize
    PROVE  /\ Cardinality(S) * RowTicks \in Nat
           /\ Cardinality(S) * RowTicks <= BatchSize * RowTicks
<1>1. Cardinality(S) \in Nat
    BY FS_Subset, FS_CardinalityType, OutboxAssumption
<1>2. RowTicks \in Nat /\ BatchSize \in Nat
    BY OutboxAssumption DEF RowTicks
<1>3. \A m, n, c \in Nat : m <= n => m * c \in Nat /\ m * c <= n * c
    OBVIOUS
<1>4. QED
    BY <1>1, <1>2, <1>3

\* The work left over the remaining rows is a number of ticks.
LEMMA TimeLeftNat ==
    ASSUME TypeOK, NEW d \in Dispatchers
    PROVE  /\ TimeLeft(d) \in Nat
           /\ RowsLeft(d) * RowTicks \in Nat
<1>1. RowsLeft(d) \in Nat
    <2>1. batch[d] \ {cur[d]} \in SUBSET Rows
        BY DEF TypeOK
    <2>2. QED
        BY <2>1, FS_Subset, FS_CardinalityType, OutboxAssumption DEF RowsLeft
<1>2. RowTicks \in Nat /\ DbTicks \in Nat /\ budget[d] \in Nat
    BY OutboxAssumption DEF RowTicks, TypeOK
<1>3. \A m, n \in Nat : m * n \in Nat
    OBVIOUS
<1>4. RowsLeft(d) * RowTicks \in Nat
    BY <1>1, <1>2, <1>3
<1> HIDE DEF RowsLeft, RowTicks
<1>5. QED
    BY <1>2, <1>4 DEF TimeLeft

\* A dispatcher that holds a row judges by the row's own counter.
SeenIsCurrent ==
    \A d \in Dispatchers : \A r \in batch[d] : seen[d][r] = attempts[r]

\* A row that is not settled has attempts to spare.
AttemptsToSpare ==
    \A r \in Rows : ~Settled(r) => attempts[r] < MaxAttempts

HoldersInv ==
    /\ AnyTimingInv
    /\ LeaseOutlastsBatch
    /\ Exclusive
    /\ SeenIsCurrent
    /\ AttemptsToSpare

LEMMA HoldersInit == Init => HoldersInv
<1> SUFFICES ASSUME Init PROVE HoldersInv
    OBVIOUS
<1>1. AnyTimingInv
    BY AnyTimingInit
<1>2. QED
    BY <1>1, OutboxAssumption
    DEF Init, HoldersInv, LeaseOutlastsBatch, Exclusive, SeenIsCurrent, AttemptsToSpare, Settled

\* Under LongLease a lease outlasts the batch it was taken for, at every step.
LEMMA LeaseOutlastsStep ==
    LongLease /\ HoldersInv /\ [Next]_vars => LeaseOutlastsBatch'
<1> SUFFICES ASSUME LongLease, HoldersInv, [Next]_vars,
                    NEW d \in Dispatchers, NEW r \in batch'[d]
             PROVE  status'[r] = "in_flight" /\ lease'[r] > TimeLeft(d)'
    BY DEF LeaseOutlastsBatch
<1>1. TypeOK /\ TypeOK' /\ r \in Rows
    BY TypeStep DEF HoldersInv, AnyTimingInv, TypeOK
<1>2. /\ TimeLeft(d) \in Nat /\ RowsLeft(d) * RowTicks \in Nat
      /\ TimeLeft(d)' \in Nat /\ RowsLeft(d)' * RowTicks \in Nat
    <2>1. TimeLeft(d) \in Nat /\ RowsLeft(d) * RowTicks \in Nat
        BY <1>1, TimeLeftNat
    <2>2. IsFiniteSet(batch'[d] \ {cur'[d]})
        BY <1>1, FS_Subset, OutboxAssumption DEF TypeOK
    <2>3. Cardinality(batch'[d] \ {cur'[d]}) \in Nat
        BY <2>2, FS_CardinalityType
    <2>4. RowTicks \in Nat /\ DbTicks \in Nat /\ budget'[d] \in Nat
        BY <1>1, OutboxAssumption DEF RowTicks, TypeOK
    <2>5. \A m, n \in Nat : m * n \in Nat
        OBVIOUS
    <2>6. RowsLeft(d)' * RowTicks \in Nat
        BY <2>3, <2>4, <2>5 DEF RowsLeft
    <2> HIDE DEF RowsLeft, RowTicks
    <2>7. QED
        BY <2>1, <2>4, <2>6 DEF TimeLeft
<1>3. r \in batch[d] => status[r] = "in_flight" /\ lease[r] > TimeLeft(d)
    BY DEF HoldersInv, LeaseOutlastsBatch
<1>4. \A e \in Dispatchers : e # d /\ r \in batch[d] => r \notin batch[e]
    BY DEF HoldersInv, Exclusive
<1>5. /\ budget \in [Dispatchers -> Nat] /\ lease \in [Rows -> Nat \cup {NoLease}]
      /\ DbTicks \in Nat /\ PublishTicks \in Nat /\ RowTicks = PublishTicks + DbTicks
      /\ cur[d] \in batch[d] \/ (phase[d] = "loop" /\ cur[d] = NoRow /\ batch[d] \ {cur[d]} = batch[d])
    BY <1>1, OutboxAssumption DEF TypeOK, RowTicks
<1> DEFINE Work == RowsLeft(d) * RowTicks
           Unmoved == /\ batch'[d] = batch[d] /\ cur'[d] = cur[d]
                      /\ phase'[d] = phase[d] /\ budget'[d] = budget[d]
                      /\ status'[r] = status[r] /\ lease'[r] = lease[r]
\* A held row is safe as long as its lease stays and the work left does not grow.
<1>a. ASSUME r \in batch[d], status'[r] = status[r], lease'[r] = lease[r],
             TimeLeft(d)' <= TimeLeft(d)
      PROVE  status'[r] = "in_flight" /\ lease'[r] > TimeLeft(d)'
    <2>1. lease[r] > TimeLeft(d) /\ lease[r] \in Int /\ status[r] = "in_flight"
        BY <1>1, <1>3, <1>5, <1>a DEF NoLease
    <2>2. QED
        BY <1>2, <1>a, <2>1
\* What others do leaves the dispatcher and the rows it holds alone.
<1>6. ASSUME Unmoved PROVE status'[r] = "in_flight" /\ lease'[r] > TimeLeft(d)'
    BY <1>3, <1>6 DEF TimeLeft, RowsLeft
<1>7. ASSUME NEW x \in Rows, Append(x) PROVE Unmoved
    BY <1>1, <1>3, <1>7 DEF Append, dispVars, TypeOK
<1>b. ASSUME NEW x \in Rows, Arrive(x) PROVE Unmoved
    BY <1>b DEF Arrive, rowVars, dispVars
<1>8. CASE UNCHANGED vars
    BY <1>6, <1>8 DEF vars, rowVars, dispVars
<1>9. CASE Tick
    <2>1. /\ budget[d] > 0 /\ budget'[d] = budget[d] - 1
          /\ batch' = batch /\ cur' = cur /\ phase' = phase /\ status' = status
        BY <1>5, <1>9 DEF Tick, Countdown
    <2>2. TimeLeft(d)' = TimeLeft(d) - 1
        <3>1. Work \in Nat /\ RowsLeft(d)' = RowsLeft(d)
            BY <1>2, <2>1 DEF RowsLeft
        <3> HIDE DEF RowsLeft, RowTicks
        <3>2. QED
            BY <1>5, <2>1, <3>1 DEF TimeLeft
    <2>3. lease[r] > TimeLeft(d) /\ lease'[r] = lease[r] - 1
        BY <1>1, <1>2, <1>3, <1>5, <1>9, <2>1 DEF Tick, Countdown, NoLease
    <2>4. QED
        BY <1>1, <1>2, <1>3, <1>5, <2>1, <2>2, <2>3 DEF NoLease
<1>10. ASSUME NEW e \in Dispatchers,
              \/ Claim(e) \/ Publish(e) \/ BrokerOffline(e) \/ BrokerAck(e) \/ BrokerNack(e)
              \/ Mark(e) \/ MarkError(e) \/ Abandon(e) \/ Sweep(e)
       PROVE  status'[r] = "in_flight" /\ lease'[r] > TimeLeft(d)'
    <2>1. CASE Sweep(e)
        <3>1. r \in batch[d]
            BY <2>1 DEF Sweep, dispVars
        <3>2. lease[r] # 0
            BY <1>2, <1>3, <3>1, <1>1 DEF TypeOK, NoLease
        <3>3. Unmoved
            BY <1>1, <2>1, <3>2 DEF Sweep, Expired, dispVars, TypeOK
        <3>4. QED
            BY <1>6, <3>3
    <2>2. CASE Claim(e) /\ e # d
        <3>1. r \in batch[d] /\ r \notin Due
            BY <1>1, <1>3, <2>2 DEF Claim, Due, TypeOK
        <3>2. Unmoved
            BY <1>1, <2>2, <3>1 DEF Claim, TypeOK
        <3>3. QED
            BY <1>6, <3>2
    <2>3. CASE Claim(e) /\ e = d
        <3>1. PICK S \in SUBSET Due :
                /\ Cardinality(S) <= BatchSize
                /\ status' = [x \in Rows |-> IF x \in S THEN "in_flight" ELSE status[x]]
                /\ lease' = [x \in Rows |-> IF x \in S THEN LeaseTicks ELSE lease[x]]
                /\ batch' = [batch EXCEPT ![d] = S]
            BY <2>3 DEF Claim
        <3>2. batch'[d] = S /\ phase'[d] = "loop" /\ cur'[d] = NoRow /\ budget'[d] = DbTicks
            BY <1>1, <2>3, <3>1 DEF Claim, Idle, TypeOK
        <3>3. S \in SUBSET Rows /\ S \ {NoRow} = S
            BY OutboxAssumption DEF Due
        <3>4. RowsLeft(d)' * RowTicks <= BatchSize * RowTicks
            BY <3>1, <3>2, <3>3, BatchWork DEF RowsLeft
        <3>5. TimeLeft(d)' = DbTicks + RowsLeft(d)' * RowTicks
            <4> HIDE DEF RowsLeft, RowTicks
            <4>1. QED
                BY <1>2, <1>5, <3>2 DEF TimeLeft
        <3>6. LeaseTicks > TimeLeft(d)'
            <4>1. BatchSize * RowTicks \in Nat
                BY OutboxAssumption, <1>5
            <4>2. LeaseTicks > DbTicks + BatchSize * RowTicks
                BY DEF LongLease
            <4> HIDE DEF RowsLeft, RowTicks
            <4>3. QED
                BY <1>2, <1>5, <3>4, <3>5, <4>1, <4>2, OutboxAssumption
        <3>7. QED
            BY <1>1, <3>1, <3>2, <3>6
    <2>4. CASE (Publish(e) \/ BrokerOffline(e)) /\ e = d
        <3>1. PICK x \in batch[d] : cur' = [cur EXCEPT ![d] = x]
            BY <2>4 DEF Publish, BrokerOffline
        <3>2. /\ batch' = batch /\ cur'[d] = x /\ status' = status /\ lease' = lease
              /\ \/ phase'[d] = "publishing" /\ budget'[d] = PublishTicks
                 \/ phase'[d] = "nacked" /\ budget'[d] = DbTicks
              /\ phase[d] = "loop" /\ batch[d] \ {cur[d]} = batch[d]
            BY <1>1, <1>5, <2>4, <3>1, OutboxAssumption DEF Publish, BrokerOffline, TypeOK, rowVars
        <3>3. RowsLeft(d) * RowTicks = RowsLeft(d)' * RowTicks + RowTicks
            <4>1. batch[d] \in SUBSET Rows
                BY <1>1 DEF TypeOK
            <4>2. QED
                BY <3>1, <3>2, <4>1, TakeRow DEF RowsLeft
        <3>4. TimeLeft(d)' <= TimeLeft(d)
            <4>1. TimeLeft(d) = budget[d] + Work
                BY <1>2, <1>5, <3>2 DEF TimeLeft
            <4>2. \/ TimeLeft(d)' = PublishTicks + DbTicks + RowsLeft(d)' * RowTicks
                  \/ TimeLeft(d)' = DbTicks + 0 + RowsLeft(d)' * RowTicks
                BY <3>2 DEF TimeLeft
            <4> HIDE DEF RowsLeft
            <4>3. QED
                BY <1>2, <1>5, <3>3, <4>1, <4>2
        <3>5. QED
            BY <1>a, <3>2, <3>4
    <2>5. CASE (BrokerAck(e) \/ BrokerNack(e)) /\ e = d
        <3>1. /\ batch' = batch /\ cur' = cur /\ status' = status /\ lease' = lease
              /\ phase[d] = "publishing" /\ phase'[d] \in {"acked", "nacked"}
              /\ budget'[d] = DbTicks
            BY <1>1, <2>5 DEF BrokerAck, BrokerNack, rowVars, TypeOK
        <3>2. RowsLeft(d)' = RowsLeft(d)
            BY <3>1 DEF RowsLeft
        <3>3. TimeLeft(d)' <= TimeLeft(d)
            <4> HIDE DEF RowsLeft, RowTicks
            <4>1. TimeLeft(d) = budget[d] + DbTicks + RowsLeft(d) * RowTicks
                BY <3>1 DEF TimeLeft
            <4>2. TimeLeft(d)' = DbTicks + 0 + RowsLeft(d) * RowTicks
                BY <3>1, <3>2 DEF TimeLeft
            <4>3. QED
                BY <1>2, <1>5, <4>1, <4>2
        <3>4. QED
            BY <1>a, <3>1, <3>3
    <2>6. CASE (Mark(e) \/ MarkError(e)) /\ e = d
        <3>1. /\ batch'[d] = batch[d] \ {cur[d]} /\ cur'[d] = NoRow /\ budget'[d] = 0
              /\ phase[d] \in {"acked", "nacked"} /\ phase'[d] = "loop"
              /\ \A x \in Rows : x # cur[d] => status'[x] = status[x] /\ lease'[x] = lease[x]
            BY <1>1, <2>6 DEF Mark, MarkPublished, MarkRetry, MarkFailed, MarkError,
                              FinishRow, rowVars, TypeOK
        <3>2. batch'[d] \ {cur'[d]} = batch[d] \ {cur[d]}
            BY <1>1, <3>1, OutboxAssumption DEF TypeOK
        <3>3. TimeLeft(d)' <= TimeLeft(d)
            <4>1. TimeLeft(d) = budget[d] + 0 + Work
                BY <3>1 DEF TimeLeft
            <4>2. TimeLeft(d)' = 0 + 0 + Work
                BY <3>1, <3>2 DEF TimeLeft, RowsLeft
            <4> HIDE DEF RowsLeft, RowTicks
            <4>3. QED
                BY <1>2, <1>5, <4>1, <4>2
        <3>4. r \in batch[d] /\ status'[r] = status[r] /\ lease'[r] = lease[r]
            BY <1>1, <3>1
        <3>5. QED
            BY <1>a, <3>3, <3>4
    <2>7. CASE Abandon(e) /\ e = d
        BY <1>1, <2>7 DEF Abandon, TypeOK
    <2>8. CASE /\ e # d
               /\ \/ Publish(e) \/ BrokerOffline(e) \/ BrokerAck(e) \/ BrokerNack(e)
                  \/ Mark(e) \/ MarkError(e) \/ Abandon(e)
        <3>1. r \in batch[d] /\ batch'[d] = batch[d]
            BY <1>1, <2>8 DEF Publish, BrokerOffline, BrokerAck, BrokerNack, Mark, MarkPublished,
                              MarkRetry, MarkFailed, MarkError, Abandon, FinishRow, TypeOK
        <3>2. phase[e] # "loop" => r # cur[e]
            BY <1>1, <1>4, <2>8, <3>1 DEF TypeOK
        <3>3. Unmoved
            BY <1>1, <2>8, <3>1, <3>2 DEF Publish, BrokerOffline, BrokerAck, BrokerNack, Mark, MarkPublished,
               MarkRetry, MarkFailed, MarkError, Abandon, FinishRow, rowVars, TypeOK
        <3>4. QED
            BY <1>6, <3>3
    <2>9. QED
        BY <1>10, <2>1, <2>2, <2>3, <2>4, <2>5, <2>6, <2>7, <2>8
<1>11. QED
    BY <1>6, <1>7, <1>b, <1>8, <1>9, <1>10 DEF Next, Mark

\* Only due rows are claimed, and a held row is in flight: nobody claims it too.
LEMMA ExclusiveStep == HoldersInv /\ [Next]_vars => Exclusive'
<1> SUFFICES ASSUME HoldersInv, [Next]_vars PROVE Exclusive'
    OBVIOUS
<1>1. TypeOK /\ Exclusive /\ LeaseOutlastsBatch
    BY DEF HoldersInv, AnyTimingInv
<1>2. ASSUME NEW c \in Dispatchers, Claim(c) PROVE Exclusive'
    <2>1. \A e \in Dispatchers : batch[e] \cap Due = {}
        BY <1>1 DEF LeaseOutlastsBatch, Due
    <2>2. /\ \A e \in Dispatchers : e # c => batch'[e] = batch[e]
          /\ batch'[c] \subseteq Due
        BY <1>1, <1>2 DEF Claim, TypeOK
    <2>3. QED
        BY <1>1, <2>1, <2>2 DEF Exclusive
<1>3. ASSUME \A e \in Dispatchers : batch'[e] \subseteq batch[e] PROVE Exclusive'
    BY <1>1, <1>3 DEF Exclusive
<1>4. ASSUME NEW c \in Dispatchers, Mark(c) \/ MarkError(c) \/ Abandon(c) PROVE Exclusive'
    <2>1. \A e \in Dispatchers : batch'[e] \subseteq batch[e]
        BY <1>1, <1>4 DEF Mark, MarkPublished, MarkRetry, MarkFailed, MarkError, Abandon,
                          FinishRow, TypeOK
    <2>2. QED
        BY <1>3, <2>1
<1>5. ASSUME batch' = batch PROVE Exclusive'
    BY <1>1, <1>5 DEF Exclusive
<1>6. ASSUME NEW c \in Dispatchers,
             \/ Publish(c) \/ BrokerOffline(c) \/ BrokerAck(c) \/ BrokerNack(c) \/ Sweep(c)
      PROVE  batch' = batch
    BY <1>6 DEF Publish, BrokerOffline, BrokerAck, BrokerNack, Sweep, dispVars
<1>7. ASSUME \/ UNCHANGED vars \/ Tick \/ \E r \in Rows : Append(r) \/ Arrive(r)
      PROVE  batch' = batch
    BY <1>7 DEF vars, dispVars, Tick, Append, Arrive
<1>8. QED
    BY <1>2, <1>4, <1>5, <1>6, <1>7 DEF Next, Mark

\* Only the holder of a row counts attempts against it.
LEMMA AttemptsStep ==
    HoldersInv /\ [Next]_vars => SeenIsCurrent' /\ AttemptsToSpare'
<1> SUFFICES ASSUME HoldersInv, [Next]_vars PROVE SeenIsCurrent' /\ AttemptsToSpare'
    OBVIOUS
<1> USE OutboxAssumption DEF TypeOK, SeenIsCurrent, AttemptsToSpare, Settled, Statuses,
                             rowVars, dispVars
<1>1. /\ TypeOK /\ TypeOK' /\ Exclusive /\ SeenIsCurrent /\ AttemptsToSpare
      /\ \A d \in Dispatchers : \A r \in batch[d] : status[r] = "in_flight"
    BY TypeStep DEF HoldersInv, AnyTimingInv, LeaseOutlastsBatch
<1>2. ASSUME NEW r \in Rows, Append(r) PROVE SeenIsCurrent' /\ AttemptsToSpare'
    BY <1>1, <1>2 DEF Append
<1>3. ASSUME NEW d \in Dispatchers, Claim(d) PROVE SeenIsCurrent' /\ AttemptsToSpare'
    <2>1. SeenIsCurrent'
        BY <1>1, <1>3 DEF Claim
    <2>2. AttemptsToSpare'
        BY <1>1, <1>3 DEF Claim, Due
    <2>3. QED
        BY <2>1, <2>2
<1>4. ASSUME NEW d \in Dispatchers,
             Publish(d) \/ BrokerOffline(d) \/ BrokerAck(d) \/ BrokerNack(d)
      PROVE  SeenIsCurrent' /\ AttemptsToSpare'
    BY <1>1, <1>4 DEF Publish, BrokerOffline, BrokerAck, BrokerNack
<1>5. ASSUME NEW d \in Dispatchers, MarkPublished(d) PROVE SeenIsCurrent' /\ AttemptsToSpare'
    BY <1>1, <1>5 DEF MarkPublished, FinishRow
<1>6. ASSUME NEW d \in Dispatchers, MarkRetry(d) \/ MarkFailed(d)
      PROVE  SeenIsCurrent' /\ AttemptsToSpare'
    <2>1. cur[d] \in batch[d] /\ cur[d] \in Rows /\ seen[d][cur[d]] = attempts[cur[d]]
        BY <1>1, <1>6 DEF MarkRetry, MarkFailed
    <2>2. \A e \in Dispatchers : \A r \in batch'[e] : r \in batch[e] /\ r # cur[d]
        <3>1. batch' = [batch EXCEPT ![d] = @ \ {cur[d]}]
            BY <1>6 DEF MarkRetry, MarkFailed, FinishRow
        <3>2. \A e \in Dispatchers : e # d => cur[d] \notin batch[e]
            BY <1>1, <2>1 DEF Exclusive
        <3>3. QED
            BY <1>1, <3>1, <3>2
    <2>3. /\ seen' = seen
          /\ \A r \in Rows : r # cur[d] => attempts'[r] = attempts[r] /\ status'[r] = status[r]
        BY <1>1, <1>6 DEF MarkRetry, MarkFailed
    <2>4. SeenIsCurrent'
        BY <1>1, <2>2, <2>3
    <2>5. status'[cur[d]] # "failed" => attempts'[cur[d]] < MaxAttempts
        <3>1. ASSUME MarkRetry(d) PROVE attempts'[cur[d]] < MaxAttempts
            <4>1. ~(attempts[cur[d]] + 1 >= MaxAttempts)
                BY <2>1, <3>1 DEF MarkRetry, IsTerminal
            <4>2. attempts'[cur[d]] = attempts[cur[d]] + 1 /\ attempts[cur[d]] \in Nat
                BY <1>1, <2>1, <3>1 DEF MarkRetry
            <4>3. QED
                BY <4>1, <4>2
        <3>2. ASSUME MarkFailed(d) PROVE status'[cur[d]] = "failed"
            BY <1>1, <2>1, <3>2 DEF MarkFailed
        <3>3. QED
            BY <1>6, <3>1, <3>2
    <2>6. AttemptsToSpare'
        BY <1>1, <2>3, <2>5
    <2>7. QED
        BY <2>4, <2>6
<1>7. ASSUME NEW d \in Dispatchers, MarkError(d) \/ Abandon(d)
      PROVE  SeenIsCurrent' /\ AttemptsToSpare'
    <2>1. UNCHANGED <<rowVars, seen>>
        BY <1>7 DEF MarkError, Abandon
    <2>2. \A e \in Dispatchers : batch'[e] \subseteq batch[e]
        BY <1>1, <1>7 DEF MarkError, Abandon, FinishRow
    <2>3. QED
        BY <1>1, <2>1, <2>2
<1>8. ASSUME NEW d \in Dispatchers, Sweep(d) PROVE SeenIsCurrent' /\ AttemptsToSpare'
    BY <1>1, <1>8 DEF Sweep, Expired
<1>9. ASSUME Tick PROVE SeenIsCurrent' /\ AttemptsToSpare'
    BY <1>1, <1>9 DEF Tick
<1>10. ASSUME UNCHANGED vars \/ \E r \in Rows : Arrive(r)
       PROVE  SeenIsCurrent' /\ AttemptsToSpare'
    BY <1>1, <1>10 DEF vars, Arrive
<1>11. QED
    BY <1>2, <1>3, <1>4, <1>5, <1>6, <1>7, <1>8, <1>9, <1>10 DEF Next

LEMMA HoldersCorrect == ASSUME LongLease PROVE Spec => []HoldersInv
<1>1. HoldersInv /\ [Next]_vars => HoldersInv'
    BY AnyTimingStep, LeaseOutlastsStep, ExclusiveStep, AttemptsStep, LongLease
    DEF HoldersInv
<1>2. QED
    BY <1>1, HoldersInit, PTL DEF Spec

\* With leases longer than a whole batch takes, no row is ever in two hands.
THEOREM NoRowInTwoHands == ASSUME LongLease PROVE Spec => []Exclusive
<1>1. HoldersInv => Exclusive
    BY DEF HoldersInv
<1>2. QED
    BY <1>1, HoldersCorrect, LongLease, PTL

\* The margin that makes it so: every held row's lease outlasts the batch.
THEOREM LeaseIsLongEnough == ASSUME LongLease PROVE Spec => []LeaseOutlastsBatch
<1>1. HoldersInv => LeaseOutlastsBatch
    BY DEF HoldersInv
<1>2. QED
    BY <1>1, HoldersCorrect, LongLease, PTL


-----------------------------------------------------------------------------
(* Under LongLease the outbox keeps its contract.                            *)

LEMMA StandingOf ==
    /\ Standing["absent"] = "unknown"
    /\ Standing["pending"] = "owed"
    /\ Standing["in_flight"] = "owed"
    /\ Standing["published"] = "delivered"
    /\ Standing["failed"] = "abandoned"
    BY DEF Standing

\* A write to one row's status is a write to one event's standing.
LEMMA StandingUpdate ==
    TypeOK => \A r \in Rows : \A to \in Statuses :
        status' = [status EXCEPT ![r] = to]
            => [x \in Rows |-> Standing[status[x]]]'
               = [[x \in Rows |-> Standing[status[x]]] EXCEPT ![r] = Standing[to]]
    BY DEF TypeOK

LEMMA StandingKept ==
    ASSUME TypeOK, TypeOK',
           \A r \in Rows : Standing[status'[r]] = Standing[status[r]],
           attempts' = attempts, handed' = handed, accepted' = accepted
    PROVE  UNCHANGED Contract!contractVars
<1>1. [x \in Rows |-> Standing[status[x]]]' = [x \in Rows |-> Standing[status[x]]]
    OBVIOUS
<1>2. QED
    BY <1>1 DEF Contract!contractVars

\* Every step of the outbox is a step of the contract or changes nothing in it.
LEMMA ContractStep ==
    HoldersInv /\ [Next]_vars => [Contract!Next]_(Contract!contractVars)
<1> SUFFICES ASSUME HoldersInv, [Next]_vars
             PROVE  Contract!Next \/ UNCHANGED Contract!contractVars
    OBVIOUS
<1>1. /\ TypeOK /\ TypeOK' /\ PublishingWasHanded /\ AckedWasAccepted
      /\ SeenIsCurrent /\ AttemptsToSpare
      /\ \A d \in Dispatchers : \A r \in batch[d] : status[r] = "in_flight"
    BY TypeStep DEF HoldersInv, AnyTimingInv, LeaseOutlastsBatch
<1>2. ASSUME status' = status, attempts' = attempts, handed' = handed, accepted' = accepted
      PROVE  UNCHANGED Contract!contractVars
    BY <1>1, <1>2, StandingKept
<1>3. ASSUME NEW r \in Rows, Append(r) PROVE Contract!Promise(r)
    <2>1. status[r] = "absent" /\ status' = [status EXCEPT ![r] = "pending"]
          /\ attempts' = attempts /\ handed' = handed /\ accepted' = accepted
        BY <1>3 DEF Append
    <2>2. [x \in Rows |-> Standing[status[x]]]'
          = [[x \in Rows |-> Standing[status[x]]] EXCEPT ![r] = "owed"]
        BY <1>1, <2>1, StandingUpdate, StandingOf DEF Statuses
    <2>3. [x \in Rows |-> Standing[status[x]]][r] = "unknown"
        BY <2>1, StandingOf
    <2>4. QED
        BY <2>1, <2>2, <2>3 DEF Contract!Promise
<1>4. ASSUME NEW d \in Dispatchers, Claim(d) PROVE UNCHANGED Contract!contractVars
    <2>1. \A r \in Rows : \/ status'[r] = status[r]
                          \/ status[r] = "pending" /\ status'[r] = "in_flight"
        BY <1>1, <1>4 DEF Claim, Due
    <2>2. attempts' = attempts /\ handed' = handed /\ accepted' = accepted
        BY <1>4 DEF Claim
    <2>3. QED
        BY <1>1, <2>1, <2>2, StandingOf, StandingKept
<1>5. ASSUME NEW d \in Dispatchers, BrokerAck(d)
      PROVE  Contract!Next
    <2>1. PICK x \in Rows : x = cur[d] /\ handed[x] > 0
        BY <1>1, <1>5 DEF BrokerAck, PublishingWasHanded, TypeOK
    <2>2. /\ status' = status /\ attempts' = attempts /\ handed' = handed
          /\ accepted' = accepted \cup {x}
        BY <1>5, <2>1 DEF BrokerAck, rowVars
    <2>3. Contract!Transmit(x)
        BY <2>1, <2>2 DEF Contract!Transmit
    <2>4. QED
        BY <2>1, <2>3 DEF Contract!Next
<1>a. ASSUME NEW x \in Rows, Arrive(x) PROVE Contract!Transmit(x)
    BY <1>a DEF Arrive, Contract!Transmit, rowVars
<1>b. ASSUME NEW d \in Dispatchers, Publish(d) PROVE Contract!Next
    <2>1. PICK x \in batch[d] : handed' = [handed EXCEPT ![x] = @ + 1]
        BY <1>b DEF Publish
    <2>2. x \in Rows /\ Standing[status[x]] = "owed"
        BY <1>1, <2>1, StandingOf DEF TypeOK
    <2>3. status' = status /\ attempts' = attempts /\ accepted' = accepted
        BY <1>b DEF Publish, rowVars
    <2>4. Contract!Send(x)
        BY <2>1, <2>2, <2>3 DEF Contract!Send
    <2>5. QED
        BY <2>2, <2>4 DEF Contract!Next
<1>6. ASSUME NEW d \in Dispatchers, Mark(d)
      PROVE  Contract!Next
    <2>0. PICK x \in Rows : x = cur[d] /\ x \in batch[d]
        BY <1>1, <1>6 DEF Mark, MarkPublished, MarkRetry, MarkFailed, TypeOK
    <2>1. /\ Standing[status[x]] = "owed"
          /\ seen[d][x] = attempts[x]
          /\ attempts[x] \in Nat /\ attempts[x] < MaxAttempts
        <3>1. status[x] = "in_flight"
            BY <1>1, <2>0
        <3>2. QED
            BY <1>1, <2>0, <3>1, StandingOf DEF TypeOK, SeenIsCurrent, AttemptsToSpare, Settled
    <2>2. CASE MarkPublished(d)
        <3>1. /\ status' = [status EXCEPT ![x] = "published"]
              /\ attempts' = attempts /\ handed' = handed
              /\ accepted' = accepted /\ x \in accepted
            BY <1>1, <2>0, <2>2 DEF MarkPublished, AckedWasAccepted
        <3>2. [r \in Rows |-> Standing[status[r]]]'
              = [[r \in Rows |-> Standing[status[r]]] EXCEPT ![x] = "delivered"]
            BY <1>1, <2>1, <3>1, StandingUpdate, StandingOf DEF Statuses
        <3>3. Contract!Deliver(x)
            BY <2>1, <3>1, <3>2 DEF Contract!Deliver
        <3>4. QED
            BY <2>1, <3>3 DEF Contract!Next
    <2>3. CASE MarkRetry(d)
        <3>1. /\ status' = [status EXCEPT ![x] = "pending"]
              /\ attempts' = [attempts EXCEPT ![x] = @ + 1]
              /\ handed' = handed /\ accepted' = accepted
            BY <2>0, <2>3 DEF MarkRetry
        <3>2. attempts[x] + 1 < MaxAttempts
            BY <2>0, <2>1, <2>3, OutboxAssumption DEF MarkRetry, IsTerminal
        <3>3. [r \in Rows |-> Standing[status[r]]]' = [r \in Rows |-> Standing[status[r]]]
            BY <1>1, <2>1, <3>1, StandingOf DEF TypeOK
        <3>4. Contract!Retry(x)
            BY <2>1, <3>1, <3>2, <3>3 DEF Contract!Retry
        <3>5. QED
            BY <2>1, <3>4 DEF Contract!Next
    <2>4. CASE MarkFailed(d)
        <3>1. /\ status' = [status EXCEPT ![x] = "failed"]
              /\ attempts' = [attempts EXCEPT ![x] = @ + 1]
              /\ handed' = handed /\ accepted' = accepted
            BY <2>0, <2>4 DEF MarkFailed
        <3>2. attempts[x] + 1 = MaxAttempts
            BY <2>0, <2>1, <2>4, OutboxAssumption DEF MarkFailed, IsTerminal
        <3>3. [r \in Rows |-> Standing[status[r]]]'
              = [[r \in Rows |-> Standing[status[r]]] EXCEPT ![x] = "abandoned"]
            BY <1>1, <2>1, <3>1, StandingUpdate, StandingOf DEF Statuses
        <3>4. Contract!GiveUp(x)
            BY <2>1, <3>1, <3>2, <3>3 DEF Contract!GiveUp
        <3>5. QED
            BY <2>1, <3>4 DEF Contract!Next
    <2>5. QED
        BY <1>6, <2>1, <2>2, <2>3, <2>4 DEF Mark
<1>7. ASSUME NEW d \in Dispatchers, Sweep(d) PROVE UNCHANGED Contract!contractVars
    <2>1. \A r \in Rows : \/ status'[r] = status[r]
                          \/ status[r] = "in_flight" /\ status'[r] = "pending"
        BY <1>1, <1>7 DEF Sweep, Expired
    <2>2. attempts' = attempts /\ handed' = handed /\ accepted' = accepted
        BY <1>7 DEF Sweep
    <2>3. QED
        BY <1>1, <2>1, <2>2, StandingOf, StandingKept
<1>8. ASSUME \/ UNCHANGED vars \/ Tick
             \/ \E d \in Dispatchers : \/ BrokerOffline(d) \/ BrokerNack(d)
                                       \/ MarkError(d) \/ Abandon(d)
      PROVE  UNCHANGED Contract!contractVars
    <2>1. /\ status' = status /\ attempts' = attempts
          /\ handed' = handed /\ accepted' = accepted
        BY <1>8 DEF vars, rowVars, Tick, BrokerOffline, BrokerNack, MarkError, Abandon
    <2>2. QED
        BY <1>2, <2>1
<1>9. QED
    BY <1>3, <1>4, <1>5, <1>a, <1>b, <1>6, <1>7, <1>8 DEF Next, Mark, Contract!Next

\* With leases longer than a batch takes, the outbox implements its contract:
\* delivered or abandoned is for good, and no broker client is given a row that
\* the table already counts as settled. (What a client was given before may still
\* arrive later, also after the row was marked failed.)
THEOREM KeepsContract == ASSUME LongLease PROVE Spec => ContractSpec
<1>1. Init => Contract!Init
    <2>1. ASSUME Init PROVE [x \in Rows |-> Standing[status[x]]] = [x \in Rows |-> "unknown"]
        BY <2>1, StandingOf DEF Init
    <2>2. QED
        BY <2>1 DEF Init, Contract!Init
<1>2. QED
    BY <1>1, ContractStep, HoldersCorrect, LongLease, PTL DEF Spec, ContractSpec, Contract!Spec

\* Nothing takes a published or failed row back to the queue.
THEOREM SettledForGood == ASSUME LongLease PROVE Spec => SettledIsFinal
<1> DEFINE Final == \A r \in Rows : Settled(r) => status'[r] = status[r]
<1>1. HoldersInv /\ [Next]_vars => [Final]_vars
    <2> SUFFICES ASSUME HoldersInv, [Next]_vars, NEW r \in Rows, Settled(r)
                 PROVE  status'[r] = status[r]
        OBVIOUS
    <2>1. /\ TypeOK /\ status[r] \in {"published", "failed"}
          /\ \A d \in Dispatchers : r \notin batch[d]
        BY DEF HoldersInv, AnyTimingInv, LeaseOutlastsBatch, Settled
    <2>2. ASSUME NEW x \in Rows, Append(x) PROVE status'[r] = status[r]
        BY <2>1, <2>2 DEF Append, TypeOK
    <2>3. ASSUME NEW d \in Dispatchers, Claim(d) \/ Sweep(d) PROVE status'[r] = status[r]
        BY <2>1, <2>3 DEF Claim, Due, Sweep, Expired
    <2>4. ASSUME NEW d \in Dispatchers, Mark(d) PROVE status'[r] = status[r]
        <3>1. cur[d] \in batch[d]
            BY <2>1, <2>4 DEF Mark, MarkPublished, MarkRetry, MarkFailed, TypeOK
        <3>2. r # cur[d]
            BY <2>1, <3>1
        <3>3. QED
            BY <2>1, <2>4, <3>2 DEF Mark, MarkPublished, MarkRetry, MarkFailed, TypeOK
    <2>5. ASSUME \/ UNCHANGED vars \/ Tick \/ \E x \in Rows : Arrive(x)
                 \/ \E d \in Dispatchers : \/ Publish(d) \/ BrokerOffline(d) \/ BrokerAck(d)
                                           \/ BrokerNack(d) \/ MarkError(d) \/ Abandon(d)
          PROVE  status' = status
        BY <2>5 DEF vars, rowVars, Tick, Arrive, Publish, BrokerOffline, BrokerAck, BrokerNack,
                    MarkError, Abandon
    <2>6. QED
        BY <2>2, <2>3, <2>4, <2>5 DEF Next, Mark
<1>2. Spec => [][Final]_vars
    BY <1>1, HoldersCorrect, LongLease, PTL DEF Spec
<1>3. QED
    BY <1>2 DEF SettledIsFinal
=============================================================================
