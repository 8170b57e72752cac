------------------------------- MODULE Outbox -------------------------------
(***************************************************************************)
(* The transactional outbox of internal/outbox: the events_outbox table    *)
(* and the dispatchers of several pods that claim its rows, publish them   *)
(* to the MQTT broker and mark them.                                       *)
(*                                                                         *)
(* Time is relative: every lease, back-off delay and call timeout counts   *)
(* down to zero, one Tick at a time, so no clock has to be bounded.        *)
(***************************************************************************)
EXTENDS Integers, FiniteSets

CONSTANTS Rows,          \* identifiers of events_outbox rows
          Dispatchers,   \* one dispatcher goroutine per pod
          NoRow,         \* "no row in hand"
          BatchSize,     \* DispatcherConfig.BatchSize
          MaxAttempts,   \* DispatcherConfig.MaxAttempts
          BackoffBase,   \* DispatcherConfig.BackoffBase, in ticks
          BackoffMax,    \* DispatcherConfig.BackoffMax, in ticks
          LeaseTicks,    \* DispatcherConfig.LeaseDuration, in ticks
          PublishTicks,  \* the broker publish round-trip timeout, in ticks
          DbTicks,       \* the longest a claim's reply or a mark may take
          MaxFaults      \* bound: crashes, cancellations and failed writes

ASSUME OutboxAssumption ==
    /\ NoRow \notin Rows
    /\ IsFiniteSet(Rows)
    /\ BatchSize \in Nat \ {0}
    /\ MaxAttempts \in Nat \ {0}
    /\ BackoffBase \in Nat
    /\ BackoffMax \in Nat
    /\ LeaseTicks \in Nat \ {0}
    /\ PublishTicks \in Nat
    /\ DbTicks \in Nat
    /\ MaxFaults \in Nat

\* The exponent of the back-off is clamped to 30, so this is all of 2^k it uses.
ASSUME PowersOfTwo == \A k \in 0..30 : 2 ^ k \in Nat

VARIABLES
    status,    \* column status; "absent" before Append commits
    attempts,  \* column attempts
    wait,      \* ticks left until next_attempt_at
    lease,     \* ticks left until lease_until has passed; NoLease for NULL
    handed,    \* how often a broker client was given the PUBLISH of a row
    accepted,  \* rows whose bytes the broker has taken at least once
    batch,     \* claimed rows a dispatcher has not finished with
    seen,      \* Row.Attempts of the claimed rows, as read by the claim
    cur,       \* the row a dispatcher is publishing or marking
    phase,     \* where a dispatcher is in the loop of pollAndPublish
    budget,    \* ticks left before a dispatcher's current call must return
    faults     \* faults so far

rowVars  == <<status, attempts, wait, lease>>
dispVars == <<batch, seen, cur, phase, budget>>
vars     == <<rowVars, handed, accepted, dispVars, faults>>

NoLease == -1
Statuses == {"absent", "pending", "in_flight", "published", "failed"}
\* "loop" is the head of the row loop (and, with an empty batch, the select of
\* Run); "acked" and "nacked" are the marks after a publish that returned nil
\* or an error.
Phases == {"loop", "publishing", "acked", "nacked"}

Init ==
    /\ status = [r \in Rows |-> "absent"]
    /\ attempts = [r \in Rows |-> 0]
    /\ wait = [r \in Rows |-> 0]
    /\ lease = [r \in Rows |-> NoLease]
    /\ handed = [r \in Rows |-> 0]
    /\ accepted = {}
    /\ batch = [d \in Dispatchers |-> {}]
    /\ seen = [d \in Dispatchers |-> [r \in Rows |-> 0]]
    /\ cur = [d \in Dispatchers |-> NoRow]
    /\ phase = [d \in Dispatchers |-> "loop"]
    /\ budget = [d \in Dispatchers |-> 0]
    /\ faults = 0

-----------------------------------------------------------------------------
\* backoff(): base doubled per attempt, exponent clamped, result capped.
Backoff(n) ==
    LET k     == IF n > 30 THEN 30 ELSE n
        delay == BackoffBase * 2 ^ k
    IN  IF delay > BackoffMax THEN BackoffMax ELSE delay

\* Definitions whose name ends in "Fault" are variants with a seeded fault. They
\* are no part of the model: each stands for a plausible slip in the code that
\* some property must refute.
IsTerminalEarlyFault(d) == seen[d][cur[d]] + 2 >= MaxAttempts
IsTerminalLateFault(d) == seen[d][cur[d]] + 1 > MaxAttempts

\* isTerminal(), on the attempts the claim returned.
IsTerminal(d) == seen[d][cur[d]] + 1 >= MaxAttempts

DueInFlightFault == {r \in Rows : status[r] \in {"pending", "in_flight"} /\ wait[r] = 0}
DueFailedFault == {r \in Rows : status[r] \in {"pending", "failed"} /\ wait[r] = 0}

\* The rows the claim query may take.
Due == {r \in Rows : status[r] = "pending" /\ wait[r] = 0}

\* A dispatcher between ticks of its select loop.
Idle(d) == phase[d] = "loop" /\ batch[d] = {}

\* Store.Append commits with the producer's transaction.
Append(r) ==
    /\ status[r] = "absent"
    /\ status' = [status EXCEPT ![r] = "pending"]
    /\ UNCHANGED <<attempts, wait, lease, handed, accepted, dispVars, faults>>

\* claim(): SKIP LOCKED and the unordered RETURNING let the batch be any set of
\* due rows, handled in any order.
Claim(d) ==
    /\ Idle(d)
    /\ \E S \in SUBSET Due :
        /\ S # {}
        /\ Cardinality(S) <= BatchSize
        /\ status' = [r \in Rows |-> IF r \in S THEN "in_flight" ELSE status[r]]
        /\ lease' = [r \in Rows |-> IF r \in S THEN LeaseTicks ELSE lease[r]]
        /\ batch' = [batch EXCEPT ![d] = S]
        /\ seen' = [seen EXCEPT ![d] = [r \in Rows |-> IF r \in S THEN attempts[r] ELSE 0]]
    /\ budget' = [budget EXCEPT ![d] = DbTicks]
    /\ UNCHANGED <<attempts, wait, handed, accepted, cur, phase, faults>>

\* publishOne() hands the next row of the batch to the broker client, which
\* keeps the QoS 1 PUBLISH until the broker has acknowledged it.
Publish(d) ==
    /\ phase[d] = "loop"
    /\ \E r \in batch[d] :
        /\ cur' = [cur EXCEPT ![d] = r]
        /\ handed' = [handed EXCEPT ![r] = @ + 1]
    /\ phase' = [phase EXCEPT ![d] = "publishing"]
    /\ budget' = [budget EXCEPT ![d] = PublishTicks]
    /\ UNCHANGED <<rowVars, accepted, batch, seen, faults>>

\* PublishOutbox returns ErrBrokerDisconnected and hands nothing over.
BrokerOffline(d) ==
    /\ phase[d] = "loop"
    /\ \E r \in batch[d] : cur' = [cur EXCEPT ![d] = r]
    /\ phase' = [phase EXCEPT ![d] = "nacked"]
    /\ budget' = [budget EXCEPT ![d] = DbTicks]
    /\ UNCHANGED <<rowVars, handed, accepted, batch, seen, faults>>

\* The broker takes a row a client was given, at once, late, after the wait for
\* its acknowledgement was given up, or never.
Arrive(r) ==
    /\ handed[r] > 0
    /\ r \notin accepted
    /\ accepted' = accepted \cup {r}
    /\ UNCHANGED <<rowVars, handed, dispVars, faults>>

\* PublishOutbox returns nil: the broker acknowledged within the timeout.
BrokerAck(d) ==
    /\ phase[d] = "publishing"
    /\ accepted' = accepted \cup {cur[d]}
    /\ phase' = [phase EXCEPT ![d] = "acked"]
    /\ budget' = [budget EXCEPT ![d] = DbTicks]
    /\ UNCHANGED <<rowVars, handed, batch, seen, cur, faults>>

BrokerNackSwallowedFault(d) ==
    /\ phase[d] = "publishing"
    /\ phase' = [phase EXCEPT ![d] = "acked"]
    /\ budget' = [budget EXCEPT ![d] = DbTicks]
    /\ UNCHANGED <<rowVars, handed, accepted, batch, seen, cur, faults>>

\* PublishOutbox stops waiting, or the token ends with an error. The client
\* still has the message: the broker may have taken it, or may take it later.
BrokerNack(d) ==
    /\ phase[d] = "publishing"
    /\ phase' = [phase EXCEPT ![d] = "nacked"]
    /\ budget' = [budget EXCEPT ![d] = DbTicks]
    /\ UNCHANGED <<rowVars, handed, accepted, batch, seen, cur, faults>>

FinishRowKeepsCurFault(d) ==
    /\ batch' = [batch EXCEPT ![d] = @ \ {cur[d]}]
    /\ phase' = [phase EXCEPT ![d] = "loop"]
    /\ budget' = [budget EXCEPT ![d] = 0]
    /\ UNCHANGED cur

\* The loop moves on, whatever became of the row in hand.
FinishRow(d) ==
    /\ batch' = [batch EXCEPT ![d] = @ \ {cur[d]}]
    /\ cur' = [cur EXCEPT ![d] = NoRow]
    /\ phase' = [phase EXCEPT ![d] = "loop"]
    /\ budget' = [budget EXCEPT ![d] = 0]

\* markPublished(): WHERE id = $1, whoever holds the lease by now.
MarkPublished(d) ==
    /\ phase[d] = "acked"
    /\ status' = [status EXCEPT ![cur[d]] = "published"]
    /\ lease' = [lease EXCEPT ![cur[d]] = NoLease]
    /\ FinishRow(d)
    /\ UNCHANGED <<attempts, wait, handed, accepted, seen, faults>>

\* markRetry(): attempts + 1 in the row, back-off from the claim's attempts.
MarkRetry(d) ==
    /\ phase[d] = "nacked"
    /\ ~IsTerminal(d)
    /\ status' = [status EXCEPT ![cur[d]] = "pending"]
    /\ attempts' = [attempts EXCEPT ![cur[d]] = @ + 1]
    /\ wait' = [wait EXCEPT ![cur[d]] = Backoff(seen[d][cur[d]])]
    /\ lease' = [lease EXCEPT ![cur[d]] = NoLease]
    /\ FinishRow(d)
    /\ UNCHANGED <<handed, accepted, seen, faults>>

\* markFailed().
MarkFailed(d) ==
    /\ phase[d] = "nacked"
    /\ IsTerminal(d)
    /\ status' = [status EXCEPT ![cur[d]] = "failed"]
    /\ attempts' = [attempts EXCEPT ![cur[d]] = @ + 1]
    /\ lease' = [lease EXCEPT ![cur[d]] = NoLease]
    /\ FinishRow(d)
    /\ UNCHANGED <<wait, handed, accepted, seen, faults>>

\* Any of the three writes fails; pollAndPublish drops the error and goes on.
MarkError(d) ==
    /\ phase[d] \in {"acked", "nacked"}
    /\ faults < MaxFaults
    /\ faults' = faults + 1
    /\ FinishRow(d)
    /\ UNCHANGED <<rowVars, handed, accepted, seen>>

\* The pod crashes, or its context is cancelled, or the claim's reply is lost:
\* whatever was claimed stays in_flight in the table.
Abandon(d) ==
    /\ batch[d] # {}
    /\ faults < MaxFaults
    /\ faults' = faults + 1
    /\ batch' = [batch EXCEPT ![d] = {}]
    /\ cur' = [cur EXCEPT ![d] = NoRow]
    /\ phase' = [phase EXCEPT ![d] = "loop"]
    /\ budget' = [budget EXCEPT ![d] = 0]
    /\ UNCHANGED <<rowVars, handed, accepted, seen>>

ExpiredAnyLeaseFault == {r \in Rows : status[r] = "in_flight"}
ExpiredNullLeaseFault == {r \in Rows : status[r] = "in_flight" /\ lease[r] = NoLease}

\* tickSweep(): runs in the dispatcher's own select loop, never mid-batch.
Expired == {r \in Rows : status[r] = "in_flight" /\ lease[r] = 0}

SweepKeepsLeaseFault(d) ==
    /\ Idle(d)
    /\ Expired # {}
    /\ status' = [r \in Rows |-> IF r \in Expired THEN "pending" ELSE status[r]]
    /\ UNCHANGED <<attempts, wait, lease, handed, accepted, dispVars, faults>>

Sweep(d) ==
    /\ Idle(d)
    /\ Expired # {}
    /\ status' = [r \in Rows |-> IF r \in Expired THEN "pending" ELSE status[r]]
    /\ lease' = [r \in Rows |-> IF r \in Expired THEN NoLease ELSE lease[r]]
    /\ UNCHANGED <<attempts, wait, handed, accepted, dispVars, faults>>

\* One tick of time. A call in progress returns before its timeout has passed,
\* and the loop takes no time between two calls.
Countdown(n) == IF n > 0 THEN n - 1 ELSE n

Tick ==
    /\ \A d \in Dispatchers : batch[d] # {} => budget[d] > 0
    /\ wait' = [r \in Rows |-> Countdown(wait[r])]
    /\ lease' = [r \in Rows |-> Countdown(lease[r])]
    /\ budget' = [d \in Dispatchers |-> Countdown(budget[d])]
    /\ UNCHANGED <<status, attempts, handed, accepted, batch, seen, cur, phase, faults>>

\* What a running dispatcher does of itself.
Mark(d) == MarkPublished(d) \/ MarkRetry(d) \/ MarkFailed(d)

Next ==
    \/ \E r \in Rows : Append(r) \/ Arrive(r)
    \/ \E d \in Dispatchers :
        \/ Claim(d) \/ Publish(d) \/ BrokerOffline(d) \/ BrokerAck(d) \/ BrokerNack(d)
        \/ MarkPublished(d) \/ MarkRetry(d) \/ MarkFailed(d) \/ MarkError(d)
        \/ Abandon(d) \/ Sweep(d)
    \/ Tick

Spec == Init /\ [][Next]_vars

\* Fairness: tickers fire, calls return within their timeouts, and the claim's
\* ORDER BY next_attempt_at serves the row that has been due longest, so no due
\* row is passed over for ever.
ClaimRow(r) == \E d \in Dispatchers : Claim(d) /\ r \in batch'[d]

FairSpec ==
    /\ Spec
    /\ WF_vars(Tick)
    /\ \A d \in Dispatchers :
        /\ WF_vars(Publish(d) \/ BrokerOffline(d))
        /\ WF_vars(BrokerAck(d) \/ BrokerNack(d))
        /\ WF_vars(Mark(d))
        /\ WF_vars(Sweep(d))
    /\ \A r \in Rows : SF_vars(ClaimRow(r))

-----------------------------------------------------------------------------
\* The values every column and every dispatcher field can hold.
TypeOK ==
    /\ status \in [Rows -> Statuses]
    /\ attempts \in [Rows -> Nat]
    /\ wait \in [Rows -> Nat]
    /\ lease \in [Rows -> Nat \cup {NoLease}]
    /\ handed \in [Rows -> Nat]
    /\ accepted \in SUBSET Rows
    /\ batch \in [Dispatchers -> SUBSET Rows]
    /\ seen \in [Dispatchers -> [Rows -> Nat]]
    /\ cur \in [Dispatchers -> Rows \cup {NoRow}]
    /\ phase \in [Dispatchers -> Phases]
    /\ budget \in [Dispatchers -> Nat]
    /\ faults \in 0..MaxFaults
    /\ \A d \in Dispatchers :
        IF phase[d] = "loop" THEN cur[d] = NoRow ELSE cur[d] \in batch[d]

\* A lease is held exactly by the rows in flight (000213_events_outbox.up.sql:
\* lease_until is "only set while status='in_flight'"): a claim, a sweep and
\* three marks of possibly different dispatchers keep the two columns together,
\* so the sweep finds every abandoned row and never takes back another.
LeaseOnlyInFlight ==
    \A r \in Rows : lease[r] # NoLease <=> status[r] = "in_flight"

\* No event is written off as published unless the broker has taken it: holds
\* for any timing, also for the marks of dispatchers whose lease has run out.
PublishedWasAccepted ==
    \A r \in Rows : status[r] = "published" => r \in accepted

\* A row is given up only after MaxAttempts failed attempts were counted, even
\* when the dispatcher that gives it up judges by an old copy of the counter.
FailedOnlyWhenExhausted ==
    \A r \in Rows : status[r] = "failed" => attempts[r] >= MaxAttempts

\* Two dispatchers never hold the same row at once.
Exclusive ==
    \A d, e \in Dispatchers : d # e => batch[d] \cap batch[e] = {}

\* Two dispatchers never have the same row in the broker client's hands at once
\* (Run's comment: dispatchers of several pods "cooperate via the row-level lease
\* so a 2-pod deployment doubles throughput, not double-publish").
NoDoublePublish ==
    \A d, e \in Dispatchers :
        d # e /\ phase[d] = "publishing" /\ phase[e] = "publishing" => cur[d] # cur[e]

Settled(r) == status[r] \in {"published", "failed"}

\* Once a row is published or failed, nothing takes it back to the queue.
SettledIsFinal ==
    [][\A r \in Rows : Settled(r) => status'[r] = status[r]]_vars

\* Every appended event is eventually published or failed, whatever happens to
\* the broker, as long as crashes and failed writes stop.
EveryEventSettles ==
    \A r \in Rows : status[r] = "pending" ~> Settled(r)

\* The timing under which a lease outlasts the batch it was taken for: the
\* rows of a batch are published one after the other.
RowTicks == PublishTicks + DbTicks
LongLease == LeaseTicks > DbTicks + BatchSize * RowTicks

\* The longest a dispatcher may still take over the batch it holds.
RowsLeft(d) == Cardinality(batch[d] \ {cur[d]})
TimeLeft(d) ==
    budget[d] + (IF phase[d] = "publishing" THEN DbTicks ELSE 0) + RowsLeft(d) * RowTicks

\* With such leases a row stays in flight, under a lease that outlasts whatever
\* its dispatcher still has to do, until the dispatcher lets go of it.
LeaseOutlastsBatch ==
    \A d \in Dispatchers : \A r \in batch[d] :
        status[r] = "in_flight" /\ lease[r] > TimeLeft(d)

-----------------------------------------------------------------------------
\* What the outbox promises its producers, when leases are long enough.
Standing == [absent    |-> "unknown",
             pending   |-> "owed",
             in_flight |-> "owed",
             published |-> "delivered",
             failed    |-> "abandoned"]

Contract == INSTANCE OutboxContract WITH
    state <- [r \in Rows |-> Standing[status[r]]],
    tries <- attempts,
    sent <- handed

ContractSpec == Contract!Spec
=============================================================================
