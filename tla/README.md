# TeslaSync: specifications, model checking and proofs

TLA+ models of the concurrent and failure-prone parts of TeslaSync's Go backend,
TLC configurations that check them on small instances, and TLAPS proofs of the
results that matter for every instance. Source paths are relative to the
repository. `PROJECT.json` maps every definition to the lines it models.

## 1. The system

Tesla's fleet-telemetry server publishes one MQTT message per signal of a
vehicle. The backend (`cmd/teslasync`) subscribes with paho, decodes, normalises
and stores each message, and hands it to *observers*: the signal store, the
vehicle state machine, the session trackers, the alert rules. Other binaries
(notification, automation, export, OCPP) consume domain events.

| Component | State it keeps | Operations | What is hard, what makes it correct |
|---|---|---|---|
| MQTT ingest (`internal/mqtt`) | redelivery counts per message id, un-acknowledged messages at the broker | handle, ack, leave un-acked, dead-letter, reconnect | at-least-once: an acknowledged message was processed, dropped on purpose or dead-lettered; a poison message ends in the DLQ |
| Pipeline (`tesla/codec`, `tesla/normalize`, `tesla/router`, `tesla_pipeline`) | none | decode, convert, route, notify observers | a panic of one observer does not fail the others |
| Signal store (`internal/signal`) | last value of every field, in memory (L1) and in Redis (L2) | update, mirror asynchronously, warm up after a restart, merge | the newest value wins although mirrors overtake each other |
| Vehicle state machine (`internal/fsm`, `internal/api/vehiclefsm`) | state, pending Park, gear capability, registered sub-FSMs, last processed time | process signals, check pending, time out, reconcile, restart | concurrent handlers of one vehicle; debouncing by event time; sub-FSMs follow the state |
| Drive and charge sub-FSMs (`fsm/drive`, `fsm/charge`) | phase and accumulated readings of a session | process signals, end, force-complete | a session ends exactly once |
| Session tracking (`api/telemetry/telemetry_sessions*.go`) | rows of drives and charging sessions; the tracked session of each kind, in memory | open, merge, hear, complete, sweep, recover at start | a row stays open only while it is tracked, across merges, sweeps, crashes and lost replies |
| Connection FSM (`fsm/telemetry`) | connection state per VIN | signal, time out | |
| Command FSM (`fsm/command`, `api/command`) | one record per command | send, wake, confirm, time out, retry | a confirmation racing the time-out |
| Notification delivery (`internal/notification`, `cmd/notification-worker`) | messages at the broker, attempts, rows with status, schedules | publish, consume, decide, attempt, log, replay, run a schedule | two processes consume one topic; retries, replay and lost replies against duplicates and losses |
| Automation engine (`internal/automation`, `cmd/automation-worker`) | the table, the retained reload, the scheduler's jobs, runs and their history rows | edit, reload, fire, judge, act, record | the scheduler follows the table although edits, reloads and the worker's start overlap |
| Outbox (`internal/outbox`, `events_outbox`) | rows with status, attempts, lease; a batch per dispatcher | append, claim, publish, mark, sweep | dispatchers of several pods, crashes, late acknowledgements |
| Events bus (`internal/events`) | none | publish | drops when the broker is down |
| Circuit breaker (`internal/platform/httputil`) | state, failure and probe counters | before and after a request | how many probes a half-open breaker admits |
| OCPP central system (`internal/ocpp`) | charge points, open sessions | boot, start, stop, meter values | retries of a start, restarts |
| Workers, jobs, export, polling, rotation, backup | job rows, timers | | |
| HTTP API, auth, flags, AI assistant, web frontend | mostly in SQL | | request/response |

Interactions: the subscriber calls the pipeline synchronously, in one goroutine
per message (`SetOrderMatters(false)`); the pipeline calls the observers in
order; the vehicle handler is also called by two timers (reconciler every 15 s,
clean-up of silent vehicles); domain writers append to the outbox in their own
transaction and dispatchers pick the rows up by polling.

## 2. The plan

1. **Outbox** (done): `OutboxContract` is what it promises, `Outbox` the table
   and its dispatchers, `MCOutbox` the instances, `OutboxProofs` the theorems.
2. **VehicleFSM** (done): the machine under its handler, `MCVehicleFSM` the
   instances, `VehicleProofs` the theorems.
3. **PipelineSubscriber** (done): the acknowledgement protocol of the ingest path
   with the broker's session; `SubscriberContract` is what the two promise together,
   `MCSubscriber` the instances, `SubscriberProofs` the theorems.
4. **SessionTracker** (done): drives and charging sessions, in memory and in the
   database, `MCSessions`, `SessionProofs`.
5. **Notifications** (done): publishers, two consumers, quiet hours, replay and
   schedules, `MCNotifications`, `NotificationProofs`.
6. **Automations** (done): the table, the reload message, the scheduler and the
   runs, `MCAutomations`, `AutomationProofs`.

What is left, in this order, with what it would add:

- **LiveSignals**: the signal store's L1 and L2 with asynchronous mirrors and the
  warm-up after a restart, against a register whose newest value wins.
- **VINCache**, composed with PipelineSubscriber as its resolver: negative entries
  that outlive the registration of their vehicle until the next load.
- **CircuitBreaker**: how many probes a half-open breaker admits and what a late
  result of the closed era does to it.
- **OcppSessions**, **Commands**: transactions of a charge point against retries
  and restarts; a confirmation racing the time-out.

These come after the six because each is smaller, sits behind one mutex or has one
caller, and loses less when it goes wrong. Parameters are CONSTANTS with named
assumptions, each operation is one action, invariants are conjunctions of named
parts, and no module that is proved about uses a RECURSIVE operator.

Every invariant and action property that a passing run checks is proved for all values
of the constants, and both refinements are. What is model-checked only are the six
liveness properties (`EveryEventSettles`, `EveryMessageSettles`, `OrphansClose`,
`SilentDriveEnds` and the two `Settles`), which rest on fairness and ENABLED, beyond the
prover. The four runs that expect a violation state what does not hold.

## 3. Conventions

Time is relative: ages grow to the largest value a comparison can tell apart,
leases and time-outs count down to zero; `Tick` is the only action that moves
them. Definitions whose name ends in `Fault` are variants of the definition that
follows, with a plausible slip; no specification uses them. They record what
each property is able to catch (`PROJECT.json`, "mutants"). A run whose
expectation is "violation" checks something the repository says of itself that
the code does not do; its counterexample is described below.

## 4. Outbox

`Outbox.tla` models `events_outbox` (columns `status`, `attempts`,
`next_attempt_at` as `wait`, `lease_until` as `lease`) and one dispatcher
goroutine per pod. `Append` is a producer's transaction; `Claim` the claim
query; `Publish`, `BrokerOffline`, `BrokerAck`, `BrokerNack` the call to the
broker client (handed over, refused because the client is not connected, and how
the wait for the acknowledgement ends); `Arrive` the broker; the `Mark*`
actions the three updates, all by id only, as in the code; `MarkError` a failed
update, whose error the code drops; `Abandon` a crash, a cancelled context or a
lost reply to a claim; `Sweep` the stale-lease sweep, which shares the
dispatcher's select loop and so never runs in the middle of a batch.
`PublishOutbox` bounds only its own wait: the client keeps a QoS 1 message it was
given, so the broker may have taken a row whose wait ran out (`BrokerNack`), or
take it at any later time, also after `markRetry` or `markFailed`. `handed` counts
how often a row was given to a client, and `Arrive` lets the broker take a row that
was, whatever its status is by then; nothing makes it do so. The claim may take
any set of due rows (SKIP LOCKED) and the loop any order (RETURNING has none).
Rows are never deleted (retention is a database policy), the publisher's quality
of service is 1, its default, and clocks of pods and database run at one speed.

`OutboxContract.tla` states the promise per event: owed, then delivered only
after the broker has taken it, or abandoned by the attempt that exhausts
`MaxAttempts`, and neither is ever undone; and no client is given an event that is
delivered or abandoned. It does not promise that an abandoned event never reaches
the broker: a copy handed over by an earlier attempt may.

| Run | Shows |
|---|---|
| `MCOutboxShortLease` (pass) | Under any timing, leases running out mid-batch included: types, leases exactly on rows in flight, no row published that the broker has not taken, no row failed before `MaxAttempts` failures; and every appended event is published or failed in the end, whether or not the broker ever answers. |
| `MCOutboxLongLease` (pass) | With leases longer than a whole batch (`LongLease`): no row in two hands, every lease outlasts the work left, settled rows stay settled, and `OutboxContract` is implemented. |
| `MCOutboxDoublePublish` (violation) | A lease longer than one publish, the documented requirement, is not enough: a batch is published row by row under the lease of the claim, so two dispatchers publish one row. With the defaults (batches of 50, 5 s per publish, 30 s lease) six slow publishes are enough. |

`SettledIsFinal` is checked under `LongLease` only, because it needs it: the marks
update by id alone, so with a short lease the late `markRetry` of a dispatcher
that lost its lease puts a row that another one has moved to failed back to
pending, and a row the dispatcher thought given up is published after all.

Bounds: two dispatchers and two rows are enough for one to hold a row the other
has claimed since, with a second row in the batch to be late for; two attempts
distinguish the last from the one before; `MaxFaults` bounds crashes and failed
writes. Fairness (`FairSpec`): calls return, tickers fire, and the claim's
`ORDER BY next_attempt_at` does not pass a due row over for ever, which is why
the claim of each row is strongly fair. Crashes are not fair.

Proved in `OutboxProofs.tla`, for any numbers of rows and dispatchers and any
timing: `TypeCorrect`, `LeaseConsistent`, `AtLeastOnce`, `NoEarlyFailure`. The
last needs more than itself: a dispatcher that judges "last attempt" by the
counter it read at the claim may be out of date, so the invariant carries that
this copy never exceeds the column. From `LongLease` alone:
`NoRowInTwoHands`, `LeaseIsLongEnough`, `SettledForGood` and the refinement
`KeepsContract`. The invariant that carries them says, for each dispatcher, that
the lease of every row it holds exceeds the longest it may still need, that the
copy it read equals the column, and that batches are disjoint. Liveness is
model-checked only.

## 5. Vehicle state machine

`VehicleFSM.tla` models one vehicle. Actors are MQTT handler goroutines, the
reconciler's goroutine and the clean-up goroutine; each runs the code between
two points at which another can interleave: `Wake` (HandleSignalReceived),
`Begin` (ProcessSignalsAt up to its loop), `NoTransition`/`Debounce`/`Fire` (one
trigger each), `Execute` (manageSubFSMs), `Assign` (the end of commit), `Unlock`,
`Look` and `Take` (CheckPending, without the mutex), `Panic` (its nil
dereference), `Finish` (lastProcessed and the streaming record). `Reconcile`,
`Collect`/`TimeOut` and `Restart` are the timers and a new pod.

A batch holds gear, charge state, amperage and speed, each reduced to the values
the code distinguishes. `pending` is the age of the pending Park by payload
time, `age` how old a batch's payload is, so event time and wall clock are both
there. The inner states of sub-FSMs, the audit row and the `lastTransitionAt`
clock are left out; the insert of the audit row cannot fail the transition
(handler.go logs and goes on). Two triggers of the table (`SpeedZero`,
`ActivityDetected`) are never produced by the code, and Parked to Offline is
unreachable: its guard tests for another current state.

| Run | Shows |
|---|---|
| `MCVehicleTimeouts` (pass) | A message handler, with all kinds of messages and several fields in one batch, against the clean-up loop: sub-FSMs follow the state, and a drive ends in Parked only after `StateConfirmDuration` without driving evidence, less what a payload may be late: a Park frame from before the evidence may arm the transition after it. |
| `MCVehicleInterleaved` (pass) | Handler (with the messages of a drive), reconciler and clean-up interleaving freely, panics and restarts included: types and the mutex, never a drive and a charge sub-FSM together, no speed trigger once the gear is known; and the state changes by the rows of `TransitionTable`, but for the Parked that CheckPending commits. |
| `MCVehicleFanout` (violation) | Two concurrent handlers: one commits Charging while the other's CheckPending commits a stale Parked; a charge sub-FSM stays registered for a parked car. |
| `MCVehicleParkLost` (violation) | The second Park signal that should confirm drops the pending Park. |

`TableIsKept` says how far the commit without the mutex goes. CheckPending overwrites
Asleep, which the clean-up has just committed, with Parked, which is no row of
`TransitionTable` (`transition.go:34`), and a commit it overtakes starts from
Parked instead of the state it was looked up for. That is all: Parked has a row to
every state, so what was overtaken still makes a step of the table.

The model reaches two more behaviours for which no property is kept, since
each follows from a race that is already recorded or fails at once:

- CheckPending tests `pending` without the mutex and dereferences it after a
  time-out has cleared it (`Panic`). The pipeline recovers the panic of a message
  handler; nothing recovers that of the reconciler.
- After a restart the reconciler is to correct a vehicle "within ~15s once
  telemetry arrives" (`handler.go:196`), but it skips a vehicle when a message
  was processed after its freshest relevant signal (`handler.go:392`). A car that
  streams other fields, its charge state unchanged, stays Online.

Bounds: confirmation after one tick (two in `MCVehicleTimeouts`), silence after
two, a batch handled within `MaxAge` ticks. Payloads arrive up to one tick late in
`MCVehicleTimeouts`, half the confirmation time, and so out of order; in the other
runs (`MaxLag = 0`) their disorder comes from the handlers that interleave. No run
of this module checks liveness.

Proved in `VehicleProofs.tla`, for any number of handlers, reconcilers and
cleaners: `TypeCorrect`, `SpeedFallbackStaysOff`, `NeverTwoSessions`,
`TableStaysKept`. The inductive invariant adds to the types that the lock is held (`LockHeld`): an actor
that has triggers left to try, or fires one, is the holder of the mutex, and one
that resumes after CheckPending does so at one of three places. `NeverTwoSessions`
needs more than that sub-FSMs follow the state, which is false, and is proved
from what one execution of manageSubFSMs does: it ends what the other needs.
For `TableStaysKept`, `EdgesOrPark` says of every commit under way: under the mutex,
its edge is a row and the state is where it starts or Parked; without, it enters Parked.

With messages handled one at a time and no reconciler (`Sequential`), whatever the
clean-up does, `SequentialFollows` proves that the sub-FSMs follow the state: the
fan-out of messages is the whole cause of `MCVehicleFanout`. Its invariant
(`Roles`, `Follows`) says which actor may be at which step and what the registered
sub-FSMs are between `Execute` and `Assign`. Under the same
assumption `SequentialParkIsConfirmed` proves the debounce, for any lag: the
invariant (`EvidenceIsOlder`) relates the ages of the pending Park and of the batch
at hand to that of the last driving evidence.

## 6. Pipeline subscriber

`PipelineSubscriber.tla` models the fleet-telemetry consumer at QoS 1 with manual
acknowledgement. `RedeliveryTracker` is a sequence of counts, the most recently
used first (`Increment`, `Forget`, `Reset`); a goroutine per delivery runs
handlePayload: `DropUnroutable`, `GiveUp`, `Accept`, `CountDrop`
(handlePipelineError), `DeadLetter`/`DeadLetterFails`, `ForgetCount`, `Ack`, in
the order of the code. `Reconnect`, `Resubscribed`, `ResubscribeFailed` and
`ResetTracker` are the OnConnect callback, which runs next to the deliveries;
`Stop`, `Die`, `Boot` and `Start` the life of a process, whose client is connected
before it has a route.

The broker and paho are external: a message has a packet id while it is in
flight, ids are used again, an acknowledgement settles whatever message has its
id and counts only on the connection it came in on, a session may be lost. A
broker of MQTT 3.1.1 sends a message again only on the next connection; some do
so within one. `Init` chooses, because the code's comments (`mqtt.go:266`, "at
the next retry") assume the second and Mosquitto does the first. What a VIN lookup
returns is any of its three results; the instances have a body that never decodes
and one that does; a topic of another shape ends like an unknown VIN, and a body
without a value like one that is processed, so they need no message of their own.

| Run | Shows |
|---|---|
| `MCSubscriber` (pass) | Types, a tracker within its capacity with one entry per id, and: an acknowledged message was processed, dropped on purpose or dead-lettered, if the broker does not resend within a connection; every queued message is settled or lost with its session, if it does and the tracker has a place for every poison message; a count that is not forgotten or reset is evicted only after `Capacity` other ids were counted since (`EvictedIsOldest`), with more ids than places; and with either broker `SubscriberContract` is implemented. |
| `MCSubscriberPoison` (violation) | A reconnect that keeps the session resets the tracker although the ids go on, so a process drops a message more often than `MaxRedeliveries` without starting to dead-letter it. With a broker that resends on reconnect only, every redelivery comes with a reset. |

`SubscriberContract.tla` states the promise per message: owed from the moment the
broker has taken it, then settled, by an acknowledgement that settles it alone and,
with a broker that sends a message once in a connection (`strict`), only after it was
handled; or missed, when it was not taken or the session is lost. Neither is undone.
Packet ids, connections, goroutines and the tracker do not occur in it.

`AckedWasHandled` and `EveryMessageSettles` each hold for one kind of broker and fail
for the other. With resends, two handlers of one message may both acknowledge it, the second when
the id belongs to the next message. Without, a message left unacknowledged waits
for a reconnect that need not come.

The tracker is smaller than the packet ids are many (4096 against 65535), so counts
are evicted (`Evict`). `EvictedIsOldest` says what that may cost: `since` records,
for each id, the others counted after it, and a count goes only when these are at
least `Capacity`, however often they were forgotten and used again in between. It
does not say that a poison message is dead-lettered. More of them in flight than the
tracker has places may evict each other's counts for ever, and then none is;
`EveryMessageSettles` is claimed for a tracker that they fit into (`PoisonFits`).
Without that premise, two poison messages and a broker that resends within the
connection give TLC the loop.

Bounds: two messages, ids and handlers (a message and its duplicate, or two
messages), one poison or both; in the passing run one place in the tracker, so that
the second poison message evicts the count of the first (with a strict broker; where
both are poison and the broker resends, `PoisonFits` is false); one break in the
passing run and two in the violation, two drops before the dead-letter queue; counts
stop at `MaxRedeliveries`, which is all that
is compared. Fairness: goroutines run, timers fire, the client and the pods come
back, and of the attempts to look up, process or dead-letter a message, repeated
for ever, one succeeds; without this a resolver that is down for good would hold
messages for good, as the code intends.

Proved in `SubscriberProofs.tla`, for any number of messages, handlers, packet ids
and reconnects:

- `AcksAreSafe`: with a broker that resends on the next connection only, what is
  acknowledged was handled. An acknowledgement names an id, so the invariant says
  who owns it: an unfinished handler of the current connection has its message in
  flight under its id (`Custody`), no two of them have one message (`OneOwner`), no id
  is in flight twice (`IdsDistinct`), and acknowledging comes last (`AckComesLast`).
  That `GiveUp` returns without an acknowledgement is what the invariant rests on.
  `OneLiveHandler` states the part about owners as a result of its own.
- `KeepsContract`: the refinement of `SubscriberContract`, for both kinds of broker.
  It needs the same invariant, because an acknowledgement settles every message in
  flight under its id and the contract lets it settle one, and `Known`: what a handler
  works on was published.
- `Types`: the tracker's list included. The lemmas say of each operation on the list
  what it does to the counts: taking an entry out changes no other count, putting one
  in front sets its own, and at most `Capacity` entries with distinct ids remain.
- `EvictsOldest` (`EvictedIsOldest`), for any number of ids and any capacity. The
  invariant `Aged` is what makes the list an LRU list: of two ids in it the one in
  front is in the other's `since`. Counting an id puts it in front and into the
  `since` of all others, taking one out keeps the order of the rest, and the entry at
  the end of a full list therefore has `Capacity - 1` ids in its `since`, to which the
  new one is added. The run has one place; the order of several is the theorem's part.

Liveness is model-checked only.

## 7. Session tracking

`SessionTracker.tla` models the drives and charging sessions of one vehicle twice,
as rows (`drives`, `charges`) and as what the process tracks (`drive`, `charging`).
A delivery is three steps, in the order of the code: `Receive` (the live store),
the drive's part (`StartDrive`, `EndDrive` or `HearDrive`), the charge's part
(`StartCharge`, `EndCharge` or `HearCharge`); the tracker's mutex makes each part
atomic. `StartDrive` first completes a charge that is still tracked, then looks for
a drive that ended within the merge window and resumes it, or creates a row.
`Cleanup` is the ticker's sweep; `RecoverSessions`, `ValidateRecoveredSessions`,
`RecoverIncompleteSessions` and `StartCleanup` are the start of a process in its
order. Every statement may fail, or its reply may be lost after it took effect: the
code only logs such errors, so the tracker forgets a row that stays open.

Times are ages, those of a row's boundary by event time: a payload that is `lag`
old opens or closes a row that old. An id whose row nothing will read again stands
for the next row, so few ids do.

The run `sessions` shows: types; that an open row is the tracked session's but for
at most one row of a kind per fault (`OrphansBounded`); that a session is completed
with the start of its row, also after a merge or a recovery (`CanonicalStart`); that
a charge tracked next to a drive began after it (`OverlapIsLate`); that rows left
open are closed in the end (`OrphansClose`); and that a drive the vehicle is silent
about ends (`SilentDriveEnds`).

Bounds: two drives (one to resume, one new) and one charge; one handler, because
`lag` already hands payloads over out of order and the sweep interleaves between the
two parts; each duration is the smallest that keeps the code's comparisons apart;
one fault. Fairness: a delivery returns, the start goes through, the ticker ticks,
time passes (`SF` of `Tick`, which a busy vehicle may otherwise hold up by the bound on
the age of payloads). Payloads, failures and crashes need not come.

Proved in `SessionProofs.tla`, for any numbers of rows, handlers and faults and any
durations: `Types`, `RowsAreTracked` (`OrphansBounded`) and `StartIsTheRows`
(`CanonicalStart`). The invariant (`SessionInv`) adds that a process that is down
tracks nothing (`Clean`); the count of orphans needs that each action opens or lets go at
most as many rows as it has faults (`SettlesOrphans`, `Counts`).
`OverlapStaysLate` (`OverlapIsLate`) has an invariant of its own, which speaks of
the phases of a start: nothing is tracked before the recovery ran (`EmptyUntilUp`), what
it restores is over its limit (`RecoveredAreOld`, because `GetStale` selects the old), so
the validation drops it, both kinds, and a process that takes payloads began with
nothing. From there on a drive that starts completes the charge that is tracked, a charge
that starts is no older than its payload, and a tick ages both alike.
The liveness properties are model-checked only.

Where comments and code part, found while modelling:

- RecoverSessions is to restore sessions "started within last 24 hours"; `GetStale`
  selects older ones (48 h for charges). A recent session is never restored, and one
  that is restored is over its limit and closed at once.
- RecoverIncompleteSessions leaves fresh rows to be "picked up by normal tracking".
  Nothing picks them up; the sweep closes them.
- CleanupStaleSessions closes rows with "no in-memory tracker"; its UPDATE has no
  such condition, so it also closes the row of a session that is tracked.
- A sweep after a crash stamps the end with the current time, so the next drive merges
  with one that ended long before.

Left out: the aggregates that completion writes, telemetry rows, addresses and the
asynchronous backfill.

## 8. Notifications

`Notifications.tla` models a request from its publisher to its rows. The API process
and the worker run the same consumer under client ids of their own, so each gets
every message; only the worker decides by quiet hours, replays and schedules.
`Publish` is PublishCtx with its fallback to a direct send: when its wait times out the
PUBLISH may be with the broker, or in the client's store, or in both, because only the
acknowledgement was lost, and what is in the store is sent when the client has
reconnected. `First` and `Again` are the PUBLISH of a request and its resend, two
messages for the consumers, each with its own goroutine and row. `Receive` is the callback,
which acknowledges when it has started a goroutine; `Decide` the worker's quiet
hours; `Attempt` one of up to `MaxAttempts` sends; `CreateLog` the row. `ReplayTick`,
`ReplaySkip`, `ReplaySend` and `ReplayMark` are the replay of deferred rows, each asked
about again when its turn comes, `Archive` the user who archives a row or takes it out of
the archive, `ScheduleTick`, `ScheduleSkip`, `ScheduleSend` and
`ScheduleMark` the scheduler, `Disconnect`/`Reconnect`, `Stop`/`Exit`, `Crash` and
`Boot` the life of a process. Statements and sends may fail, and a send whose reply
is lost has delivered all the same.

The run `notifications` shows: a row says sent only if its process gave the request
to the channel (`SentWasDelivered`), and without faults a row is exact: sent stands for
one delivery by its process, failed, deferred or archived for none (`RowsAreExact`; a
row the replay has at hand may have been sent already); a request is delivered at most
twice without faults, once per consumer, and at most 3 + f times with f faults
(`DuplicatesBounded`: each fault costs one delivery, but a publish that times out may cost
two, the direct send and the client's resend; TLC reaches the bound with one, two and
three faults); a schedule runs once, and once more
per fault (`RunsBounded`); without faults no consumer loses a request
(`NothingLost`); and, whatever the faults, in the end every schedule is marked, every
message and goroutine is done and no row stays deferred (`Settles`).

Bounds: two requests, of which rules leave the schedule those it may still need
(`Reserved`); a rule publishes when no request is at work (`MaxAtWork`), a schedule at any
time; one resend per request; one severity, so windows concern it or do
not; two attempts, one fault, 494,144 states. A client that still waits for an
acknowledgement loses its connection without a further fault. Fairness: goroutines and loops
go on, a dead process is started again, and while a row waits windows end again and again
and leave time for a tick of the replay and for its rows (`SF`). Requests, faults and
users need not come.

Proved in `NotificationProofs.tla`, for any numbers of requests, schedules, attempts
and faults: `Types`, `SentIsTrue`, `ExactRows`, `Duplicates`, `RunsOnce`, `NoLoss`. The bound on
duplicates is not inductive by itself: `Placed` and `Rows` say that of a message, its
goroutine and its row only one is to come, and `Owed` counts, over both messages of a
published request and both processes, what was delivered and what may still be delivered;
`Fresh` says that a request nobody published has cost nothing yet. A step keeps `Owed`
because what it adds at one message and process is paid by a fault (`Paid`), and a publish
because its request starts from nothing (`PublishOwed`). `Marks` does the same for
schedules. `ExactRows` needs `Once`, which says in which places a delivery can be before
it is in a row, and `Up`: without a fault every client is connected and holds nothing, so
that no publisher sends directly.
`Settles` is model-checked only.

Where comments and code part:

- `main.go` calls the worker "the actual MQTT consumer (the API server only
  publishes)"; `app/new.go:1078` subscribes as well, so every notification is delivered
  twice. `worker.go:46-47` consults quiet hours "before every delivery"; the API's
  consumer and the fallback of PublishCtx have none.
- After a reconnect with a clean session neither consumer subscribes again
  (`Reconnect` leads to deaf); a Subscribe that times out counts as done.
- Rule alerts leave the severity out (`telemetry_alerts.go:255-268`), so a critical
  alert is deferred as info. A cron schedule is marked without its next run and so
  disabled after the first; it is marked even if publishing failed.
- SIGTERM cancels the context that deliveries in flight use: the decider fails, so
  they go out in quiet hours, and their rows cannot be written.

Left out: requests without a channel (no row), delivery metrics, web push, the
arithmetic of the windows, the limit of 200 rows per tick, a resend whose acknowledgement
is lost too, a start that gives up; `fsm/notification` is used by its tests only. A PUBLISH
that arrives late over a connection that stays up is one that arrived at once and waited
in the inbox. The replay asks the decider and sends in one step: a window that begins
between the two is one that begins just after the send.

## 9. Automations

`Automations.tla` models the API requests that change the table (`Commit`, then
`PublishReload`, a retained message per automation changed). Toggle, delete and the bulk
update enable automations or disable them (`SetEnabled`; a row that is gone counts as
disabled); create and update also replace the trigger rows of one automation in the same
transaction (`Replace`), so an automation that stays enabled may have other schedules, or
none. Then the worker's trigger (`Read` the table, for a message or at the start, and drop
the jobs, `Register` row by row, `Loaded`), a run (`Fire`, `Load` with the rapid-fire check, `Judge` the conditions,
`RecordSkipped` or `Execute` action by action, `CompleteHistory`) and the life of the
worker (`Boot`, `Subscribe`, `Disconnect`, `Stop`, `Exit`, `Crash`). At its start the
worker reads the table before it subscribes; the retained message covers the gap. Only the
cron trigger is wired in production, so it is the only one modelled.

The run `automations` shows: once nothing is under way and nothing was lost, the
scheduler has for each automation a schedule that the table has for it at that moment,
and none where it has none, so not one that an update has replaced
(`ScheduleIsCurrent`); no job is in the
scheduler that a reload would not find (`NoStrayJob`); a row says success only if the
whole chain ran (`SuccessIsComplete`); no action is called off the record
(`HistoryIsComplete`): a run that called one has a row that does not say skipped, and a
row that stays "running" is the mark of a fault. "failed" says only that no action
succeeded: a fleet command that reached some vehicles fails as a whole
(`command.go:229-248`), and an action whose reply was lost fails too, so a run counts as
one that may have acted from its first call (`acted`). At most `MaxFires` runs in a window
pass the rapid-fire check, those of replaced jobs included (`RapidFireBounded`); and runs end and
an automation that has a schedule is scheduled again and again (`Settles`).

Bounds: one automation with two schedules (one for an update to put in place of the
other, and of two the second registration replaces the first), one request at a time,
one message to the worker, two runs against a limit of one, a chain of two, one fault;
1.5 million states. One request is enough for edits to overlap with what earlier ones set
off: it commits again while the message of the last waits or is handled. So is one
message: it has no content, and one can wait while the last is handled. The theorems hold
for any number of both. Fairness: requests publish, runs and
reloads go on, a worker that ended starts again. Schedules, users and faults need not
come, so `Settles` does not say that anything fires: where the scheduler was never
started (below) nothing does.

Proved in `AutomationProofs.tla`, for any automations, schedules, requests, runs and
faults: `Types`, `NoStray`, `SuccessIsTrue`, `NothingOffTheRecord`, `RapidFire`,
`ScheduleStaysCurrent`. `NothingOffTheRecord` (`HistoryIsComplete`) needs what the row says
at every step of its run (`Recorded`) and that a worker which is stopping, where every
statement fails without a further fault, has had one. `ScheduleStaysCurrent` needs `CurrentInv`: what
the scheduler has is in the table and, with the rows a reload has still to register, is
all the table asks for, or something is still to come that will reload it, or a message
was missed. `RapidFire` needs that a run is admitted only by the check (`UncheckedOut`).
`Settles` is model-checked only.

Where docs, comments and code part:

- The repository given to the command executor in production has no `GetLiveState`
  (only the test mock, `command_test.go:45`): every command but a wake-up wakes the car,
  polls for 30 s and fails, against `TestAutoWake_VehicleOnline_NoWakeAttempted`. With
  a nil vehicle (`engine.go:313-316`) it goes to all vehicles.
- `CronTrigger.Start` returns before it starts the scheduler if the load fails, and
  the caller calls that non-fatal; `Reload` never starts it, so the worker fires nothing
  until it is restarted (`ticking`).
- "Skips overlapping executions for the same automation" (`cron.go:69`) holds per
  job: after a reload the new job runs next to the old run. Of several schedules of
  one automation only the last stays.
- SetAutoDisabled and IncrementExecution do nothing although `loop_detection.go:127`
  and `docs/features/automations.md:82` promise an automatic disable.
- After a stop or a crash a run's row stays "running"; nothing recovers it. After a
  reconnect nobody subscribes again, so reloads are missed until a restart.

Left out: conditions (an outcome), what an action does (only whether it was called and
whether it succeeded), that chains differ in length and an update changes them too, the
cycle check (no action
calls an automation), the audit log, `fsm/automation`, which nothing in the engine uses.

## 10. What is not modelled

`PROJECT.json` lists every component with its reason. Pure conversions, SQL
reporting, HTTP glue, cryptography, code generators and the frontend make up most of
the repository's lines and stay out: they hold no state of their own that
interleaves, and a model would repeat them line by line. The stateful parts that remain
are named at the end of section 2.
