---------------------------- MODULE Notifications ----------------------------
(***************************************************************************)
(* The delivery of notifications (internal/notification, and the loops of  *)
(* cmd/notification-worker): publishers, the broker's topic, the two       *)
(* processes that consume it, quiet hours with their deferred rows and     *)
(* replay, and scheduled notifications.                                    *)
(*                                                                         *)
(* The API process and the notification worker run the same consumer, each *)
(* under a client id of its own, so each gets every message. Both connect  *)
(* with a clean session, and nothing subscribes again after a reconnect.   *)
(* Only the worker has a quiet-hours decider, a replay and a scheduler.    *)
(***************************************************************************)
EXTENDS Integers, FiniteSets

CONSTANTS Api, Worker,   \* the processes
          Schedules,     \* rows of notification_schedules that are due
          Severities,    \* of requests
          Plain,         \* the severity of a request that names none ("info")
          MaxAttempts,   \* 3
          MaxRequests,   \* bound: requests
          MaxAtWork,     \* bound: requests at work, before a rule publishes one more
          MaxFaults      \* bound: lost connections, crashes, stops, failed calls

Procs    == {Api, Worker}
Requests == 1 .. MaxRequests
\* The PUBLISH of a request, and the one a client sends again because it has seen no
\* acknowledgement (bound: one of each).
Messages == Requests \X {1, 2}
First(r) == <<r, 1>>
Again(r) == <<r, 2>>
NoSchedule == "none"
Unpublished == "unpublished"

ASSUME NotificationAssumption ==
    /\ Api # Worker /\ Plain \in Severities /\ Unpublished \notin Severities
    /\ NoSchedule \notin Schedules /\ IsFiniteSet(Schedules)
    /\ MaxAttempts \in Nat \ {0} /\ MaxFaults \in Nat /\ MaxAtWork \in Nat \ {0}
    /\ MaxRequests \in Nat /\ MaxRequests >= Cardinality(Schedules) + MaxFaults

VARIABLES
    link,        \* per process: down, stopping, off, deaf (no subscription) or on
    inbox,       \* per process: messages the broker has for it
    held,        \* per process: messages its MQTT client stores until it reconnects
    stage,       \* per process and message: its goroutine
    tries,       \* ... and the attempts it has made
    log,         \* per process and message: its row in notification_logs
    delivered,   \* history, per process and message: times the channel took it
    severity,    \* per request, once it is published
    quiet,       \* severities an active window suppresses
    batch, replaying, replay,   \* the replay: rows left, the row at hand, its step
    schedule, due, marking,     \* the schedules, and the scheduler's tick
    ran,         \* history: times a schedule was published
    faults       \* history: faults so far

mail      == <<inbox, held>>
job       == <<stage, tries>>
replays   == <<batch, replaying, replay>>
scheduler == <<schedule, due, marking, ran>>
vars == <<link, inbox, held, stage, tries, log, delivered, severity, quiet,
          batch, replaying, replay, schedule, due, marking, ran, faults>>

-----------------------------------------------------------------------------
Running(p) == link[p] \in {"off", "deaf", "on"}
Connected(p) == link[p] \in {"deaf", "on"}
\* After the context is cancelled every statement fails.
Stopping(p) == link[p] = "stopping"

Fault(n) == faults + n <= MaxFaults /\ faults' = faults + n

\* A statement of p that may fail.
Statement(p, ok) == IF Stopping(p) THEN ~ok /\ UNCHANGED faults
                    ELSE Fault(IF ok THEN 0 ELSE 1)

\* Send: the channel takes the request or not; when a reply is lost it took it and
\* Send returns an error all the same.
Sends(p, m, ok) ==
    \/ ok /\ delivered' = [delivered EXCEPT ![p][m] = @ + 1] /\ UNCHANGED faults
    \/ ~ok /\ UNCHANGED <<delivered, faults>>
    \/ ~ok /\ delivered' = [delivered EXCEPT ![p][m] = @ + 1] /\ Fault(1)

Each(value) == [p \in Procs |-> [m \in Messages |-> value]]

Init ==
    /\ link = [p \in Procs |-> "on"] /\ inbox = [p \in Procs |-> {}] /\ held = [p \in Procs |-> {}]
    /\ stage = Each("none") /\ tries = Each(0)
    /\ log = Each("none") /\ delivered = Each(0)
    /\ severity = [r \in Requests |-> Unpublished]
    /\ quiet = {}
    /\ batch = {} /\ replaying = {} /\ replay = "next"
    /\ schedule = [s \in Schedules |-> "due"] /\ due = {} /\ marking = NoSchedule
    /\ ran = [s \in Schedules |-> 0] /\ faults = 0
-----------------------------------------------------------------------------
(* PublishCtx. The error it returns is logged by every caller and changes nothing. The *)
(* client stores a message until it is acknowledged, and sends what it stores again    *)
(* when it has reconnected. While it is reconnecting it calls itself connected: the    *)
(* wait times out, the message is sent from here, and again once the broker gets it.   *)
(* The wait also times out when the acknowledgement is late or lost: then the broker   *)
(* has the message, and may get it a second time.                                      *)

Holds(q, m) == held' = [held EXCEPT ![q] = @ \cup {m}]

Arrives(ms) == inbox' = [p \in Procs |-> IF link[p] = "on" THEN inbox[p] \cup ms ELSE inbox[p]]

PublishCtx(q, r, sev) ==
    /\ severity[r] = Unpublished /\ \A k \in 1 .. r - 1 : severity[k] # Unpublished
    /\ severity' = [severity EXCEPT ![r] = sev]
    /\ \/ /\ Connected(q) /\ Arrives({First(r)})     \* acknowledged
          /\ UNCHANGED <<held, delivered, faults>>
       \/ /\ Connected(q) /\ Fault(1)                \* an error
          /\ UNCHANGED <<mail, delivered>>
       \/ /\ Connected(q) /\ Fault(1)                \* a timeout
          /\ \/ Arrives({First(r)}) /\ UNCHANGED held
             \/ Arrives({First(r)}) /\ Holds(q, Again(r))
             \/ Holds(q, First(r)) /\ UNCHANGED inbox
          /\ delivered' = [delivered EXCEPT ![q][First(r)] = @ + 1] \/ UNCHANGED delivered
       \/ /\ link[q] = "off" /\ Holds(q, First(r))   \* reconnecting
          /\ UNCHANGED inbox
          /\ \E ok \in BOOLEAN : Sends(q, First(r), ok)

\* Bound: the requests that the schedules may still need.
Reserved == LET waiting == {s \in Schedules : schedule[s] = "due"} IN
            IF waiting = {} THEN 0 ELSE Cardinality(waiting) + MaxFaults - faults

AtWork == {r \in Requests : \E p \in Procs, m \in {First(r), Again(r)} :
                                m \in inbox[p] \/ stage[p][m] # "none"}

\* A rule, a computed metric or the system. The rule engine leaves the severity out.
Publish(q, r, sev) ==
    /\ Running(q) /\ r + Reserved <= MaxRequests /\ Cardinality(AtWork) < MaxAtWork
    /\ PublishCtx(q, r, sev)
    /\ UNCHANGED <<link, job, log, quiet, replays, scheduler>>
-----------------------------------------------------------------------------
(* The consumer: one goroutine per message; the message is acknowledged at once. *)

Receive(p, m) ==
    /\ link[p] = "on" /\ m \in inbox[p]
    /\ inbox' = [inbox EXCEPT ![p] = @ \ {m}]
    /\ stage' = [stage EXCEPT ![p][m] = IF p = Worker THEN "received" ELSE "sending"]
    /\ UNCHANGED <<link, held, tries, log, delivered, severity, quiet, replays, scheduler, faults>>

\* processNotification: the quiet-hours gate. If the lookup fails it delivers anyway.
Decide(m) ==
    /\ link[Worker] # "down" /\ stage[Worker][m] = "received"
    /\ \/ /\ severity[m[1]] \notin quiet /\ ~Stopping(Worker)
          /\ stage' = [stage EXCEPT ![Worker][m] = "sending"] /\ UNCHANGED <<log, faults>>
       \/ /\ Statement(Worker, FALSE)
          /\ stage' = [stage EXCEPT ![Worker][m] = "sending"] /\ UNCHANGED log
       \/ /\ severity[m[1]] \in quiet /\ ~Stopping(Worker)
          /\ \E ok \in BOOLEAN :
                /\ Statement(Worker, ok)
                /\ log' = IF ok THEN [log EXCEPT ![Worker][m] = "deferred"] ELSE log
          /\ stage' = [stage EXCEPT ![Worker][m] = "none"]
    /\ UNCHANGED <<link, mail, tries, delivered, severity, quiet, replays, scheduler>>

\* Seeded fault: the loop goes on after a delivery.
RetryFault(ok, n) == IF n < MaxAttempts THEN "sending" ELSE IF ok THEN "sent" ELSE "failed"

\* Seeded fault: the loop runs once too often.
OnceMoreFault(ok, n) == IF ok THEN "sent" ELSE IF n > MaxAttempts THEN "failed" ELSE "sending"

\* Seeded fault: the outcome of the last attempt is not looked at.
LastAttemptFault(ok, n) == IF ok \/ n = MaxAttempts THEN "sent" ELSE "sending"

\* Seeded fault: a failure ends the goroutine before it writes the row.
FailureFault(ok, n) == IF ok THEN "sent" ELSE IF n = MaxAttempts THEN "none" ELSE "sending"

\* The loop of processNotification, after its nth attempt.
AfterAttempt(ok, n) == IF ok THEN "sent" ELSE IF n = MaxAttempts THEN "failed" ELSE "sending"

Attempt(p, m) ==
    /\ link[p] # "down" /\ stage[p][m] = "sending"
    /\ \E ok \in BOOLEAN :
        LET next == AfterAttempt(ok, tries[p][m] + 1) IN
        /\ Sends(p, m, ok)
        /\ stage' = [stage EXCEPT ![p][m] = next]
        /\ tries' = [tries EXCEPT ![p][m] = IF next = "sending" THEN @ + 1 ELSE 0]
    /\ UNCHANGED <<link, mail, log, severity, quiet, replays, scheduler>>

\* CreateLog with the outcome. An error is logged only.
CreateLog(p, m) ==
    /\ link[p] # "down" /\ stage[p][m] \in {"sent", "failed"}
    /\ \E ok \in BOOLEAN :
        /\ Statement(p, ok)
        /\ log' = IF ok THEN [log EXCEPT ![p][m] = stage[p][m]] ELSE log
    /\ stage' = [stage EXCEPT ![p][m] = "none"]
    /\ UNCHANGED <<link, mail, tries, delivered, severity, quiet, replays, scheduler>>
-----------------------------------------------------------------------------
(* ReplayDeferred, every minute. Its rows are the deferred ones that nobody archived;  *)
(* a tick that finds none does nothing. The decider is asked again for every row.      *)

\* Seeded fault: rows that were sent are listed as well.
ReplayTickFault ==
    /\ Running(Worker) /\ batch = {} /\ replay = "next"
    /\ batch' = {m \in Messages : log[Worker][m] \in {"deferred", "sent"}}
    /\ batch' # {}
    /\ UNCHANGED <<link, mail, job, log, delivered, severity, quiet,
                   replaying, replay, scheduler, faults>>

ReplayTick ==
    /\ Running(Worker) /\ batch = {} /\ replay = "next"
    /\ batch' = {m \in Messages : log[Worker][m] = "deferred"}
    /\ batch' # {}
    /\ UNCHANGED <<link, mail, job, log, delivered, severity, quiet,
                   replaying, replay, scheduler, faults>>

\* Its window is not over, the decider fails, or the channel is gone or disabled.
ReplaySkip(m) ==
    /\ link[Worker] # "down" /\ replay = "next" /\ m \in batch
    /\ batch' = batch \ {m}
    /\ \/ severity[m[1]] \in quiet /\ ~Stopping(Worker) /\ UNCHANGED <<log, faults>>
       \/ Statement(Worker, FALSE) /\ UNCHANGED log
       \/ \E found, ok \in BOOLEAN :
            /\ severity[m[1]] \notin quiet /\ ~Stopping(Worker)
            /\ Fault((IF found THEN 0 ELSE 1) + (IF ok THEN 0 ELSE 1))
            /\ log' = IF ok THEN [log EXCEPT ![Worker][m] = "failed"] ELSE log
    /\ UNCHANGED <<link, mail, job, delivered, severity, quiet, replaying, replay, scheduler>>

ReplaySend(m) ==
    /\ link[Worker] # "down" /\ ~Stopping(Worker) /\ replay = "next" /\ m \in batch
    /\ severity[m[1]] \notin quiet
    /\ batch' = batch \ {m} /\ replaying' = {m}
    /\ \E ok \in BOOLEAN : Sends(Worker, m, ok) /\ replay' = IF ok THEN "sent" ELSE "failed"
    /\ UNCHANGED <<link, mail, job, log, severity, quiet, scheduler>>

\* Seeded fault: only a row that was sent is marked.
ReplayMarkFault(m) ==
    /\ link[Worker] # "down" /\ replay \in {"sent", "failed"} /\ m \in replaying
    /\ \E ok \in BOOLEAN :
        /\ Statement(Worker, ok)
        /\ log' = IF ok /\ replay = "sent" THEN [log EXCEPT ![Worker][m] = replay] ELSE log
    /\ replaying' = {} /\ replay' = "next"
    /\ UNCHANGED <<link, mail, job, delivered, severity, quiet, batch, scheduler>>

\* MarkLogSent, MarkLogFailed. When it fails the row stays deferred.
ReplayMark(m) ==
    /\ link[Worker] # "down" /\ replay \in {"sent", "failed"} /\ m \in replaying
    /\ \E ok \in BOOLEAN :
        /\ Statement(Worker, ok)
        /\ log' = IF ok THEN [log EXCEPT ![Worker][m] = replay] ELSE log
    /\ replaying' = {} /\ replay' = "next"
    /\ UNCHANGED <<link, mail, job, delivered, severity, quiet, batch, scheduler>>

\* The inbox page archives a row, so that no later tick lists it, or takes it out again.
Archive(m) ==
    /\ \/ log[Worker][m] = "deferred" /\ log' = [log EXCEPT ![Worker][m] = "archived"]
       \/ log[Worker][m] = "archived" /\ log' = [log EXCEPT ![Worker][m] = "deferred"]
    /\ UNCHANGED <<link, mail, job, delivered, severity, quiet, replays, scheduler, faults>>
-----------------------------------------------------------------------------
(* The scheduler, every minute: GetDue, then PublishCtx and MarkRun for each. *)

ScheduleTick ==
    /\ Running(Worker) /\ due = {} /\ \E s \in Schedules : schedule[s] = "due"
    /\ due' = {s \in Schedules : schedule[s] = "due"}
    /\ UNCHANGED <<link, mail, job, log, delivered, severity, quiet, replays,
                   schedule, marking, ran, faults>>

\* The look-up of its channel fails: the next tick sees the schedule again.
ScheduleSkip(s) ==
    /\ Running(Worker) /\ s \in due /\ marking = NoSchedule
    /\ Fault(1) /\ due' = due \ {s}
    /\ UNCHANGED <<link, mail, job, log, delivered, severity, quiet, replays,
                   schedule, marking, ran>>

ScheduleSend(s, r) ==
    /\ Running(Worker) /\ s \in due /\ marking = NoSchedule /\ marking' = s
    /\ PublishCtx(Worker, r, Plain) /\ ran' = [ran EXCEPT ![s] = @ + 1]
    /\ UNCHANGED <<link, job, log, quiet, replays, schedule, due>>

\* Seeded fault: the schedule stays due.
MarkRunFault(s, ok) == schedule' = IF ok THEN [schedule EXCEPT ![s] = "due"] ELSE schedule

\* MarkRun: no next run is ever given, so the schedule is disabled.
MarkRun(s, ok) == schedule' = IF ok THEN [schedule EXCEPT ![s] = "done"] ELSE schedule

ScheduleMark ==
    /\ Running(Worker) /\ marking # NoSchedule
    /\ \E ok \in BOOLEAN : Statement(Worker, ok) /\ MarkRun(marking, ok)
    /\ due' = due \ {marking} /\ marking' = NoSchedule
    /\ UNCHANGED <<link, mail, job, log, delivered, severity, quiet, replays, ran>>
-----------------------------------------------------------------------------
(* Connections, processes and windows. *)

\* The session is clean: the broker drops what it has for p. A client that still waits for
\* an acknowledgement has met this fault in PublishCtx.
Disconnect(p) ==
    /\ Connected(p) /\ Fault(IF held[p] = {} THEN 1 ELSE 0)
    /\ link' = [link EXCEPT ![p] = "off"] /\ inbox' = [inbox EXCEPT ![p] = {}]
    /\ UNCHANGED <<held, job, log, delivered, severity, quiet, replays, scheduler>>

\* paho connects again and sends what it stored; Start is past its Subscribe.
Reconnect(p) ==
    /\ link[p] = "off" /\ link' = [link EXCEPT ![p] = "deaf"]
    /\ Arrives(held[p]) /\ held' = [held EXCEPT ![p] = {}]
    /\ UNCHANGED <<job, log, delivered, severity, quiet, replays, scheduler, faults>>

\* SIGTERM: the context is cancelled, and Shutdown waits for the goroutines. A schedule
\* that was published is not marked any more.
Stop ==
    /\ Running(Worker) /\ Fault(1)
    /\ link' = [link EXCEPT ![Worker] = "stopping"] /\ inbox' = [inbox EXCEPT ![Worker] = {}]
    /\ due' = {} /\ marking' = NoSchedule
    /\ UNCHANGED <<held, job, log, delivered, severity, quiet, replays, schedule, ran>>

\* A process ends: at once, or, once it is stopping, when its goroutines are done or time
\* is up. The API process waits for none.
Die(p, n) ==
    /\ Fault(n)
    /\ link' = [link EXCEPT ![p] = "down"]
    /\ inbox' = [inbox EXCEPT ![p] = {}] /\ held' = [held EXCEPT ![p] = {}]
    /\ stage' = [stage EXCEPT ![p] = [m \in Messages |-> "none"]]
    /\ tries' = [tries EXCEPT ![p] = [m \in Messages |-> 0]]
    /\ IF p = Worker
       THEN batch' = {} /\ replaying' = {} /\ replay' = "next" /\ due' = {} /\ marking' = NoSchedule
       ELSE UNCHANGED <<replays, due, marking>>
    /\ UNCHANGED <<log, delivered, severity, quiet, schedule, ran>>
Crash(p) == link[p] # "down" /\ Die(p, 1)
Exit == /\ Stopping(Worker) /\ \A m \in Messages : stage[Worker][m] = "none"
        /\ Die(Worker, 0)

\* Start: a Subscribe whose wait times out counts as done.
Boot(p) ==
    /\ link[p] = "down"
    /\ \E subscribed \in BOOLEAN :
        /\ Fault(IF subscribed THEN 0 ELSE 1)
        /\ link' = [link EXCEPT ![p] = IF subscribed THEN "on" ELSE "deaf"]
    /\ UNCHANGED <<mail, job, log, delivered, severity, quiet, replays, scheduler>>

\* Windows begin and end, and users edit them.
Window ==
    /\ quiet' \in SUBSET Severities /\ quiet' # quiet
    /\ UNCHANGED <<link, mail, job, log, delivered, severity, replays, scheduler, faults>>

\* Windows end while a row waits and the replay is between two ticks.
WindowsEnd == /\ quiet' = {} /\ batch = {} /\ replaying = {} /\ Window
              /\ \E m \in Messages : log[Worker][m] = "deferred"

Consume(p, m) == Receive(p, m) \/ Attempt(p, m) \/ CreateLog(p, m)
Replay(m) == ReplaySkip(m) \/ ReplaySend(m) \/ ReplayMark(m)
ScheduleStep(s) == ScheduleSkip(s) \/ (\E r \in Requests : ScheduleSend(s, r)) \/ ScheduleMark

Next ==
    \/ \E p \in Procs, m \in Messages : Consume(p, m)
    \/ \E p \in Procs, r \in Requests, sev \in Severities : Publish(p, r, sev)
    \/ \E m \in Messages : Decide(m) \/ Replay(m) \/ Archive(m)
    \/ ReplayTick \/ ScheduleTick \/ \E s \in Schedules : ScheduleStep(s)
    \/ \E p \in Procs : Disconnect(p) \/ Reconnect(p) \/ Crash(p) \/ Boot(p)
    \/ Stop \/ Exit \/ Window

Spec == Init /\ [][Next]_vars

\* Goroutines and the loops go on, a dead process is started again, and windows end again and
\* again while a row waits, also between two ticks of the replay, and leave time for the tick
\* and for its rows. Requests, faults and users need not come.
FairSpec ==
    /\ Spec
    /\ \A p \in Procs, m \in Messages : WF_vars(Consume(p, m))
    /\ \A m \in Messages : WF_vars(Decide(m)) /\ WF_vars(Replay(m))
    /\ \A s \in Schedules : WF_vars(ScheduleStep(s))
    /\ WF_vars(ScheduleTick) /\ SF_vars(WindowsEnd) /\ SF_vars(ReplayTick /\ quiet = {})
    /\ SF_vars(quiet = {} /\ \E m \in Messages : ReplaySend(m))
    /\ \A p \in Procs : WF_vars(Boot(p))
    /\ WF_vars(Exit)
-----------------------------------------------------------------------------
Deliveries(r) == delivered[Api][First(r)] + delivered[Worker][First(r)]
                    + delivered[Api][Again(r)] + delivered[Worker][Again(r)]

TypeOK ==
    /\ link \in [Procs -> {"down", "stopping", "off", "deaf", "on"}]
    /\ inbox \in [Procs -> SUBSET Messages] /\ held \in [Procs -> SUBSET Messages]
    /\ stage \in [Procs -> [Messages -> {"none", "received", "sending", "sent", "failed"}]]
    /\ tries \in [Procs -> [Messages -> 0 .. MaxAttempts - 1]]
    /\ log \in [Procs -> [Messages -> {"none", "sent", "failed", "deferred", "archived"}]]
    /\ delivered \in [Procs -> [Messages -> Nat]]
    /\ severity \in [Requests -> Severities \cup {Unpublished}]
    /\ quiet \subseteq Severities
    /\ batch \subseteq Messages /\ replaying \subseteq Messages
    /\ replay \in {"next", "sent", "failed"}
    /\ schedule \in [Schedules -> {"due", "done"}]
    /\ ran \in [Schedules -> Nat]
    /\ due \subseteq Schedules /\ marking \in Schedules \cup {NoSchedule}
    /\ faults \in 0 .. MaxFaults

\* A row says sent only if its process gave the request to the channel.
SentWasDelivered == \A p \in Procs, m \in Messages : log[p][m] = "sent" => delivered[p][m] > 0

\* Without faults a row is exact: a request that its row calls sent was delivered by that
\* process once, whether the gate let it through or the replay sent it later, and one that is
\* failed, deferred or archived, and not in the replay's hands, was not delivered by it at all.
RowsAreExact == faults = 0 => \A p \in Procs, m \in Messages :
    /\ log[p][m] = "sent" => delivered[p][m] = 1
    /\ log[p][m] \in {"failed", "deferred", "archived"} /\ m \notin replaying
            => delivered[p][m] = 0

\* Each of the two consumers delivers a request once. A fault adds one delivery, when it
\* makes them send again what had a lost reply or whose row was not updated; one fault of a
\* request may add two: when its publish times out it is sent directly, and the client sends
\* the message again, though the broker has it.
DuplicatesBounded == \A r \in Requests : Deliveries(r) <= IF faults = 0 THEN 2 ELSE 3 + faults

\* A schedule runs once, and once more for each fault that kept it from being marked.
RunsBounded == \A s \in Schedules : ran[s] <= 1 + faults

\* Without faults no consumer loses a request: it is on its way, at work, or has a row.
NothingLost == faults = 0 => \A p \in Procs, r \in Requests :
    severity[r] # Unpublished =>
        First(r) \in inbox[p] \/ stage[p][First(r)] # "none" \/ log[p][First(r)] # "none"

\* Whatever the faults, every schedule is marked in the end, no message and no goroutine
\* is left, and every deferred row is replayed.
Settles == <>[](/\ \A s \in Schedules : schedule[s] = "done"
                /\ \A p \in Procs, m \in Messages :
                        m \notin inbox[p] /\ stage[p][m] = "none" /\ log[p][m] # "deferred")
=============================================================================
