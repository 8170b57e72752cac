----------------------------- MODULE Automations -----------------------------
(***************************************************************************)
(* Scheduled automations: the API requests that enable and disable them,   *)
(* the retained reload message, and the automation worker, which keeps a   *)
(* cron scheduler in step with the table and runs what it fires.           *)
(*                                                                         *)
(* The worker (cmd/automation-worker) connects with a clean session and    *)
(* subscribes once, so after a lost connection it hears no reload until it *)
(* is started again. Its cron trigger is the only one that is wired: no    *)
(* signal, place or event ever reaches the engine.                         *)
(***************************************************************************)
EXTENDS Integers, FiniteSets

CONSTANTS Automations,
          Schedules,    \* the schedules, with a valid expression, an automation may have
          Owner,        \* the automation of each
          NoSchedule,
          Editors,      \* API requests at work at the same time
          Actions,      \* the length of an automation's chain
          MaxFires,     \* DefaultMaxFires
          Window,       \* DefaultWindow, in ticks
          MaxRuns,      \* bound: runs
          MaxReloads,   \* bound: reload messages under way
          MaxFaults     \* bound: crashes, stops, lost messages and connections, failed calls

Runs == 1 .. MaxRuns

ASSUME AutomationAssumption ==
    /\ Owner \in [Schedules -> Automations] /\ NoSchedule \notin Schedules
    /\ Actions \in Nat /\ MaxFires \in Nat /\ Window \in Nat \ {0}
    /\ MaxRuns \in Nat /\ MaxReloads \in Nat \ {0} /\ MaxFaults \in Nat

VARIABLES
    enabled,                    \* column enabled; FALSE as well for a row that is gone
    triggers,                   \* the schedules whose trigger rows are in the table
    telling,                    \* per request: the changed automations to publish a reload for
    retained, reloads,          \* the broker: a retained reload, those sent to the worker
    missed,                     \* history: an edit that the worker will not hear of
    link,                       \* the worker: down, starting, on, deaf or stopping
    loader, found,              \* Start or Reload: its step, the rows left
    jobs, entry, ticking,       \* the scheduler's jobs, t.entries, and whether it runs
    who, job,                   \* per run: its automation, the job that waits for its end
    step, did,                  \* its step, actions that succeeded
    acted,                      \* history: runs that called an action, so may have had an effect
    age, admitted,              \* ticks since RecordFire; history: runs it let pass
    row,                        \* per run: its row in automation_history
    faults                      \* history: faults so far

table     == <<enabled, triggers>>
broker    == <<retained, reloads, missed>>
loading   == <<loader, found>>
scheduler == <<jobs, entry, ticking>>
besideRuns == <<table, telling, broker, link, loading, scheduler>>
runs      == <<who, job, step, did, acted, age, admitted, row>>
vars == <<enabled, triggers, telling, retained, reloads, missed, link, loader, found, jobs,
          entry, ticking, who, job, step, did, acted, age, admitted, row, faults>>

-----------------------------------------------------------------------------
Fault(n) == faults + n <= MaxFaults /\ faults' = faults + n
Up == link \in {"on", "deaf", "stopping"}
Live(r) == step[r] \notin {"none", "done"}

\* A statement of a run. Stop cancels the context first, so then every one fails.
Statement(ok) == IF link = "stopping" THEN ~ok /\ UNCHANGED faults
                 ELSE Fault(IF ok THEN 0 ELSE 1)

SchedulesOf(a) == {s \in Schedules : Owner[s] = a}

\* The rows of enabled automations.
Due == {s \in triggers : enabled[Owner[s]]}

Init ==
    /\ enabled \in [Automations -> BOOLEAN] /\ triggers \in SUBSET Schedules
    /\ telling = [e \in Editors |-> {}]
    /\ retained \in BOOLEAN /\ reloads = 0 /\ missed = FALSE
    /\ link = "down" /\ loader = "idle" /\ found = {}
    /\ jobs = {} /\ entry = [a \in Automations |-> NoSchedule] /\ ticking = FALSE
    /\ who \in [Runs -> Automations] /\ job = [r \in Runs |-> NoSchedule]
    /\ step = [r \in Runs |-> "none"] /\ did = [r \in Runs |-> 0] /\ acted = {}
    /\ age = [r \in Runs |-> Window] /\ admitted = {} /\ row = [r \in Runs |-> "none"]
    /\ faults = 0
-----------------------------------------------------------------------------
(* The API. Reading first does not matter: what a request writes back may be    *)
(* anything by the time it is written.                                          *)

\* Toggle, Delete and BulkUpdate enable automations or disable them.
SetEnabled(ids, v) ==
    /\ enabled' = [a \in Automations |-> IF a \in ids THEN v ELSE enabled[a]]
    /\ UNCHANGED triggers

\* Create and Update replace the trigger rows of one automation in the same transaction.
Replace(ids, v) ==
    \E a \in Automations :
        /\ ids = {a} /\ enabled' = [enabled EXCEPT ![a] = v]
        /\ \E new \in SUBSET SchedulesOf(a) : triggers' = (triggers \ SchedulesOf(a)) \cup new

\* When only the reply is lost the request returns an error, and publishes nothing.
Commit(e) ==
    /\ telling[e] = {}
    /\ \E ids \in (SUBSET Automations) \ {{}}, v \in BOOLEAN :
        /\ SetEnabled(ids, v) \/ Replace(ids, v)
        /\ \/ telling' = [telling EXCEPT ![e] = ids] /\ UNCHANGED <<missed, faults>>
           \/ missed' = TRUE /\ Fault(1) /\ UNCHANGED telling
    /\ UNCHANGED <<retained, reloads, link, loading, scheduler, runs>>

\* Seeded fault: the reload is not retained.
PublishReloadFault(e, a) ==
    /\ a \in telling[e] /\ reloads < MaxReloads /\ telling' = [telling EXCEPT ![e] = @ \ {a}]
    /\ \/ /\ reloads' = IF link = "on" THEN reloads + 1 ELSE reloads
          /\ missed' = (missed \/ link = "deaf") /\ UNCHANGED <<faults, retained>>
       \/ missed' = TRUE /\ Fault(1) /\ UNCHANGED <<retained, reloads>>
    /\ UNCHANGED <<table, link, loading, scheduler, runs>>

\* One message per automation, retained, at QoS 0; a client that is not connected drops it.
PublishReload(e, a) ==
    /\ a \in telling[e] /\ reloads < MaxReloads /\ telling' = [telling EXCEPT ![e] = @ \ {a}]
    /\ \/ /\ retained' = TRUE /\ reloads' = IF link = "on" THEN reloads + 1 ELSE reloads
          /\ missed' = (missed \/ link = "deaf") /\ UNCHANGED faults
       \/ missed' = TRUE /\ Fault(1) /\ UNCHANGED <<retained, reloads>>
    /\ UNCHANGED <<table, link, loading, scheduler, runs>>
-----------------------------------------------------------------------------
(* CronTrigger: Start, which a worker that boots has to begin, and Reload.    *)

\* A job that is removed no longer waits for its run, which goes on.
Remove(gone) == job' = [r \in Runs |-> IF job[r] \in gone THEN NoSchedule ELSE job[r]]

\* LoadEnabledScheduleTriggers: by Start, or by Reload for a message, one at a time, which
\* then drops every job. When it fails Reload keeps what it has; Start returns before it
\* starts the scheduler, and nothing else does.
Read ==
    /\ \/ loader = "reading" /\ UNCHANGED reloads
       \/ Up /\ loader = "idle" /\ reloads > 0 /\ reloads' = reloads - 1
    /\ \/ /\ found' = Due /\ loader' = "adding" /\ missed' = FALSE
          /\ LET gone == {entry[a] : a \in Automations} IN jobs' = jobs \ gone /\ Remove(gone)
          /\ entry' = [a \in Automations |-> NoSchedule]
          /\ UNCHANGED faults
       \/ /\ loader' = "idle" /\ missed' = TRUE /\ Fault(1)
          /\ UNCHANGED <<found, jobs, entry, job>>
    /\ UNCHANGED <<table, telling, retained, link, ticking, who, step, did, acted, age, admitted,
                   row>>

\* Seeded fault: the old job stays.
RegisterFault(s) ==
    /\ loader = "adding" /\ s \in found /\ found' = found \ {s}
    /\ jobs' = jobs \cup {s} /\ entry' = [entry EXCEPT ![Owner[s]] = s]
    /\ UNCHANGED <<table, telling, broker, link, loader, ticking, runs, faults>>

\* Register: the new job takes the place of the automation's old one, so of several
\* schedules one stays.
Register(s) ==
    /\ loader = "adding" /\ s \in found /\ found' = found \ {s}
    /\ LET old == entry[Owner[s]] IN jobs' = (jobs \ {old}) \cup {s} /\ Remove({old})
    /\ entry' = [entry EXCEPT ![Owner[s]] = s]
    /\ UNCHANGED <<table, telling, broker, link, loader, ticking, who, step, did, acted,
                   age, admitted, row, faults>>

Loaded ==
    /\ loader = "adding" /\ found = {} /\ loader' = "idle"
    /\ ticking' = (ticking \/ link = "starting")
    /\ UNCHANGED <<table, telling, broker, link, found, jobs, entry, runs, faults>>
-----------------------------------------------------------------------------
(* A run: fire and Evaluate. *)

\* SkipIfStillRunning: a job waits for its own run only.
Fire(s, r) ==
    /\ ticking /\ s \in jobs /\ \A q \in Runs : job[q] # s
    /\ step[r] = "none" /\ \A q \in 1 .. r - 1 : step[q] # "none"
    /\ who' = [who EXCEPT ![r] = Owner[s]] /\ job' = [job EXCEPT ![r] = s]
    /\ step' = [step EXCEPT ![r] = "loading"]
    /\ UNCHANGED <<besideRuns, did, acted, age, admitted, row, faults>>

\* A run that comes to its end frees its job.
Turn(r, to) ==
    /\ step' = [step EXCEPT ![r] = to]
    /\ job' = [job EXCEPT ![r] = IF to = "done" THEN NoSchedule ELSE @]

Recent(a) == {r \in Runs : age[r] < Window /\ who[r] = a}

\* Seeded fault: the fire at hand is not counted.
ExceededFault(a) == Cardinality(Recent(a)) > MaxFires

Exceeded(a) == Cardinality(Recent(a)) + 1 > MaxFires

\* GetByID, and then BeforeExecute. A disabled automation is not run, whatever the scheduler
\* knows. A fire that is blocked counts as well; SetAutoDisabled does nothing.
Load(r) ==
    /\ step[r] = "loading"
    /\ \E ok \in BOOLEAN :
        /\ Statement(ok)
        /\ IF ok /\ enabled[who[r]]
           THEN /\ age' = [age EXCEPT ![r] = 0]
                /\ IF Exceeded(who[r])
                   THEN Turn(r, "skipping") /\ UNCHANGED admitted
                   ELSE Turn(r, "judging") /\ admitted' = admitted \cup {r}
           ELSE Turn(r, "done") /\ UNCHANGED <<age, admitted>>
    /\ UNCHANGED <<besideRuns, who, did, acted, row>>

\* Seeded fault: the chain runs although its row could not be inserted.
JudgeUnrecordedFault(r) ==
    /\ step[r] = "judging"
    /\ \/ \E ok \in BOOLEAN :
            /\ Statement(ok) /\ Turn(r, "acting")
            /\ row' = IF ok THEN [row EXCEPT ![r] = "running"] ELSE row
       \/ Turn(r, "skipping") /\ UNCHANGED <<row, faults>>
    /\ UNCHANGED <<besideRuns, who, did, acted, age, admitted>>

\* The conditions are met, and the row is inserted, or they are not.
Judge(r) ==
    /\ step[r] = "judging"
    /\ \/ \E ok \in BOOLEAN :
            /\ Statement(ok) /\ Turn(r, IF ok THEN "acting" ELSE "done")
            /\ row' = IF ok THEN [row EXCEPT ![r] = "running"] ELSE row
       \/ Turn(r, "skipping") /\ UNCHANGED <<row, faults>>
    /\ UNCHANGED <<besideRuns, who, did, acted, age, admitted>>

RecordSkipped(r) ==
    /\ step[r] = "skipping" /\ Turn(r, "done")
    /\ \E ok \in BOOLEAN :
        Statement(ok) /\ row' = IF ok THEN [row EXCEPT ![r] = "skipped"] ELSE row
    /\ UNCHANGED <<besideRuns, who, did, acted, age, admitted>>

\* Seeded fault: the chain runs past its end.
ExecuteFault(r) ==
    /\ step[r] = "acting" /\ link # "stopping" /\ did[r] <= Actions
    /\ acted' = acted \cup {r}
    /\ \/ did' = [did EXCEPT ![r] = @ + 1] /\ UNCHANGED <<step, job>>
       \/ Turn(r, "failing") /\ UNCHANGED did
    /\ UNCHANGED <<besideRuns, who, age, admitted, row, faults>>

\* ChainExecutor.Execute: one action, which succeeds or ends the chain. One that fails may
\* have acted all the same, when a fleet command reached some vehicles or only a reply was
\* lost, so a run that called an action counts as one that may have had an effect.
Execute(r) ==
    /\ step[r] = "acting" /\ link # "stopping" /\ did[r] < Actions
    /\ acted' = acted \cup {r}
    /\ \/ did' = [did EXCEPT ![r] = @ + 1] /\ UNCHANGED <<step, job>>
       \/ Turn(r, "failing") /\ UNCHANGED did
    /\ UNCHANGED <<besideRuns, who, age, admitted, row, faults>>

\* Once the context is cancelled the rest of the chain is skipped, which is no failure.
ChainEnded(r) == \/ step[r] = "failing"
                 \/ step[r] = "acting" /\ (did[r] = Actions \/ link = "stopping")

Status(r) == IF step[r] = "acting" THEN "success"
             ELSE IF did[r] = 0 THEN "failed" ELSE "partial"

\* Seeded fault: the row is completed under a context of its own.
CompleteHistoryFault(r) ==
    /\ ChainEnded(r) /\ Turn(r, "done") /\ row' = [row EXCEPT ![r] = Status(r)]
    /\ UNCHANGED <<besideRuns, who, did, acted, age, admitted, faults>>

CompleteHistory(r) ==
    /\ ChainEnded(r) /\ Turn(r, "done")
    /\ \E ok \in BOOLEAN :
        Statement(ok) /\ row' = IF ok THEN [row EXCEPT ![r] = Status(r)] ELSE row
    /\ UNCHANGED <<besideRuns, who, did, acted, age, admitted>>

Tick ==
    /\ \E r \in Runs : age[r] < Window
    /\ age' = [r \in Runs |-> IF age[r] < Window THEN age[r] + 1 ELSE Window]
    /\ admitted' = {r \in admitted : age'[r] < Window}
    /\ UNCHANGED <<besideRuns, who, job, step, did, acted, row, faults>>
-----------------------------------------------------------------------------
(* The worker's life. *)

Boot ==
    /\ link = "down" /\ link' = "starting" /\ loader' = "reading"
    /\ UNCHANGED <<table, telling, broker, found, scheduler, runs, faults>>

\* Seeded fault: the worker does not wait for the retained message.
SubscribeFault ==
    /\ link = "starting" /\ loader = "idle"
    /\ \/ link' = "on" /\ UNCHANGED <<reloads, missed, faults>>
       \/ link' = "deaf" /\ missed' = TRUE /\ Fault(1) /\ UNCHANGED reloads
    /\ UNCHANGED <<table, telling, retained, loading, scheduler, runs>>

\* The broker sends the retained message at once.
Subscribe ==
    /\ link = "starting" /\ loader = "idle"
    /\ \/ link' = "on" /\ reloads' = (IF retained THEN 1 ELSE 0) /\ UNCHANGED <<missed, faults>>
       \/ link' = "deaf" /\ missed' = TRUE /\ Fault(1) /\ UNCHANGED reloads
    /\ UNCHANGED <<table, telling, retained, loading, scheduler, runs>>

Disconnect ==
    /\ link = "on" /\ link' = "deaf" /\ Fault(1)
    /\ reloads' = 0 /\ missed' = (missed \/ reloads > 0)
    /\ UNCHANGED <<table, telling, retained, loading, scheduler, runs>>

\* SIGTERM: the cron trigger cancels its context, stops the scheduler and waits for its runs.
Stop ==
    /\ link \in {"on", "deaf"} /\ link' = "stopping" /\ ticking' = FALSE /\ Fault(1)
    /\ UNCHANGED <<table, telling, broker, loading, jobs, entry, runs>>

Die(n) ==
    /\ Fault(n) /\ link' = "down" /\ reloads' = 0
    /\ loader' = "idle" /\ found' = {}
    /\ jobs' = {} /\ entry' = [a \in Automations |-> NoSchedule] /\ ticking' = FALSE
    /\ step' = [r \in Runs |-> IF Live(r) THEN "done" ELSE step[r]]
    /\ job' = [r \in Runs |-> NoSchedule] /\ age' = [r \in Runs |-> Window] /\ admitted' = {}
    /\ UNCHANGED <<table, telling, retained, missed, who, did, acted, row>>
Crash == link # "down" /\ Die(1)
Exit == link = "stopping" /\ (\A r \in Runs : ~Live(r)) /\ Die(0)

Reload == Read \/ (\E s \in Schedules : Register(s)) \/ Loaded
Evaluate(r) == Load(r) \/ Judge(r) \/ RecordSkipped(r) \/ Execute(r) \/ CompleteHistory(r)

Next ==
    \/ \E e \in Editors : Commit(e) \/ \E a \in Automations : PublishReload(e, a)
    \/ \E r \in Runs : Evaluate(r) \/ \E s \in Schedules : Fire(s, r)
    \/ Reload \/ Tick
    \/ Boot \/ Subscribe \/ Disconnect \/ Stop \/ Crash \/ Exit

Spec == Init /\ [][Next]_vars

\* What has begun goes on, and a worker that ended is started again. Schedules, users and
\* faults need not come.
FairSpec ==
    /\ Spec
    /\ \A e \in Editors : WF_vars(\E a \in Automations : PublishReload(e, a))
    /\ \A r \in Runs : WF_vars(Evaluate(r))
    /\ WF_vars(Reload) /\ WF_vars(Boot \/ Subscribe \/ Exit)
-----------------------------------------------------------------------------
TypeOK ==
    /\ enabled \in [Automations -> BOOLEAN] /\ triggers \subseteq Schedules
    /\ telling \in [Editors -> SUBSET Automations]
    /\ retained \in BOOLEAN /\ reloads \in 0 .. MaxReloads /\ missed \in BOOLEAN
    /\ link \in {"down", "starting", "on", "deaf", "stopping"}
    /\ loader \in {"idle", "reading", "adding"} /\ found \subseteq Schedules
    /\ jobs \subseteq Schedules /\ entry \in [Automations -> Schedules \cup {NoSchedule}]
    /\ ticking \in BOOLEAN
    /\ who \in [Runs -> Automations] /\ job \in [Runs -> Schedules \cup {NoSchedule}]
    /\ step \in [Runs -> {"none", "loading", "judging", "skipping", "acting", "failing", "done"}]
    /\ did \in [Runs -> 0 .. Actions] /\ acted \subseteq Runs
    /\ age \in [Runs -> 0 .. Window] /\ admitted \subseteq Runs
    /\ row \in [Runs -> {"none", "running", "success", "partial", "failed", "skipped"}]
    /\ faults \in 0 .. MaxFaults

Scheduled(a) == entry[a] # NoSchedule
DueOf(a) == Due \cap SchedulesOf(a)
Wanted(a) == DueOf(a) # {}

\* Once every request has published, every message has been handled and none was lost, the
\* scheduler runs each automation by a schedule the table has for it and no other, and by
\* none where it is disabled or has none, whatever the order in which requests, reloads and
\* the start of the worker overlapped: a schedule that an update replaced is gone, and a
\* reload that comes before the worker listens is kept for it by the broker.
ScheduleIsCurrent ==
    /\ link = "on" /\ loader = "idle" /\ reloads = 0 /\ ~missed
    /\ \A e \in Editors : telling[e] = {}
    => \A a \in Automations : entry[a] \in IF Wanted(a) THEN DueOf(a) ELSE {NoSchedule}

\* No job is in the scheduler that a reload would not find and remove, so no automation is
\* fired by a schedule it no longer has for longer than a reload takes.
NoStrayJob == \A s \in jobs : s = entry[Owner[s]]

\* A row says success only if the whole chain ran. A chain cut short by a shutdown would call
\* itself a success too; that its row is never written is what keeps this true.
SuccessIsComplete == \A r \in Runs : row[r] = "success" => did[r] = Actions

\* Whatever happens to the worker, no action is called off the record: its run has a row,
\* which never says skipped, says failed only if no action succeeded (one may have acted all
\* the same) and partial only if some did and some did not; and a row that still says
\* running after its run is the mark of a fault.
HistoryIsComplete ==
    \A r \in Runs :
        /\ r \in acted => row[r] \in {"running", "success", "partial", "failed"}
        /\ row[r] = "failed" => did[r] = 0
        /\ row[r] = "partial" => 0 < did[r] /\ did[r] < Actions
        /\ row[r] = "running" /\ ~Live(r) => faults > 0

\* In any window of a worker's life at most MaxFires runs of an automation pass the
\* rapid-fire check, those of jobs that a reload replaced included.
RapidFireBounded ==
    \A a \in Automations : Cardinality(Recent(a) \cap admitted) <= MaxFires

\* Again and again the runs of an automation are over and, unless it is disabled or a message
\* was lost, it is scheduled: no request, reload, start or run of the worker gets stuck.
Settles ==
    \A a \in Automations :
        []<>( /\ Wanted(a) /\ ~missed => Scheduled(a)
              /\ \A r \in Runs : who[r] = a => ~Live(r) )
=============================================================================
