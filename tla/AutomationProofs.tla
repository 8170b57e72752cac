-------------------------- MODULE AutomationProofs --------------------------
(***************************************************************************)
(* Theorems about Automations, for every set of automations and schedules, *)
(* every number of requests, runs and faults, and every limit.             *)
(***************************************************************************)
EXTENDS Automations, FiniteSetTheorems, TLAPS

Steps == {"none", "loading", "judging", "skipping", "acting", "failing", "done"}
Rows == {"none", "running", "success", "partial", "failed", "skipped"}

\* TypeOK by the parts of the state that actions share.
TypeBroker ==
    /\ enabled \in [Automations -> BOOLEAN] /\ triggers \subseteq Schedules
    /\ telling \in [Editors -> SUBSET Automations]
    /\ retained \in BOOLEAN /\ reloads \in 0 .. MaxReloads /\ missed \in BOOLEAN
TypeWorker ==
    /\ link \in {"down", "starting", "on", "deaf", "stopping"}
    /\ loader \in {"idle", "reading", "adding"} /\ found \subseteq Schedules
    /\ jobs \subseteq Schedules /\ entry \in [Automations -> Schedules \cup {NoSchedule}]
    /\ ticking \in BOOLEAN
TypeRuns ==
    /\ who \in [Runs -> Automations] /\ job \in [Runs -> Schedules \cup {NoSchedule}]
    /\ step \in [Runs -> Steps] /\ did \in [Runs -> 0 .. Actions]
    /\ acted \subseteq Runs /\ age \in [Runs -> 0 .. Window] /\ admitted \subseteq Runs
    /\ row \in [Runs -> Rows]
TypeFaults == faults \in 0 .. MaxFaults

\* The parts are the type invariant.
LEMMA TypeParts ==
    /\ TypeOK <=> TypeBroker /\ TypeWorker /\ TypeRuns /\ TypeFaults
    /\ TypeOK' <=> TypeBroker' /\ TypeWorker' /\ TypeRuns' /\ TypeFaults'
  BY DEF TypeOK, TypeBroker, TypeWorker, TypeRuns, TypeFaults, Steps, Rows

\* The variables of each part.
brokerVars == <<enabled, triggers, telling, retained, reloads, missed>>
workerVars == <<link, loader, found, jobs, entry, ticking>>

\* What an action leaves alone keeps its type.
LEMMA SameBroker == TypeBroker /\ UNCHANGED brokerVars => TypeBroker'
  BY DEF TypeBroker, brokerVars
LEMMA SameWorker == TypeWorker /\ UNCHANGED workerVars => TypeWorker'
  BY DEF TypeWorker, workerVars
LEMMA SameRuns == TypeRuns /\ UNCHANGED runs => TypeRuns'
  BY DEF TypeRuns, runs

\* A fault, or a statement of a run, stays within the bound on faults.
LEMMA FaultType == \A n \in {0, 1} : TypeFaults /\ Fault(n) => TypeFaults'
  BY AutomationAssumption DEF TypeFaults, Fault
LEMMA SameFaults == TypeFaults /\ UNCHANGED faults => TypeFaults'
  BY DEF TypeFaults
LEMMA StatementType == \A ok \in BOOLEAN : TypeFaults /\ Statement(ok) => TypeFaults'
  BY FaultType, SameFaults DEF Statement

\* The program starts with every variable of its type.
LEMMA InitType == Init => TypeOK
  <1> SUFFICES ASSUME Init PROVE TypeBroker /\ TypeWorker /\ TypeRuns /\ TypeFaults
    BY TypeParts
  <1>1. TypeBroker
    <2>1. telling \in [Editors -> SUBSET Automations]
      BY DEF Init
    <2>2. reloads \in 0 .. MaxReloads
      BY AutomationAssumption DEF Init
    <2> QED BY <2>1, <2>2 DEF Init, TypeBroker
  <1>3. TypeWorker
    BY AutomationAssumption DEF Init, TypeWorker
  <1>2. TypeRuns /\ TypeFaults
    BY AutomationAssumption DEF Init, TypeRuns, TypeFaults, Steps, Rows
  <1> QED BY <1>1, <1>2, <1>3

\* The API's actions.
LEMMA ApiTypes ==
    ASSUME TypeOK,
           \/ \E e \in Editors : Commit(e)
           \/ \E e \in Editors, a \in Automations : PublishReload(e, a)
    PROVE  TypeOK'
  <1> USE TypeParts
  <1>1. ASSUME NEW e \in Editors, Commit(e) PROVE TypeOK'
    <2> PICK ids \in (SUBSET Automations) \ {{}}, v \in BOOLEAN :
           /\ SetEnabled(ids, v) \/ Replace(ids, v)
           /\ \/ telling' = [telling EXCEPT ![e] = ids] /\ UNCHANGED <<missed, faults>>
              \/ missed' = TRUE /\ Fault(1) /\ UNCHANGED telling
      BY <1>1 DEF Commit
    <2>1. enabled' \in [Automations -> BOOLEAN] /\ triggers' \subseteq Schedules
      <3>1. CASE SetEnabled(ids, v)
        BY <3>1 DEF SetEnabled, TypeBroker
      <3>2. CASE Replace(ids, v)
        BY <3>2 DEF Replace, SchedulesOf, TypeBroker
      <3> QED BY <3>1, <3>2
    <2>2. telling' \in [Editors -> SUBSET Automations] /\ missed' \in BOOLEAN
      BY DEF TypeBroker
    <2>3. TypeBroker'
      BY <1>1, <2>1, <2>2 DEF Commit, TypeBroker
    <2>4. TypeWorker' /\ TypeRuns'
      BY <1>1, SameWorker, SameRuns DEF Commit, workerVars, loading, scheduler
    <2>5. TypeFaults'
      <3>1. Fault(1) \/ UNCHANGED faults
        OBVIOUS
      <3> QED BY <3>1, FaultType, SameFaults
    <2> QED BY <2>3, <2>4, <2>5
  <1>2. ASSUME NEW e \in Editors, NEW a \in Automations, PublishReload(e, a) PROVE TypeOK'
    <2>1. telling' \in [Editors -> SUBSET Automations] /\ UNCHANGED table
      BY <1>2 DEF PublishReload, TypeBroker
    <2>2. retained' \in BOOLEAN /\ missed' \in BOOLEAN /\ reloads' \in 0 .. MaxReloads
      <3>1. reloads + 1 \in 0 .. MaxReloads
        BY <1>2, AutomationAssumption DEF PublishReload, TypeBroker
      <3> QED BY <1>2, <3>1 DEF PublishReload, TypeBroker
    <2>3. TypeBroker'
      BY <2>1, <2>2 DEF TypeBroker, table
    <2>4. TypeWorker' /\ TypeRuns'
      BY <1>2, SameWorker, SameRuns DEF PublishReload, workerVars, loading, scheduler
    <2>5. TypeFaults'
      BY <1>2, FaultType, SameFaults DEF PublishReload
    <2> QED BY <2>3, <2>4, <2>5
  <1> QED BY <1>1, <1>2

\* Start and Reload.
LEMMA ReloadTypes == ASSUME TypeOK, Reload PROVE TypeOK'
  <1> USE TypeParts
  <1>1. ASSUME Read PROVE TypeOK'
    <2>1. reloads' \in 0 .. MaxReloads
      BY <1>1, AutomationAssumption DEF Read, TypeBroker
    <2>2. TypeBroker'
      BY <1>1, <2>1 DEF Read, TypeBroker, table
    <2>3. Due \subseteq Schedules
      BY DEF Due, TypeBroker
    <2>4. /\ loader' \in {"idle", "adding"} /\ found' \subseteq Schedules
          /\ jobs' \subseteq Schedules /\ entry' \in [Automations -> Schedules \cup {NoSchedule}]
      BY <1>1, <2>3 DEF Read, TypeWorker
    <2>5. TypeWorker'
      BY <1>1, <2>4 DEF Read, TypeWorker
    <2>6. TypeRuns'
      BY <1>1 DEF Read, Remove, TypeRuns
    <2>7. TypeFaults'
      BY <1>1, FaultType, SameFaults DEF Read
    <2> QED BY <2>2, <2>5, <2>6, <2>7
  <1>2. ASSUME NEW s \in Schedules, Register(s) PROVE TypeOK'
    <2>1. TypeBroker' /\ TypeFaults'
      BY <1>2, SameBroker, SameFaults DEF Register, brokerVars, broker, table
    <2>2. TypeWorker'
      BY <1>2, AutomationAssumption DEF Register, TypeWorker
    <2>3. TypeRuns'
      BY <1>2 DEF Register, Remove, TypeRuns
    <2> QED BY <2>1, <2>2, <2>3
  <1>3. ASSUME Loaded PROVE TypeOK'
    <2>1. TypeBroker' /\ TypeFaults' /\ TypeRuns'
      BY <1>3, SameBroker, SameFaults, SameRuns DEF Loaded, brokerVars, broker, table
    <2>2. TypeWorker'
      BY <1>3 DEF Loaded, TypeWorker
    <2> QED BY <2>1, <2>2
  <1> QED BY <1>1, <1>2, <1>3 DEF Reload

\* A run's step and its job keep their types.
LEMMA TurnType ==
    ASSUME NEW r \in Runs, NEW to \in Steps, TypeRuns, Turn(r, to)
    PROVE  step' \in [Runs -> Steps] /\ job' \in [Runs -> Schedules \cup {NoSchedule}]
  BY DEF Turn, TypeRuns

\* What every step of a run leaves alone.
LEMMA EvaluateFrame ==
    ASSUME NEW r \in Runs, Evaluate(r)
    PROVE  UNCHANGED brokerVars /\ UNCHANGED workerVars /\ UNCHANGED who
  BY DEF Evaluate, Load, Judge, RecordSkipped, Execute, CompleteHistory, besideRuns,
         brokerVars, workerVars, table, broker, loading, scheduler

\* A step of a run.
LEMMA EvaluateTypes ==
    ASSUME TypeOK, NEW r \in Runs, Evaluate(r)
    PROVE  TypeOK'
  <1> USE TypeParts
  <1>1. TypeBroker' /\ TypeWorker' /\ who' \in [Runs -> Automations]
    BY EvaluateFrame, SameBroker, SameWorker DEF TypeRuns
  <1>2. ASSUME Load(r) PROVE TypeOK'
    <2> PICK ok \in BOOLEAN :
           /\ Statement(ok)
           /\ IF ok /\ enabled[who[r]]
              THEN /\ age' = [age EXCEPT ![r] = 0]
                   /\ IF Exceeded(who[r])
                      THEN Turn(r, "skipping") /\ UNCHANGED admitted
                      ELSE Turn(r, "judging") /\ admitted' = admitted \cup {r}
              ELSE Turn(r, "done") /\ UNCHANGED <<age, admitted>>
      BY <1>2 DEF Load
    <2>1. step' \in [Runs -> Steps] /\ job' \in [Runs -> Schedules \cup {NoSchedule}]
      BY TurnType DEF Steps
    <2>2. 0 \in 0 .. Window
      BY AutomationAssumption
    <2>3. age' \in [Runs -> 0 .. Window] /\ admitted' \subseteq Runs
      BY <2>2 DEF TypeRuns
    <2>4. did' \in [Runs -> 0 .. Actions] /\ acted' \subseteq Runs /\ row' \in [Runs -> Rows]
      BY <1>2 DEF Load, TypeRuns
    <2> QED BY <1>1, <2>1, <2>3, <2>4, StatementType DEF TypeRuns
  <1>3. ASSUME Judge(r) PROVE TypeOK'
    <2>1. /\ TypeFaults'
          /\ step' \in [Runs -> Steps] /\ job' \in [Runs -> Schedules \cup {NoSchedule}]
          /\ row' \in [Runs -> Rows]
      <3>1. CASE \E ok \in BOOLEAN :
                   /\ Statement(ok) /\ Turn(r, IF ok THEN "acting" ELSE "done")
                   /\ row' = IF ok THEN [row EXCEPT ![r] = "running"] ELSE row
        <4> PICK ok \in BOOLEAN :
                   /\ Statement(ok) /\ Turn(r, IF ok THEN "acting" ELSE "done")
                   /\ row' = IF ok THEN [row EXCEPT ![r] = "running"] ELSE row
          BY <3>1
        <4>1. row' \in [Runs -> Rows]
          BY DEF TypeRuns, Rows
        <4>2. (IF ok THEN "acting" ELSE "done") \in Steps
          BY DEF Steps
        <4> QED BY <4>1, <4>2, TurnType, StatementType
      <3>2. CASE Turn(r, "skipping") /\ UNCHANGED <<row, faults>>
        BY <3>2, TurnType, SameFaults DEF TypeRuns, Steps
      <3> QED BY <1>3, <3>1, <3>2 DEF Judge
    <2>2. /\ did' \in [Runs -> 0 .. Actions] /\ acted' \subseteq Runs
          /\ age' \in [Runs -> 0 .. Window] /\ admitted' \subseteq Runs
      BY <1>3 DEF Judge, TypeRuns
    <2> QED BY <1>1, <2>1, <2>2 DEF TypeRuns
  <1>4. ASSUME RecordSkipped(r) \/ CompleteHistory(r) PROVE TypeOK'
    <2>1. Turn(r, "done") /\ UNCHANGED <<did, acted, age, admitted>>
      BY <1>4 DEF RecordSkipped, CompleteHistory
    <2>2. step' \in [Runs -> Steps] /\ job' \in [Runs -> Schedules \cup {NoSchedule}]
      BY <2>1, TurnType DEF Steps
    <2>3. PICK ok \in BOOLEAN, w \in Rows :
             Statement(ok) /\ row' = IF ok THEN [row EXCEPT ![r] = w] ELSE row
      BY <1>4 DEF RecordSkipped, CompleteHistory, Status, Rows
    <2>4. row' \in [Runs -> Rows] /\ TypeFaults'
      BY <2>3, StatementType DEF TypeRuns
    <2> QED BY <1>1, <2>1, <2>2, <2>4 DEF TypeRuns
  <1>5. ASSUME Execute(r) PROVE TypeOK'
    <2>1. did[r] < Actions /\ acted' \subseteq Runs /\ UNCHANGED <<age, admitted, row, faults>>
      BY <1>5 DEF Execute, TypeRuns
    <2>2. CASE did' = [did EXCEPT ![r] = @ + 1] /\ UNCHANGED <<step, job>>
      <3>1. did[r] + 1 \in 0 .. Actions
        BY <2>1, AutomationAssumption DEF TypeRuns
      <3>2. did' \in [Runs -> 0 .. Actions]
        BY <2>2, <3>1 DEF TypeRuns
      <3> QED BY <1>1, <2>1, <2>2, <3>2, SameFaults DEF TypeRuns
    <2>3. CASE Turn(r, "failing") /\ UNCHANGED did
      <3>1. step' \in [Runs -> Steps] /\ job' \in [Runs -> Schedules \cup {NoSchedule}]
        BY <2>3, TurnType DEF Steps
      <3> QED BY <1>1, <2>1, <2>3, <3>1, SameFaults DEF TypeRuns
    <2> QED BY <1>5, <2>2, <2>3 DEF Execute
  <1> QED BY <1>2, <1>3, <1>4, <1>5 DEF Evaluate

\* The cron scheduler and the clock.
LEMMA ClockTypes ==
    ASSUME TypeOK, Tick \/ \E r \in Runs, s \in Schedules : Fire(s, r)
    PROVE  TypeOK'
  <1> USE TypeParts
  <1>1. ASSUME Tick PROVE TypeOK'
    <2>1. age' \in [Runs -> 0 .. Window]
      BY <1>1, AutomationAssumption DEF Tick, TypeRuns
    <2>2. admitted' \subseteq Runs /\ UNCHANGED <<who, job, step, did, acted, row>>
      BY <1>1 DEF Tick, TypeRuns
    <2>3. TypeBroker' /\ TypeWorker' /\ TypeFaults'
      BY <1>1, SameBroker, SameWorker, SameFaults
         DEF Tick, besideRuns, brokerVars, workerVars, table, broker, loading, scheduler
    <2> QED BY <2>1, <2>2, <2>3 DEF TypeRuns
  <1>2. ASSUME NEW r \in Runs, NEW s \in Schedules, Fire(s, r) PROVE TypeOK'
    <2>1. who' \in [Runs -> Automations] /\ job' \in [Runs -> Schedules \cup {NoSchedule}]
      BY <1>2, AutomationAssumption DEF Fire, TypeRuns
    <2>2. step' \in [Runs -> Steps] /\ UNCHANGED <<did, acted, age, admitted, row>>
      BY <1>2 DEF Fire, TypeRuns, Steps
    <2>3. TypeBroker' /\ TypeWorker' /\ TypeFaults'
      BY <1>2, SameBroker, SameWorker, SameFaults
         DEF Fire, besideRuns, brokerVars, workerVars, table, broker, loading, scheduler
    <2> QED BY <2>1, <2>2, <2>3 DEF TypeRuns
  <1> QED BY <1>1, <1>2

\* The end of the worker's process.
LEMMA DieTypes == ASSUME TypeOK, NEW n \in {0, 1}, Die(n) PROVE TypeOK'
  <1> USE TypeParts
  <1>1. TypeBroker'
    BY AutomationAssumption DEF Die, TypeBroker, table
  <1>2. TypeWorker'
    BY DEF Die, TypeWorker
  <1>3. step' \in [Runs -> Steps]
    BY DEF Die, TypeRuns, Steps
  <1>4. age' \in [Runs -> 0 .. Window]
    BY AutomationAssumption DEF Die
  <1>5. TypeRuns'
    BY <1>3, <1>4 DEF Die, TypeRuns
  <1>6. TypeFaults'
    BY FaultType DEF Die
  <1> QED BY <1>1, <1>2, <1>5, <1>6

\* The worker's life.
LEMMA LifeTypes ==
    ASSUME TypeOK, Boot \/ Subscribe \/ Disconnect \/ Stop \/ Crash \/ Exit
    PROVE  TypeOK'
  <1> USE TypeParts
  <1>1. ASSUME Boot PROVE TypeOK'
    <2>1. TypeWorker'
      BY <1>1 DEF Boot, TypeWorker, scheduler
    <2> QED BY <1>1, <2>1, SameBroker, SameRuns, SameFaults DEF Boot, brokerVars, broker, table
  <1>2. ASSUME Subscribe PROVE TypeOK'
    <2>1. reloads' \in 0 .. MaxReloads
      BY <1>2, AutomationAssumption DEF Subscribe, TypeBroker
    <2>2. TypeBroker'
      BY <1>2, <2>1 DEF Subscribe, TypeBroker, table
    <2>3. TypeWorker'
      BY <1>2 DEF Subscribe, TypeWorker, loading, scheduler
    <2>4. TypeRuns' /\ TypeFaults'
      BY <1>2, SameRuns, SameFaults, FaultType DEF Subscribe
    <2> QED BY <2>2, <2>3, <2>4
  <1>3. ASSUME Disconnect PROVE TypeOK'
    <2>1. TypeBroker'
      BY <1>3, AutomationAssumption DEF Disconnect, TypeBroker, table
    <2>2. TypeWorker'
      BY <1>3 DEF Disconnect, TypeWorker, loading, scheduler
    <2>3. TypeRuns' /\ TypeFaults'
      BY <1>3, SameRuns, FaultType DEF Disconnect
    <2> QED BY <2>1, <2>2, <2>3
  <1>4. ASSUME Stop PROVE TypeOK'
    <2>1. TypeWorker'
      BY <1>4 DEF Stop, TypeWorker, loading
    <2>2. TypeBroker' /\ TypeRuns' /\ TypeFaults'
      BY <1>4, SameBroker, SameRuns, FaultType DEF Stop, brokerVars, broker, table
    <2> QED BY <2>1, <2>2
  <1>5. ASSUME Crash \/ Exit PROVE TypeOK'
    BY <1>5, DieTypes DEF Crash, Exit
  <1> QED BY <1>1, <1>2, <1>3, <1>4, <1>5

\* Every step keeps the types.
LEMMA NextType == TypeOK /\ [Next]_vars => TypeOK'
  <1> SUFFICES ASSUME TypeOK, [Next]_vars PROVE TypeOK'
    OBVIOUS
  <1>1. CASE UNCHANGED vars
    BY <1>1 DEF TypeOK, vars
  <1> QED BY <1>1, ApiTypes, ReloadTypes, EvaluateTypes, ClockTypes, LifeTypes DEF Next

\* The state of the table, the broker, the scheduler and the runs keeps its type; an action
\* chain never runs past its end.
THEOREM Types == Spec => []TypeOK
  BY InitType, NextType, PTL DEF Spec
-----------------------------------------------------------------------------
(* Jobs. *)

\* Every step keeps the scheduler's jobs among the entries.
LEMMA NextNoStray == TypeOK /\ NoStrayJob /\ [Next]_vars => NoStrayJob'
  <1> SUFFICES ASSUME TypeOK, NoStrayJob, [Next]_vars PROVE NoStrayJob'
    OBVIOUS
  <1>1. CASE UNCHANGED <<jobs, entry>>
    BY <1>1 DEF NoStrayJob
  <1>2. CASE Read
    <2>1. CASE /\ jobs' = jobs \ {entry[a] : a \in Automations}
               /\ entry' = [a \in Automations |-> NoSchedule]
      <3>1. \A s \in jobs : s = entry[Owner[s]] /\ Owner[s] \in Automations
        BY AutomationAssumption DEF NoStrayJob, TypeOK
      <3> QED BY <2>1, <3>1 DEF NoStrayJob
    <2> QED BY <1>1, <1>2, <2>1 DEF Read
  <1>3. ASSUME NEW s \in Schedules, Register(s) PROVE NoStrayJob'
    <2>1. /\ jobs' = (jobs \ {entry[Owner[s]]}) \cup {s}
          /\ entry' = [entry EXCEPT ![Owner[s]] = s]
      BY <1>3 DEF Register
    <2>2. Owner[s] \in Automations /\ DOMAIN entry = Automations
      BY AutomationAssumption DEF TypeOK
    <2> SUFFICES ASSUME NEW t \in jobs' PROVE t = entry'[Owner[t]]
      BY DEF NoStrayJob
    <2>3. CASE t = s
      BY <2>1, <2>2, <2>3
    <2>4. CASE t # s
      <3>1. t \in jobs /\ t = entry[Owner[t]] /\ t # entry[Owner[s]]
        BY <2>1, <2>4 DEF NoStrayJob
      <3> QED BY <2>1, <3>1
    <2> QED BY <2>3, <2>4
  <1>4. CASE Crash \/ Exit
    BY <1>4 DEF Crash, Exit, Die, NoStrayJob
  <1>5. ASSUME NEW e \in Editors, Commit(e) \/ \E a \in Automations : PublishReload(e, a)
        PROVE  UNCHANGED <<jobs, entry>>
    BY <1>5 DEF Commit, PublishReload, scheduler
  <1>6. ASSUME NEW r \in Runs, Evaluate(r) \/ \E s \in Schedules : Fire(s, r)
        PROVE  UNCHANGED <<jobs, entry>>
    BY <1>6, EvaluateFrame DEF workerVars, Fire, besideRuns, scheduler
  <1>7. ASSUME Loaded \/ Tick \/ Boot \/ Subscribe \/ Disconnect \/ Stop \/ UNCHANGED vars
        PROVE  UNCHANGED <<jobs, entry>>
    BY <1>7 DEF Loaded, Tick, Boot, Subscribe, Disconnect, Stop, besideRuns, scheduler, vars
  <1> QED BY <1>1, <1>2, <1>3, <1>4, <1>5, <1>6, <1>7 DEF Next, Reload

\* Every job of the scheduler is one that the next reload finds and removes.
THEOREM NoStray == Spec => []NoStrayJob
  <1>1. Init => NoStrayJob
    BY DEF Init, NoStrayJob
  <1> QED BY <1>1, InitType, NextType, NextNoStray, PTL DEF Spec
-----------------------------------------------------------------------------
(* Rows. *)

\* A run that acts has a row, so its success is not yet written.
ActingIsRunning == \A r \in Runs : step[r] = "acting" => row[r] = "running"
RowInv == ActingIsRunning /\ SuccessIsComplete

\* Only the run itself moves its step, its actions and its row, but for the end of
\* the process, which leaves the row as it is.
LEMMA RowFrame ==
    ASSUME TypeOK, NEW r \in Runs, Evaluate(r)
    PROVE  \A q \in Runs \ {r} :
               /\ step'[q] = step[q] /\ did'[q] = did[q] /\ row'[q] = row[q]
               /\ (q \in acted') <=> (q \in acted)
  <1>1. \A to \in Steps : Turn(r, to) => \A q \in Runs \ {r} : step'[q] = step[q]
    BY DEF Turn, TypeOK
  <1>2. {"done", "skipping", "judging", "acting", "failing"} \subseteq Steps
    BY DEF Steps
  <1>3. CASE Load(r)
    BY <1>1, <1>2, <1>3 DEF Load
  <1>4. CASE Judge(r)
    BY <1>1, <1>2, <1>4 DEF Judge, TypeOK
  <1>5. CASE RecordSkipped(r) \/ CompleteHistory(r)
    BY <1>1, <1>2, <1>5 DEF RecordSkipped, CompleteHistory, TypeOK
  <1>6. CASE Execute(r)
    BY <1>1, <1>2, <1>6 DEF Execute, TypeOK
  <1> QED BY <1>3, <1>4, <1>5, <1>6 DEF Evaluate

\* A step of a run keeps its own row true.
LEMMA EvaluateRow ==
    ASSUME TypeOK, RowInv, NEW r \in Runs, Evaluate(r)
    PROVE  /\ step'[r] = "acting" => row'[r] = "running"
           /\ row'[r] = "success" => did'[r] = Actions
  <1>1. /\ step[r] = "acting" => row[r] = "running"
        /\ row[r] = "success" => did[r] = Actions
    BY DEF RowInv, ActingIsRunning, SuccessIsComplete
  <1>2. \A to \in Steps : Turn(r, to) => step'[r] = to
    BY DEF Turn, TypeOK
  <1>3. CASE Load(r)
    BY <1>1, <1>2, <1>3 DEF Load, Steps
  <1>4. CASE Judge(r)
    BY <1>1, <1>2, <1>4 DEF Judge, Steps, TypeOK
  <1>5. CASE RecordSkipped(r)
    BY <1>1, <1>2, <1>5 DEF RecordSkipped, Steps, TypeOK
  <1>6. CASE Execute(r)
    <2>1. UNCHANGED row /\ row[r] = "running"
      BY <1>1, <1>6 DEF Execute
    <2> QED BY <2>1
  <1>7. CASE CompleteHistory(r)
    <2>1. step'[r] = "done" /\ UNCHANGED did
      BY <1>2, <1>7 DEF CompleteHistory, Steps
    <2>2. PICK ok \in BOOLEAN :
             Statement(ok) /\ row' = IF ok THEN [row EXCEPT ![r] = Status(r)] ELSE row
      BY <1>7 DEF CompleteHistory
    <2>3. ok /\ Status(r) = "success" => did[r] = Actions
      BY <1>7, <2>2 DEF CompleteHistory, ChainEnded, Statement, Status
    <2>4. row'[r] = IF ok THEN Status(r) ELSE row[r]
      BY <2>2 DEF TypeOK
    <2> QED BY <1>1, <2>1, <2>3, <2>4
  <1> QED BY <1>3, <1>4, <1>5, <1>6, <1>7 DEF Evaluate

\* Every step keeps the rows true.
LEMMA NextRow == TypeOK /\ RowInv /\ [Next]_vars => RowInv'
  <1> SUFFICES ASSUME TypeOK, RowInv, [Next]_vars PROVE RowInv'
    OBVIOUS
  <1> USE DEF RowInv, ActingIsRunning, SuccessIsComplete
  <1>1. CASE UNCHANGED <<step, did, row>>
    BY <1>1
  <1>2. ASSUME NEW r \in Runs, Evaluate(r) PROVE RowInv'
    BY <1>2, RowFrame, EvaluateRow
  <1>3. ASSUME NEW r \in Runs, NEW s \in Schedules, Fire(s, r) PROVE RowInv'
    BY <1>3 DEF Fire, TypeOK
  <1>4. CASE Crash \/ Exit
    BY <1>4 DEF Crash, Exit, Die, TypeOK, Live
  <1>5. ASSUME NEW e \in Editors, Commit(e) \/ \E a \in Automations : PublishReload(e, a)
        PROVE  UNCHANGED <<step, did, row>>
    BY <1>5 DEF Commit, PublishReload, runs
  <1>6. ASSUME Reload \/ Tick \/ Boot \/ Subscribe \/ Disconnect \/ Stop \/ UNCHANGED vars
        PROVE  UNCHANGED <<step, did, row>>
    BY <1>6 DEF Reload, Read, Register, Loaded, Tick, Boot, Subscribe, Disconnect, Stop, runs, vars
  <1> QED BY <1>1, <1>2, <1>3, <1>4, <1>5, <1>6 DEF Next

\* A row that says success belongs to a chain that ran to its end, shutdowns and crashes
\* in the middle of one included.
THEOREM SuccessIsTrue == Spec => []SuccessIsComplete
  <1>1. Init => RowInv
    BY DEF Init, RowInv, ActingIsRunning, SuccessIsComplete
  <1>2. RowInv => SuccessIsComplete
    BY DEF RowInv
  <1> QED BY <1>1, <1>2, InitType, NextType, NextRow, PTL DEF Spec

\* What the record of a run says at each of its steps.
Recorded(r) ==
    /\ step[r] \in {"none", "loading", "judging", "skipping"} =>
          row[r] = "none" /\ did[r] = 0 /\ r \notin acted
    /\ step[r] \in {"acting", "failing"} => row[r] = "running"
    /\ step[r] = "failing" => did[r] < Actions
    /\ r \in acted => row[r] \in {"running", "success", "partial", "failed"}
    /\ row[r] = "failed" => did[r] = 0
    /\ row[r] = "partial" => 0 < did[r] /\ did[r] < Actions
    /\ row[r] = "running" /\ ~Live(r) => faults > 0
HistoryInv == (\A r \in Runs : Recorded(r)) /\ (link = "stopping" => faults > 0)

\* Faults are never taken back, and the failure of a statement leaves one behind.
LEMMA FaultsGrow == ASSUME TypeFaults, NEW n \in {0, 1}, Fault(n) PROVE faults' = faults + n
  BY DEF Fault
LEMMA StatementFaults ==
    ASSUME TypeFaults, NEW ok \in BOOLEAN, Statement(ok), link = "stopping" => faults > 0
    PROVE  faults' >= faults /\ (~ok => faults' > 0)
  BY AutomationAssumption DEF Statement, Fault, TypeFaults

\* What is recorded of a run stays true while others move and faults grow.
LEMMA RecordedFrame ==
    ASSUME faults \in Nat, faults' \in Nat, faults' >= faults, NEW r \in Runs, Recorded(r),
           step'[r] = step[r], did'[r] = did[r], row'[r] = row[r],
           (r \in acted') <=> (r \in acted)
    PROVE  Recorded(r)'
  BY DEF Recorded, Live

\* A step of a run keeps its own record.
LEMMA EvaluateRecorded ==
    ASSUME TypeOK, HistoryInv, NEW r \in Runs, Evaluate(r)
    PROVE  Recorded(r)' /\ faults' >= faults
  <1>1. /\ Recorded(r) /\ (link = "stopping" => faults > 0)
        /\ TypeFaults /\ did[r] \in Nat /\ faults \in Nat
    BY AutomationAssumption DEF HistoryInv, TypeOK, TypeFaults
  <1>2. \A to \in Steps : Turn(r, to) => step'[r] = to
    BY DEF Turn, TypeOK
  <1>3. CASE Load(r)
    <2>1. PICK ok \in BOOLEAN : Statement(ok)
      BY <1>3 DEF Load
    <2>2. faults' >= faults
      BY <1>1, <2>1, StatementFaults
    <2>3. row[r] = "none" /\ did[r] = 0 /\ r \notin acted
      BY <1>1, <1>3 DEF Load, Recorded
    <2>4. step'[r] \in {"done", "skipping", "judging"} /\ UNCHANGED <<did, acted, row>>
      BY <1>2, <1>3 DEF Load, Steps
    <2> QED BY <2>2, <2>3, <2>4 DEF Recorded
  <1>4. CASE Judge(r)
    <2>1. row[r] = "none" /\ did[r] = 0 /\ r \notin acted /\ UNCHANGED <<did, acted>>
      BY <1>1, <1>4 DEF Judge, Recorded
    <2>2. CASE Turn(r, "skipping") /\ UNCHANGED <<row, faults>>
      BY <1>1, <1>2, <2>1, <2>2 DEF Recorded, Steps
    <2>3. ASSUME NEW ok \in BOOLEAN, Statement(ok), Turn(r, IF ok THEN "acting" ELSE "done"),
                 row' = IF ok THEN [row EXCEPT ![r] = "running"] ELSE row
          PROVE  Recorded(r)' /\ faults' >= faults
      <3>1. step'[r] = (IF ok THEN "acting" ELSE "done")
            /\ row'[r] = (IF ok THEN "running" ELSE "none")
        BY <1>2, <2>1, <2>3 DEF Steps, TypeOK
      <3>2. faults' >= faults
        BY <1>1, <2>3, StatementFaults
      <3> QED BY <2>1, <3>1, <3>2 DEF Recorded, Live
    <2> QED BY <1>4, <2>2, <2>3 DEF Judge
  <1>5. CASE RecordSkipped(r)
    <2>1. /\ row[r] = "none" /\ did[r] = 0 /\ r \notin acted /\ UNCHANGED <<did, acted>>
          /\ step'[r] = "done"
      BY <1>1, <1>2, <1>5 DEF RecordSkipped, Recorded, Steps
    <2>2. PICK ok \in BOOLEAN :
             Statement(ok) /\ row' = IF ok THEN [row EXCEPT ![r] = "skipped"] ELSE row
      BY <1>5 DEF RecordSkipped
    <2>3. row'[r] \in {"none", "skipped"}
      BY <2>1, <2>2 DEF TypeOK
    <2>4. faults' >= faults
      BY <1>1, <2>2, StatementFaults
    <2> QED BY <2>1, <2>3, <2>4 DEF Recorded
  <1>6. CASE Execute(r)
    <2>1. row'[r] = "running" /\ faults' = faults /\ did[r] < Actions
      BY <1>1, <1>6 DEF Execute, Recorded
    <2>2. step'[r] = "acting" \/ (step'[r] = "failing" /\ did'[r] = did[r])
      BY <1>2, <1>6 DEF Execute, Steps
    <2> QED BY <1>1, <2>1, <2>2 DEF Recorded, Live
  <1>7. CASE CompleteHistory(r)
    <2>1. step'[r] = "done" /\ did' = did /\ acted' = acted /\ row[r] = "running"
          /\ step[r] \in {"acting", "failing"}
      BY <1>1, <1>2, <1>7 DEF CompleteHistory, ChainEnded, Recorded, Steps
    <2>2. PICK ok \in BOOLEAN :
             Statement(ok) /\ row' = IF ok THEN [row EXCEPT ![r] = Status(r)] ELSE row
      BY <1>7 DEF CompleteHistory
    <2>3. faults' >= faults /\ (~ok => faults' > 0)
      BY <1>1, <2>2, StatementFaults
    <2>4. row'[r] = IF ok THEN Status(r) ELSE "running"
      BY <2>1, <2>2 DEF TypeOK
    <2>5. CASE ~ok
      BY <2>1, <2>3, <2>4, <2>5 DEF Recorded
    <2>6. CASE ok /\ step[r] = "acting"
      <3>1. row'[r] = "success"
        BY <2>4, <2>6 DEF Status
      <3> QED BY <2>1, <2>3, <3>1 DEF Recorded
    <2>7. CASE ok /\ step[r] = "failing"
      <3>1. row'[r] = (IF did[r] = 0 THEN "failed" ELSE "partial") /\ did[r] < Actions
        BY <1>1, <2>4, <2>7 DEF Status, Recorded
      <3> QED BY <1>1, <2>1, <2>3, <3>1 DEF Recorded
    <2> QED BY <2>1, <2>5, <2>6, <2>7
  <1> QED BY <1>3, <1>4, <1>5, <1>6, <1>7 DEF Evaluate

\* Every step keeps the record.
LEMMA NextHistory == TypeOK /\ HistoryInv /\ [Next]_vars => HistoryInv'
  <1> SUFFICES ASSUME TypeOK, HistoryInv, [Next]_vars PROVE HistoryInv'
    OBVIOUS
  <1>0. TypeFaults /\ TypeFaults'
    <2>1. TypeOK'
      BY NextType
    <2> QED BY <2>1, TypeParts DEF TypeOK, TypeFaults
  <1>1. /\ TypeFaults /\ faults \in Nat /\ faults' \in Nat
        /\ (link = "stopping" => faults > 0)
        /\ \A r \in Runs : Recorded(r)
    BY <1>0, AutomationAssumption DEF HistoryInv, TypeFaults
  <1>2. ASSUME UNCHANGED <<step, did, acted, row>>, faults' >= faults,
               link' = "stopping" => link = "stopping" \/ faults' > 0
        PROVE  HistoryInv'
    <2>1. \A r \in Runs : Recorded(r)'
      BY <1>1, <1>2, RecordedFrame
    <2>2. link' = "stopping" => faults' > 0
      BY <1>1, <1>2
    <2> QED BY <2>1, <2>2 DEF HistoryInv
  <1>3. ASSUME NEW r \in Runs, Evaluate(r) PROVE HistoryInv'
    <2>1. Recorded(r)' /\ faults' >= faults
      BY <1>3, EvaluateRecorded
    <2>2. \A q \in Runs \ {r} : Recorded(q)'
      BY <1>1, <1>3, <2>1, RowFrame, RecordedFrame
    <2>3. link' = link
      BY <1>3, EvaluateFrame DEF workerVars
    <2> QED BY <1>1, <2>1, <2>2, <2>3 DEF HistoryInv
  <1>4. ASSUME NEW r \in Runs, NEW s \in Schedules, Fire(s, r) PROVE HistoryInv'
    <2>1. /\ step[r] = "none" /\ step' = [step EXCEPT ![r] = "loading"]
          /\ UNCHANGED <<did, acted, row, faults, link>>
      BY <1>4 DEF Fire, besideRuns
    <2>2. Recorded(r)'
      BY <1>1, <2>1 DEF Recorded, TypeOK, Live
    <2>3. \A q \in Runs \ {r} : Recorded(q)'
      BY <1>1, <2>1, RecordedFrame DEF TypeOK
    <2> QED BY <1>1, <2>1, <2>2, <2>3 DEF HistoryInv
  <1>5. CASE Crash \/ Exit
    <2>1. PICK n \in {0, 1} : Die(n) /\ (n = 0 => \A r \in Runs : ~Live(r))
      BY <1>5 DEF Crash, Exit
    <2>2. faults' = faults + n /\ link' = "down"
      BY <1>1, <2>1, FaultsGrow DEF Die
    <2>3. ASSUME NEW r \in Runs PROVE Recorded(r)'
      <3>1. step'[r] = (IF Live(r) THEN "done" ELSE step[r]) /\ UNCHANGED <<did, acted, row>>
        BY <2>1 DEF Die
      <3>2. CASE Live(r)
        <4>1. step'[r] = "done" /\ faults' > 0
          BY <1>1, <2>1, <2>2, <3>1, <3>2
        <4> QED BY <1>1, <3>1, <4>1 DEF Recorded
      <3>3. CASE ~Live(r)
        BY <1>1, <2>2, <3>1, <3>3, RecordedFrame
      <3> QED BY <3>2, <3>3
    <2> QED BY <2>2, <2>3 DEF HistoryInv
  <1>6. ASSUME NEW e \in Editors, Commit(e) \/ \E a \in Automations : PublishReload(e, a)
        PROVE  HistoryInv'
    <2>1. UNCHANGED <<step, did, acted, row, link>>
      BY <1>6 DEF Commit, PublishReload, runs
    <2>2. faults' >= faults
      BY <1>1, <1>6 DEF Commit, PublishReload, Fault
    <2> QED BY <1>2, <2>1, <2>2
  <1>7. CASE Reload \/ Tick \/ UNCHANGED vars
    <2>1. UNCHANGED <<step, did, acted, row, link>>
      BY <1>7 DEF Reload, Read, Register, Loaded, Tick, besideRuns, runs, vars
    <2>2. faults' = faults \/ Fault(1)
      BY <1>7 DEF Reload, Read, Register, Loaded, Tick, vars
    <2>3. faults' >= faults
      BY <1>1, <2>2, FaultsGrow
    <2> QED BY <1>2, <2>1, <2>3
  <1>8. CASE Boot \/ Subscribe \/ Disconnect \/ Stop
    <2>1. UNCHANGED <<step, did, acted, row>>
      BY <1>8 DEF Boot, Subscribe, Disconnect, Stop, runs
    <2>2. faults' >= faults
      BY <1>1, <1>8 DEF Boot, Subscribe, Disconnect, Stop, Fault
    <2>3. link' = "stopping" => faults' > 0
      BY <1>1, <1>8 DEF Boot, Subscribe, Disconnect, Stop, Fault
    <2> QED BY <1>2, <2>1, <2>2, <2>3
  <1> QED BY <1>3, <1>4, <1>5, <1>6, <1>7, <1>8 DEF Next

\* No action is called off the record, whatever statements fail and whenever the worker
\* stops or crashes: the row is inserted before the chain starts, and its last update tells
\* what the chain did or is lost to a fault.
THEOREM NothingOffTheRecord == Spec => []HistoryIsComplete
  <1>1. Init => HistoryInv
    BY DEF Init, HistoryInv, Recorded, Live
  <1>2. HistoryInv => HistoryIsComplete
    BY DEF HistoryInv, Recorded, HistoryIsComplete
  <1> QED BY <1>1, <1>2, InitType, NextType, NextHistory, PTL DEF Spec
-----------------------------------------------------------------------------
(* The rapid-fire check. *)

\* A run that has not reached the check has not passed it.
UncheckedOut == \A r \in admitted : step[r] \notin {"none", "loading"}
FireInv == UncheckedOut /\ RapidFireBounded

\* The runs of an automation that passed the check within the window.
Passed(a) == Recent(a) \cap admitted

\* Sets of runs are finite, and no larger than what contains them.
LEMMA PassedFinite ==
    /\ IsFiniteSet(Runs)
    /\ \A S \in SUBSET Runs : IsFiniteSet(S) /\ Cardinality(S) \in Nat
    /\ \A S, T \in SUBSET Runs : S \subseteq T => Cardinality(S) <= Cardinality(T)
  <1>1. IsFiniteSet(Runs)
    BY AutomationAssumption, FS_Interval DEF Runs
  <1>2. \A S \in SUBSET Runs : IsFiniteSet(S) /\ Cardinality(S) \in Nat
    BY <1>1, FS_Subset, FS_CardinalityType
  <1>3. \A S, T \in SUBSET Runs : S \subseteq T => Cardinality(S) <= Cardinality(T)
    BY <1>2, FS_Subset
  <1> QED BY <1>1, <1>2, <1>3

\* The bound holds of what has fewer runs.
LEMMA FewerPassed ==
    ASSUME RapidFireBounded, \A a \in Automations : Passed(a)' \subseteq Passed(a)
    PROVE  RapidFireBounded'
  <1> SUFFICES ASSUME NEW a \in Automations PROVE Cardinality(Passed(a)') <= MaxFires
    BY DEF RapidFireBounded, Passed
  <1>1. Passed(a) \in SUBSET Runs /\ Passed(a)' \in SUBSET Runs
    BY DEF Passed, Recent
  <1>2. Cardinality(Passed(a)) <= MaxFires
    BY DEF RapidFireBounded, Passed
  <1> QED BY <1>1, <1>2, PassedFinite, AutomationAssumption

\* The check lets a run pass only where there is room for one more.
LEMMA LoadFire ==
    ASSUME TypeOK, FireInv, NEW r \in Runs, Load(r)
    PROVE  FireInv'
  <1> PICK ok \in BOOLEAN :
         IF ok /\ enabled[who[r]]
         THEN /\ age' = [age EXCEPT ![r] = 0]
              /\ IF Exceeded(who[r])
                 THEN Turn(r, "skipping") /\ UNCHANGED admitted
                 ELSE Turn(r, "judging") /\ admitted' = admitted \cup {r}
         ELSE Turn(r, "done") /\ UNCHANGED <<age, admitted>>
    BY DEF Load
  <1>1. /\ step[r] = "loading" /\ r \notin admitted /\ who' = who
        /\ admitted \subseteq Runs /\ age \in [Runs -> 0 .. Window]
    BY DEF Load, FireInv, UncheckedOut, TypeOK
  <1>2. UncheckedOut'
    <2>1. \E to \in {"done", "skipping", "judging"} : step' = [step EXCEPT ![r] = to]
      BY DEF Turn
    <2>2. admitted' \subseteq admitted \cup {r}
      OBVIOUS
    <2> QED BY <1>1, <2>1, <2>2 DEF FireInv, UncheckedOut, TypeOK
  <1>3. CASE UNCHANGED <<age, admitted>>
    <2>1. \A a \in Automations : Passed(a)' \subseteq Passed(a)
      BY <1>1, <1>3 DEF Passed, Recent
    <2> QED BY <1>2, <2>1, FewerPassed DEF FireInv
  <1>4. CASE age' = [age EXCEPT ![r] = 0] /\ UNCHANGED admitted
    <2>1. \A a \in Automations : Passed(a)' \subseteq Passed(a)
      BY <1>1, <1>4 DEF Passed, Recent
    <2> QED BY <1>2, <2>1, FewerPassed DEF FireInv
  <1>5. CASE ~Exceeded(who[r]) /\ age' = [age EXCEPT ![r] = 0] /\ admitted' = admitted \cup {r}
    <2> SUFFICES ASSUME NEW a \in Automations PROVE Cardinality(Passed(a)') <= MaxFires
      BY <1>2 DEF FireInv, RapidFireBounded, Passed
    <2>1. /\ Passed(a) \in SUBSET Runs /\ Recent(a) \in SUBSET Runs /\ Passed(a)' \in SUBSET Runs
          /\ Cardinality(Passed(a)) <= MaxFires
      BY DEF FireInv, RapidFireBounded, Passed, Recent
    <2>2. CASE a = who[r]
      <3>1. Passed(a)' \subseteq Recent(a) \cup {r}
        BY <1>1, <1>5 DEF Passed, Recent
      <3>2. IsFiniteSet(Recent(a) \cup {r}) /\ Recent(a) \cup {r} \in SUBSET Runs
        BY <2>1, PassedFinite
      <3>3. Cardinality(Recent(a) \cup {r}) <= Cardinality(Recent(a)) + 1
        BY <2>1, PassedFinite, FS_AddElement
      <3>4. Cardinality(Recent(a)) + 1 <= MaxFires
        BY <1>5, <2>1, <2>2, PassedFinite, AutomationAssumption DEF Exceeded
      <3>5. Cardinality(Passed(a)') <= Cardinality(Recent(a) \cup {r})
        BY <2>1, <3>1, <3>2, PassedFinite
      <3> QED BY <2>1, <3>2, <3>3, <3>4, <3>5, PassedFinite, AutomationAssumption
    <2>3. CASE a # who[r]
      <3>1. Passed(a)' \subseteq Passed(a)
        BY <1>1, <1>5, <2>3 DEF Passed, Recent
      <3> QED BY <2>1, <3>1, PassedFinite, AutomationAssumption
    <2> QED BY <2>2, <2>3
  <1> QED BY <1>2, <1>3, <1>4, <1>5 DEF FireInv

\* Every step keeps the check's bound.
LEMMA NextFire == TypeOK /\ FireInv /\ [Next]_vars => FireInv'
  <1> SUFFICES ASSUME TypeOK, FireInv, [Next]_vars PROVE FireInv'
    OBVIOUS
  <1>1. CASE UNCHANGED <<step, age, admitted, who>>
    BY <1>1 DEF FireInv, UncheckedOut, RapidFireBounded, Recent
  <1>2. ASSUME NEW r \in Runs, Judge(r) \/ RecordSkipped(r) \/ Execute(r) \/ CompleteHistory(r)
        PROVE  FireInv'
    <2>1. step[r] \notin {"none", "loading"} /\ UNCHANGED <<age, admitted, who>>
      BY <1>2 DEF Judge, RecordSkipped, Execute, CompleteHistory, ChainEnded
    <2>2. UNCHANGED step \/ \E to \in {"acting", "done", "skipping", "failing"} :
                                step' = [step EXCEPT ![r] = to]
      BY <1>2 DEF Judge, RecordSkipped, Execute, CompleteHistory, Turn
    <2>3. UncheckedOut'
      BY <2>1, <2>2 DEF FireInv, UncheckedOut, TypeOK
    <2> QED BY <2>1, <2>3 DEF FireInv, RapidFireBounded, Recent
  <1>3. ASSUME NEW r \in Runs, NEW s \in Schedules, Fire(s, r) PROVE FireInv'
    <2>1. /\ step[r] = "none" /\ r \notin admitted /\ UNCHANGED <<age, admitted>>
          /\ who' = [who EXCEPT ![r] = Owner[s]] /\ step' = [step EXCEPT ![r] = "loading"]
      BY <1>3 DEF Fire, FireInv, UncheckedOut
    <2>2. UncheckedOut'
      BY <2>1 DEF FireInv, UncheckedOut, TypeOK
    <2>3. \A a \in Automations : Passed(a)' \subseteq Passed(a)
      BY <2>1 DEF Passed, Recent, TypeOK
    <2> QED BY <2>2, <2>3, FewerPassed DEF FireInv
  <1>4. CASE Tick
    <2>1. /\ \A r \in Runs : age'[r] < Window => age[r] < Window
          /\ admitted' \subseteq admitted /\ UNCHANGED <<step, who>>
      BY <1>4, AutomationAssumption DEF Tick, TypeOK
    <2>2. \A a \in Automations : Passed(a)' \subseteq Passed(a)
      BY <2>1 DEF Passed, Recent
    <2> QED BY <2>1, <2>2, FewerPassed DEF FireInv, UncheckedOut
  <1>5. CASE Crash \/ Exit
    <2>1. admitted' = {}
      BY <1>5 DEF Crash, Exit, Die
    <2>2. \A a \in Automations : Passed(a)' \subseteq Passed(a)
      BY <2>1 DEF Passed
    <2> QED BY <2>1, <2>2, FewerPassed DEF FireInv, UncheckedOut
  <1>6. ASSUME NEW e \in Editors, Commit(e) \/ \E a \in Automations : PublishReload(e, a)
        PROVE  UNCHANGED <<step, age, admitted, who>>
    BY <1>6 DEF Commit, PublishReload, runs
  <1>7. ASSUME Reload \/ Boot \/ Subscribe \/ Disconnect \/ Stop \/ UNCHANGED vars
        PROVE  UNCHANGED <<step, age, admitted, who>>
    BY <1>7 DEF Reload, Read, Register, Loaded, Boot, Subscribe, Disconnect, Stop, runs, vars
  <1> QED BY <1>1, <1>2, <1>3, <1>4, <1>5, <1>6, <1>7, LoadFire DEF Next, Evaluate

\* No window of a worker's life has more than MaxFires runs of an automation past the
\* rapid-fire check, whatever reloads came in between.
THEOREM RapidFire == Spec => []RapidFireBounded
  <1>1. Init => FireInv
    <2> SUFFICES ASSUME Init PROVE FireInv
      OBVIOUS
    <2>1. admitted = {} /\ Cardinality({}) = 0
      BY FS_EmptySet DEF Init
    <2> QED BY <2>1, AutomationAssumption DEF FireInv, UncheckedOut, RapidFireBounded
  <1>2. FireInv => RapidFireBounded
    BY DEF FireInv
  <1> QED BY <1>1, <1>2, InitType, NextType, NextFire, PTL DEF Spec
-----------------------------------------------------------------------------
(* Reloads. *)

\* The rows left belong to a load under way of a live process, and nothing is sent to a
\* worker that has not subscribed.
FoundWhileAdding == (found # {} => loader = "adding") /\ (link = "down" => loader = "idle")
NoneBeforeSubscribe == link \in {"down", "starting"} => reloads = 0

\* What the scheduler has is in the table, and with the rows left it has an entry for every
\* automation the table has a schedule for.
Matches ==
    /\ found \subseteq Due
    /\ \A a \in Automations :
        /\ entry[a] \in DueOf(a) \cup {NoSchedule}
        /\ Wanted(a) <=> Scheduled(a) \/ \E s \in found : Owner[s] = a

\* Where it has not, something is still to come: a request publishes, a message is handled or
\* kept by the broker, the table is read, or the worker is started; or it was missed.
ToCome ==
    \/ missed \/ (\E e \in Editors : telling[e] # {}) \/ reloads > 0
    \/ loader = "reading" \/ link \in {"down", "stopping"} \/ (link = "starting" /\ retained)

CurrentInv == FoundWhileAdding /\ NoneBeforeSubscribe /\ (ToCome \/ Matches)

\* The variables CurrentInv is about.
currentVars == <<enabled, triggers, telling, retained, reloads, missed, link, loader, found, entry>>

\* What leaves them alone keeps it.
LEMMA SameCurrent == CurrentInv /\ UNCHANGED currentVars => CurrentInv'
  BY DEF currentVars, CurrentInv, FoundWhileAdding, NoneBeforeSubscribe, ToCome, Matches, Wanted,
         DueOf, Scheduled, Due

\* A request that changes the table will publish; its message arrives, is kept, or is missed.
LEMMA ApiCurrent ==
    ASSUME TypeOK, CurrentInv,
           \/ \E e \in Editors : Commit(e)
           \/ \E e \in Editors, a \in Automations : PublishReload(e, a)
    PROVE  CurrentInv'
  <1>1. ASSUME NEW e \in Editors, Commit(e) PROVE CurrentInv'
    <2>1. ToCome'
      <3>1. PICK ids \in (SUBSET Automations) \ {{}} :
               telling' = [telling EXCEPT ![e] = ids] \/ missed' = TRUE
        BY <1>1 DEF Commit
      <3>2. CASE telling' = [telling EXCEPT ![e] = ids]
        <4>1. DOMAIN telling = Editors
          BY DEF TypeOK
        <4>2. telling'[e] = ids /\ ids # {}
          BY <3>2, <4>1
        <4> QED BY <4>2 DEF ToCome
      <3>3. CASE missed' = TRUE
        BY <3>3 DEF ToCome
      <3> QED BY <3>1, <3>2, <3>3
    <2>2. UNCHANGED <<link, loader, found, reloads>>
      BY <1>1 DEF Commit, loading
    <2> QED BY <2>1, <2>2 DEF CurrentInv, FoundWhileAdding, NoneBeforeSubscribe
  <1>2. ASSUME NEW e \in Editors, NEW a \in Automations, PublishReload(e, a) PROVE CurrentInv'
    <2>1. UNCHANGED <<link, loader, found>>
      BY <1>2 DEF PublishReload, loading
    <2>2. reloads \in Nat
      BY AutomationAssumption DEF TypeOK
    <2>3. \/ /\ retained' = TRUE /\ reloads' = IF link = "on" THEN reloads + 1 ELSE reloads
             /\ missed' = (missed \/ link = "deaf")
          \/ missed' = TRUE /\ reloads' = reloads
      BY <1>2 DEF PublishReload
    <2>4. link \in {"down", "starting", "on", "deaf", "stopping"}
      BY DEF TypeOK
    <2>5. ToCome'
      <3>1. CASE link = "on"
        <4>1. reloads' > 0 \/ missed' = TRUE
          BY <2>2, <2>3, <3>1
        <4> QED BY <4>1 DEF ToCome
      <3>2. CASE link = "deaf"
        BY <2>3, <3>2 DEF ToCome
      <3>3. CASE link = "starting"
        BY <2>1, <2>3, <3>3 DEF ToCome
      <3>4. CASE link \in {"down", "stopping"}
        BY <2>1, <3>4 DEF ToCome
      <3> QED BY <2>4, <3>1, <3>2, <3>3, <3>4
    <2>6. NoneBeforeSubscribe'
      BY <2>1, <2>3 DEF CurrentInv, NoneBeforeSubscribe
    <2> QED BY <2>1, <2>5, <2>6 DEF CurrentInv, FoundWhileAdding
  <1> QED BY <1>1, <1>2

\* A load takes the rows of one moment and registers them one by one.
LEMMA ReloadCurrent == ASSUME TypeOK, CurrentInv, Reload PROVE CurrentInv'
  <1>1. CASE Read
    <2>1. /\ UNCHANGED <<link, enabled, triggers>> /\ reloads' \in {reloads, reloads - 1}
          /\ link \in {"down", "starting"} => reloads' = reloads /\ loader = "reading"
          /\ loader \in {"reading", "idle"}
      BY <1>1 DEF Read, table, Up
    <2>2. CASE /\ found' = Due /\ loader' = "adding"
               /\ entry' = [a \in Automations |-> NoSchedule]
      <3>1. Matches'
        BY <2>1, <2>2 DEF Matches, Wanted, DueOf, SchedulesOf, Scheduled, Due, TypeOK
      <3> QED BY <2>1, <2>2, <3>1 DEF CurrentInv, FoundWhileAdding, NoneBeforeSubscribe
    <2>3. CASE missed' = TRUE /\ UNCHANGED found
      BY <2>1, <2>3 DEF CurrentInv, FoundWhileAdding, NoneBeforeSubscribe, ToCome
    <2> QED BY <1>1, <2>2, <2>3 DEF Read
  <1>2. ASSUME NEW s \in Schedules, Register(s) PROVE CurrentInv'
    <2>1. /\ loader = "adding" /\ s \in found /\ found' = found \ {s}
          /\ entry' = [entry EXCEPT ![Owner[s]] = s]
          /\ UNCHANGED <<enabled, triggers, telling, retained, reloads, missed, link, loader>>
      BY <1>2 DEF Register, broker, table
    <2>2. ToCome => ToCome'
      BY <2>1 DEF ToCome
    <2>3. ASSUME Matches PROVE Matches'
      <3>1. Owner[s] \in Automations /\ DOMAIN entry = Automations /\ s # NoSchedule
        BY AutomationAssumption DEF TypeOK
      <3>5. Due' = Due /\ found' \subseteq Due' /\ \A a \in Automations : DueOf(a)' = DueOf(a)
        BY <2>1, <2>3 DEF Matches, Due, DueOf
      <3> SUFFICES ASSUME NEW a \in Automations
                   PROVE  /\ entry'[a] \in DueOf(a) \cup {NoSchedule}
                          /\ Wanted(a) <=> Scheduled(a)' \/ \E t \in found' : Owner[t] = a
        BY <3>5 DEF Matches, Wanted
      <3>2. /\ entry[a] \in DueOf(a) \cup {NoSchedule}
            /\ Wanted(a) <=> Scheduled(a) \/ \E t \in found : Owner[t] = a
            /\ s \in DueOf(Owner[s])
        BY <2>1, <2>3 DEF Matches, DueOf, SchedulesOf
      <3>3. CASE a = Owner[s]
        BY <2>1, <3>1, <3>2, <3>3 DEF Scheduled
      <3>4. CASE a # Owner[s]
        BY <2>1, <3>1, <3>2, <3>4 DEF Scheduled
      <3> QED BY <3>3, <3>4
    <2> QED BY <2>1, <2>2, <2>3 DEF CurrentInv, FoundWhileAdding, NoneBeforeSubscribe
  <1>3. CASE Loaded
    <2>1. /\ loader = "adding" /\ found = {}
          /\ UNCHANGED <<enabled, triggers, telling, retained, reloads, missed, link, found, entry>>
      BY <1>3 DEF Loaded, broker, table
    <2> QED BY <2>1 DEF CurrentInv, FoundWhileAdding, NoneBeforeSubscribe, ToCome, Matches, Wanted,
                        DueOf, Scheduled, Due
  <1> QED BY <1>1, <1>2, <1>3 DEF Reload

\* The worker reads the table first and then gets the message the broker kept.
LEMMA LifeCurrent ==
    ASSUME TypeOK, CurrentInv, Boot \/ Subscribe \/ Disconnect \/ Stop \/ Crash \/ Exit
    PROVE  CurrentInv'
  <1>1. CASE Boot
    <2>1. link = "down" /\ link' = "starting" /\ loader' = "reading" /\ UNCHANGED <<reloads, found>>
      BY <1>1 DEF Boot, broker
    <2>2. reloads = 0 /\ found = {}
      BY <2>1 DEF CurrentInv, NoneBeforeSubscribe, FoundWhileAdding
    <2> QED BY <2>1, <2>2 DEF CurrentInv, FoundWhileAdding, NoneBeforeSubscribe, ToCome
  <1>2. CASE Subscribe
    <2>1. /\ link = "starting" /\ loader = "idle" /\ reloads = 0 /\ link' \in {"on", "deaf"}
          /\ UNCHANGED <<enabled, triggers, telling, retained, loader, found, entry>>
      BY <1>2 DEF Subscribe, table, loading, scheduler, CurrentInv, NoneBeforeSubscribe
    <2>2. \/ link' = "on" /\ reloads' = (IF retained THEN 1 ELSE 0) /\ missed' = missed
          \/ missed' = TRUE
      BY <1>2 DEF Subscribe
    <2>3. ToCome => ToCome'
      BY <2>1, <2>2 DEF ToCome
    <2>4. Matches => Matches'
      BY <2>1 DEF Matches, Wanted, DueOf, Scheduled, Due
    <2> QED BY <2>1, <2>3, <2>4 DEF CurrentInv, FoundWhileAdding, NoneBeforeSubscribe
  <1>3. CASE Disconnect
    <2>1. /\ link = "on" /\ link' = "deaf" /\ missed' = (missed \/ reloads > 0)
          /\ UNCHANGED <<enabled, triggers, telling, retained, loader, found, entry>>
      BY <1>3 DEF Disconnect, table, loading, scheduler
    <2>2. ToCome => ToCome'
      BY <2>1 DEF ToCome
    <2>3. Matches => Matches'
      BY <2>1 DEF Matches, Wanted, DueOf, Scheduled, Due
    <2> QED BY <2>1, <2>2, <2>3 DEF CurrentInv, FoundWhileAdding, NoneBeforeSubscribe
  <1>4. CASE Stop
    <2>1. link' = "stopping" /\ UNCHANGED <<loader, found>>
      BY <1>4 DEF Stop, loading
    <2> QED BY <2>1 DEF CurrentInv, FoundWhileAdding, NoneBeforeSubscribe, ToCome
  <1>5. CASE Crash \/ Exit
    <2>1. link' = "down" /\ loader' = "idle" /\ found' = {} /\ reloads' = 0
      BY <1>5 DEF Crash, Exit, Die
    <2> QED BY <2>1 DEF CurrentInv, FoundWhileAdding, NoneBeforeSubscribe, ToCome
  <1> QED BY <1>1, <1>2, <1>3, <1>4, <1>5

\* Every step keeps it.
LEMMA NextCurrent == TypeOK /\ CurrentInv /\ [Next]_vars => CurrentInv'
  <1> SUFFICES ASSUME TypeOK, CurrentInv, [Next]_vars PROVE CurrentInv'
    OBVIOUS
  <1>1. ASSUME NEW r \in Runs, Evaluate(r) \/ \E s \in Schedules : Fire(s, r)
        PROVE  UNCHANGED currentVars
    BY <1>1, EvaluateFrame
       DEF brokerVars, workerVars, Fire, besideRuns, table, broker, loading, scheduler, currentVars
  <1>2. ASSUME Tick \/ UNCHANGED vars PROVE UNCHANGED currentVars
    BY <1>2 DEF Tick, besideRuns, table, broker, loading, scheduler, vars, currentVars
  <1> QED BY <1>1, <1>2, SameCurrent, ApiCurrent, ReloadCurrent, LifeCurrent DEF Next

\* Where nothing is still to come, the scheduler has what the table has.
LEMMA CurrentIsCurrent == CurrentInv => ScheduleIsCurrent
  BY DEF CurrentInv, FoundWhileAdding, ToCome, Matches, ScheduleIsCurrent, Wanted, Scheduled

\* No order of requests, messages, loads, starts and lost connections leaves a worker that
\* has heard everything with a schedule that is not the table's: not one of an automation
\* that was disabled or deleted, nor one that an update has replaced.
THEOREM ScheduleStaysCurrent == Spec => []ScheduleIsCurrent
  <1>1. Init => CurrentInv
    BY DEF Init, CurrentInv, FoundWhileAdding, NoneBeforeSubscribe, ToCome
  <1> QED BY <1>1, CurrentIsCurrent, InitType, NextType, NextCurrent, PTL DEF Spec
=============================================================================
