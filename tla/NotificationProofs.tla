-------------------------- MODULE NotificationProofs --------------------------
(***************************************************************************)
(* Proofs about Notifications for every number of requests, schedules,     *)
(* attempts and faults: its types, and what the two consumers, the replay  *)
(* and the scheduler never do: say sent for what was not, deliver more     *)
(* often than the faults explain, or lose a request without one.           *)
(***************************************************************************)
EXTENDS Notifications, TLAPS

\* The constants, and the processes.
LEMMA Caps == /\ MaxRequests \in Nat /\ MaxFaults \in Nat /\ MaxAttempts \in Nat \ {0}
              /\ Requests \subseteq Nat /\ Api \in Procs /\ Worker \in Procs /\ Api # Worker
              /\ Plain \in Severities /\ Unpublished \notin Severities /\ NoSchedule \notin Schedules
<1>1. /\ Api \in Procs /\ Worker \in Procs BY DEF Procs
<1>2. Requests \subseteq Nat BY NotificationAssumption DEF Requests
<1>. QED BY <1>1, <1>2, NotificationAssumption

\* Each request has two messages, and each message its request.
LEMMA Copies == /\ \A r \in Requests : First(r) \in Messages /\ Again(r) \in Messages
                /\ \A r \in Requests : First(r)[1] = r /\ Again(r)[1] = r
                /\ \A q, r \in Requests : First(q) # Again(r)
                /\ \A m \in Messages : m[1] \in Requests /\ m \in {First(m[1]), Again(m[1])}
BY DEF Messages, First, Again

\* A statement that fails is a fault, unless the process is stopping.
LEMMA StatementEffect ==
    ASSUME NEW p, NEW ok \in BOOLEAN, Statement(p, ok), faults \in 0 .. MaxFaults
    PROVE  /\ faults' \in 0 .. MaxFaults /\ faults' >= faults
           /\ ok => faults' = faults /\ link[p] # "stopping"
           /\ ~ok /\ link[p] # "stopping" => faults' = faults + 1
BY Caps DEF Statement, Stopping, Fault

\* The deliveries of r at p, one more at most; an error that comes with one is a fault.
LEMMA SendsEffect ==
    ASSUME NEW p \in Procs, NEW m \in Messages, NEW ok \in BOOLEAN, Sends(p, m, ok), TypeOK
    PROVE  /\ delivered' \in [Procs -> [Messages -> Nat]]
           /\ faults' \in 0 .. MaxFaults /\ faults' >= faults
           /\ \A o \in Procs, x \in Messages : o # p \/ x # m => delivered'[o][x] = delivered[o][x]
           /\ delivered'[p][m] >= delivered[p][m]
           /\ ok => delivered'[p][m] = delivered[p][m] + 1 /\ faults' = faults
           /\ ~ok => delivered'[p][m] + faults <= delivered[p][m] + faults'
<1>1. delivered \in [Procs -> [Messages -> Nat]] /\ faults \in 0 .. MaxFaults BY DEF TypeOK
<1>2. delivered[p][m] \in Nat BY <1>1
<1>3. CASE UNCHANGED <<delivered, faults>> /\ ~ok BY <1>1, <1>2, <1>3, Caps
<1>4. CASE ok /\ delivered' = [delivered EXCEPT ![p][m] = @ + 1] /\ UNCHANGED faults
    BY <1>1, <1>2, <1>4, Caps
<1>5. CASE ~ok /\ delivered' = [delivered EXCEPT ![p][m] = @ + 1] /\ Fault(1)
    BY <1>1, <1>2, <1>5, Caps DEF Fault
<1>. QED BY <1>3, <1>4, <1>5 DEF Sends

\* What PublishCtx does to the messages of the request it publishes, and to no other one.
LEMMA PublishEffect ==
    ASSUME NEW q \in Procs, NEW r \in Requests, NEW sev \in Severities, PublishCtx(q, r, sev), TypeOK
    PROVE  /\ inbox' \in [Procs -> SUBSET Messages] /\ held' \in [Procs -> SUBSET Messages]
           /\ delivered' \in [Procs -> [Messages -> Nat]]
           /\ severity' \in [Requests -> Severities \cup {Unpublished}]
           /\ faults' \in 0 .. MaxFaults /\ faults' >= faults
           /\ severity[r] = Unpublished /\ severity' = [severity EXCEPT ![r] = sev]
           /\ \A o \in Procs, x \in Messages : x # First(r) => (x \in inbox'[o] <=> x \in inbox[o])
           /\ \A o \in Procs, x \in Messages : o # q \/ x \notin {First(r), Again(r)} =>
                (x \in held'[o] <=> x \in held[o])
           /\ First(r) \in held'[q] => First(r) \in held[q] \/ inbox' = inbox
           /\ \A o \in Procs, x \in Messages : o # q \/ x # First(r) => delivered'[o][x] = delivered[o][x]
           /\ delivered'[q][First(r)] \in {delivered[q][First(r)], delivered[q][First(r)] + 1}
           /\ faults' = 0 => delivered' = delivered \/ inbox' = inbox
           /\ faults' = 0 => (Again(r) \in held'[q] => Again(r) \in held[q])
           /\ faults' = 0 /\ (\A o \in Procs : link[o] = "on") =>
                held' = held /\ \A o \in Procs : First(r) \in inbox'[o]
<1> DEFINE F == First(r)
           A == Again(r)
           In == /\ inbox' \in [Procs -> SUBSET Messages]
                 /\ \A o \in Procs, x \in Messages : x # F => (x \in inbox'[o] <=> x \in inbox[o])
           Out == /\ held' \in [Procs -> SUBSET Messages]
                  /\ \A o \in Procs, x \in Messages : o # q \/ x \notin {F, A} =>
                        (x \in held'[o] <=> x \in held[o])
           Alone == F \in held'[q] => F \in held[q] \/ inbox' = inbox
           Count == /\ delivered' \in [Procs -> [Messages -> Nat]]
                    /\ faults' \in 0 .. MaxFaults /\ faults' >= faults
                    /\ \A o \in Procs, x \in Messages : o # q \/ x # F =>
                            delivered'[o][x] = delivered[o][x]
                    /\ delivered'[q][F] \in {delivered[q][F], delivered[q][F] + 1}
           Reached == (\A o \in Procs : link[o] = "on") => \A o \in Procs : F \in inbox'[o]
           Same == A \in held'[q] => A \in held[q]
<1>1. /\ delivered \in [Procs -> [Messages -> Nat]] /\ faults \in 0 .. MaxFaults
      /\ inbox \in [Procs -> SUBSET Messages] /\ held \in [Procs -> SUBSET Messages]
      /\ severity \in [Requests -> Severities \cup {Unpublished}]
      /\ F \in Messages /\ A \in Messages /\ F # A
    BY Copies DEF TypeOK
<1>. HIDE DEF F, A
<1>2. delivered[q][F] \in Nat BY <1>1
<1>3. ASSUME UNCHANGED <<delivered, faults>> PROVE Count BY <1>1, <1>3
<1>4. ASSUME Fault(1), UNCHANGED delivered \/ delivered' = [delivered EXCEPT ![q][F] = @ + 1]
      PROVE  Count /\ faults' # 0
    <2>1. faults' = faults + 1 /\ faults' \in 0 .. MaxFaults /\ faults' # 0 /\ faults' >= faults
        BY <1>1, <1>4, Caps DEF Fault
    <2>2. CASE UNCHANGED delivered BY <1>1, <2>1, <2>2
    <2>3. CASE delivered' = [delivered EXCEPT ![q][F] = @ + 1] BY <1>1, <1>2, <2>1, <2>3
    <2>. QED BY <1>4, <2>2, <2>3
<1>5. ASSUME NEW ok \in BOOLEAN, Sends(q, F, ok) PROVE Count
    <2>1. CASE UNCHANGED <<delivered, faults>> BY <1>3, <2>1
    <2>2. CASE delivered' = [delivered EXCEPT ![q][F] = @ + 1] /\ faults' = faults
        BY <1>1, <1>2, <2>2
    <2>3. CASE delivered' = [delivered EXCEPT ![q][F] = @ + 1] /\ Fault(1) BY <1>4, <2>3
    <2>. QED BY <1>5, <2>1, <2>2, <2>3 DEF Sends
<1>6. ASSUME Arrives({F}) PROVE In /\ Reached
    <2>1. inbox' = [p \in Procs |-> IF link[p] = "on" THEN inbox[p] \cup {F} ELSE inbox[p]]
        BY <1>6 DEF Arrives
    <2>. QED BY <1>1, <2>1
<1>7. ASSUME inbox' = inbox PROVE In BY <1>1, <1>7
<1>8. ASSUME held' = held PROVE Out /\ Same /\ (F \in held'[q] => F \in held[q]) BY <1>1, <1>8
<1>9. ASSUME Holds(q, F) PROVE Out /\ Same BY <1>1, <1>9 DEF Holds
<1>10. ASSUME Holds(q, A) PROVE Out /\ (F \in held'[q] => F \in held[q]) BY <1>1, <1>10 DEF Holds
<1>11. \/ Arrives({F}) /\ UNCHANGED <<held, delivered, faults>>
       \/ Fault(1) /\ UNCHANGED <<inbox, held, delivered>>
       \/ /\ Fault(1) /\ (UNCHANGED delivered \/ delivered' = [delivered EXCEPT ![q][F] = @ + 1])
          /\ \/ Arrives({F}) /\ held' = held
             \/ Arrives({F}) /\ Holds(q, A)
             \/ Holds(q, F) /\ inbox' = inbox
       \/ /\ link[q] # "on" /\ Holds(q, F) /\ inbox' = inbox
          /\ \E ok \in BOOLEAN : Sends(q, F, ok)
    BY DEF PublishCtx, mail, F, A
<1>. HIDE DEF In, Out, Alone, Count, Reached, Same
<1>12. In /\ Out BY <1>6, <1>7, <1>8, <1>9, <1>10, <1>11
<1>13. Count BY <1>3, <1>4, <1>5, <1>11
<1>14. Alone BY <1>8, <1>10, <1>11 DEF Alone
<1>15. faults' = 0 => Same BY <1>4, <1>8, <1>9, <1>11
<1>16. faults' = 0 => delivered' = delivered \/ inbox' = inbox BY <1>4, <1>11
<1>17. faults' = 0 /\ (\A o \in Procs : link[o] = "on") => held' = held /\ Reached
    BY <1>4, <1>6, <1>11
<1>18. severity[r] = Unpublished /\ severity' = [severity EXCEPT ![r] = sev] BY DEF PublishCtx
<1>19. severity' \in [Requests -> Severities \cup {Unpublished}] BY <1>1, <1>18
<1>. QED BY <1>12, <1>13, <1>14, <1>15, <1>16, <1>17, <1>18, <1>19
         DEF In, Out, Alone, Count, Reached, Same, F, A

\* A process that ends leaves every variable its type.
LEMMA DieTypes == ASSUME NEW p \in Procs, NEW n \in Nat, Die(p, n), TypeOK
                  PROVE  TypeOK'
<1>1. /\ link' \in [Procs -> {"down", "stopping", "off", "deaf", "on"}]
      /\ inbox' \in [Procs -> SUBSET Messages] /\ held' \in [Procs -> SUBSET Messages]
    BY DEF Die, TypeOK
<1>2. /\ stage' \in [Procs -> [Messages -> {"none", "received", "sending", "sent", "failed"}]]
      /\ tries' \in [Procs -> [Messages -> 0 .. MaxAttempts - 1]]
    BY Caps DEF Die, TypeOK
<1>3. /\ batch' \subseteq Messages /\ replaying' \subseteq Messages
      /\ replay' \in {"next", "sent", "failed"}
      /\ due' \subseteq Schedules /\ marking' \in Schedules \cup {NoSchedule}
    BY DEF Die, TypeOK, replays
<1>4. faults' \in 0 .. MaxFaults BY Caps DEF Die, Fault, TypeOK
<1>. QED BY <1>1, <1>2, <1>3, <1>4 DEF Die, TypeOK

\* A row goes into the archive or comes out of it.
LEMMA ArchiveEffect ==
    ASSUME NEW m \in Messages, Archive(m), TypeOK
    PROVE  /\ log' \in [Procs -> [Messages -> {"none", "sent", "failed", "deferred", "archived"}]]
           /\ log[Worker][m] \in {"deferred", "archived"} /\ log'[Worker][m] \in {"deferred", "archived"}
           /\ \A o \in Procs, x \in Messages :
                /\ o # Worker \/ x # m => log'[o][x] = log[o][x]
                /\ log'[o][x] = "sent" <=> log[o][x] = "sent"
                /\ log'[o][x] = "none" <=> log[o][x] = "none"
<1>1. log \in [Procs -> [Messages -> {"none", "sent", "failed", "deferred", "archived"}]]
    BY DEF TypeOK
<1>2. CASE log[Worker][m] = "deferred" /\ log' = [log EXCEPT ![Worker][m] = "archived"]
    BY <1>1, <1>2, Caps
<1>3. CASE log[Worker][m] = "archived" /\ log' = [log EXCEPT ![Worker][m] = "deferred"]
    BY <1>1, <1>3, Caps
<1>. QED BY <1>2, <1>3 DEF Archive

\* Types are kept.
LEMMA TypeStep == TypeOK /\ [Next]_vars => TypeOK'
<1> SUFFICES ASSUME TypeOK, [Next]_vars PROVE TypeOK'  OBVIOUS
<1>1. ASSUME NEW p \in Procs, NEW m \in Messages, Receive(p, m) PROVE TypeOK'
    BY <1>1, Caps DEF Receive, TypeOK, job, mail, replays, scheduler
<1>2. ASSUME NEW p \in Procs, NEW m \in Messages, Attempt(p, m) PROVE TypeOK'
    <2>1. PICK ok \in BOOLEAN :
            LET next == AfterAttempt(ok, tries[p][m] + 1) IN
            /\ Sends(p, m, ok)
            /\ stage' = [stage EXCEPT ![p][m] = next]
            /\ tries' = [tries EXCEPT ![p][m] = IF next = "sending" THEN @ + 1 ELSE 0]
        BY <1>2 DEF Attempt
    <2>2. tries[p][m] \in 0 .. MaxAttempts - 1 BY DEF TypeOK
    <2>3. stage' \in [Procs -> [Messages -> {"none", "received", "sending", "sent", "failed"}]]
        BY <2>1 DEF AfterAttempt, TypeOK
    <2>4. AfterAttempt(ok, tries[p][m] + 1) = "sending" => tries[p][m] + 1 \in 0 .. MaxAttempts - 1
        BY <2>2, Caps DEF AfterAttempt
    <2>5. tries' \in [Procs -> [Messages -> 0 .. MaxAttempts - 1]] BY <2>1, <2>2, <2>4, Caps DEF TypeOK
    <2>6. delivered' \in [Procs -> [Messages -> Nat]] /\ faults' \in 0 .. MaxFaults
        BY <2>1, SendsEffect
    <2>. QED BY <1>2, <2>3, <2>5, <2>6 DEF Attempt, TypeOK, mail, replays, scheduler
<1>3. ASSUME NEW p \in Procs, NEW m \in Messages, CreateLog(p, m) PROVE TypeOK'
    BY <1>3, Caps DEF CreateLog, Statement, Stopping, Fault, TypeOK, job, mail, replays, scheduler
<1>4. ASSUME NEW q \in Procs, NEW r \in Requests, NEW sev \in Severities, Publish(q, r, sev) PROVE TypeOK'
    <2>1. PublishCtx(q, r, sev) BY <1>4 DEF Publish
    <2>. QED BY <1>4, <2>1, PublishEffect DEF Publish, TypeOK, job, replays, scheduler
<1>5. ASSUME NEW m \in Messages, Decide(m) PROVE TypeOK'
    <2>1. /\ stage' \in [Procs -> [Messages -> {"none", "received", "sending", "sent", "failed"}]]
          /\ log' \in [Procs -> [Messages -> {"none", "sent", "failed", "deferred", "archived"}]]
        <3> DEFINE Stages == [Procs -> [Messages -> {"none", "received", "sending", "sent", "failed"}]]
                   Logs == [Procs -> [Messages -> {"none", "sent", "failed", "deferred", "archived"}]]
        <3>1. stage \in Stages /\ log \in Logs BY DEF TypeOK
        <3>2. [log EXCEPT ![Worker][m] = "deferred"] \in Logs BY <3>1
        <3>3. [stage EXCEPT ![Worker][m] = "sending"] \in Stages BY <3>1
        <3>4. [stage EXCEPT ![Worker][m] = "none"] \in Stages BY <3>1
        <3>. HIDE DEF Stages, Logs
        <3>5. log' \in Logs BY <1>5, <3>1, <3>2 DEF Decide
        <3>6. stage' \in Stages BY <1>5, <3>3, <3>4 DEF Decide
        <3>. QED BY <3>5, <3>6 DEF Stages, Logs
    <2>2. faults \in 0 .. MaxFaults BY DEF TypeOK
    <2>3. faults' \in 0 .. MaxFaults BY <1>5, <2>2, StatementEffect DEF Decide
    <2>. QED BY <1>5, <2>1, <2>3 DEF Decide, TypeOK, mail, replays, scheduler
<1>6. ASSUME NEW m \in Messages, ReplaySkip(m) PROVE TypeOK'
    <2>1. log' \in [Procs -> [Messages -> {"none", "sent", "failed", "deferred", "archived"}]]
        <3>1. log' = log \/ log' = [log EXCEPT ![Worker][m] = "failed"] BY <1>6 DEF ReplaySkip
        <3>2. log \in [Procs -> [Messages -> {"none", "sent", "failed", "deferred", "archived"}]]
            BY DEF TypeOK
        <3>3. CASE log' = log BY <3>2, <3>3
        <3>4. CASE log' = [log EXCEPT ![Worker][m] = "failed"] BY <3>2, <3>4
        <3>. QED BY <3>1, <3>3, <3>4
    <2>2. faults \in 0 .. MaxFaults BY DEF TypeOK
    <2>3. faults' \in 0 .. MaxFaults
        <3>1. CASE Statement(Worker, FALSE) BY <2>2, <3>1, StatementEffect
        <3>2. ASSUME NEW found \in BOOLEAN, NEW ok \in BOOLEAN,
                     Fault((IF found THEN 0 ELSE 1) + (IF ok THEN 0 ELSE 1))
              PROVE  faults' \in 0 .. MaxFaults
            BY <2>2, <3>2, Caps DEF Fault
        <3>3. CASE faults' = faults BY <2>2, <3>3
        <3>. QED BY <1>6, <3>1, <3>2, <3>3 DEF ReplaySkip
    <2>. QED BY <1>6, <2>1, <2>3 DEF ReplaySkip, TypeOK, job, mail, scheduler
<1>7. ASSUME NEW m \in Messages, ReplaySend(m) PROVE TypeOK'
    <2>1. PICK ok \in BOOLEAN : Sends(Worker, m, ok) /\ replay' = IF ok THEN "sent" ELSE "failed"
        BY <1>7 DEF ReplaySend
    <2>2. delivered' \in [Procs -> [Messages -> Nat]] /\ faults' \in 0 .. MaxFaults
        BY <2>1, SendsEffect, Caps
    <2>3. replay' \in {"next", "sent", "failed"} BY <2>1
    <2>. QED BY <1>7, <2>2, <2>3 DEF ReplaySend, TypeOK, job, mail, scheduler
<1>8. ASSUME NEW m \in Messages, ReplayMark(m) PROVE TypeOK'
    BY <1>8, Caps DEF ReplayMark, Statement, Stopping, Fault, TypeOK, job, mail, replays, scheduler
<1>9. ASSUME NEW m \in Messages, Archive(m) PROVE TypeOK'
    <2>1. log' \in [Procs -> [Messages -> {"none", "sent", "failed", "deferred", "archived"}]]
        BY <1>9, ArchiveEffect
    <2>. QED BY <1>9, <2>1 DEF Archive, TypeOK, job, mail, replays, scheduler
<1>10. ASSUME ReplayTick PROVE TypeOK'
    BY <1>10, Caps DEF ReplayTick, TypeOK, job, mail, replays, scheduler
<1>11. ASSUME ScheduleTick PROVE TypeOK'
    BY <1>11, Caps DEF ScheduleTick, TypeOK, job, mail, replays, scheduler
<1>12. ASSUME NEW s \in Schedules, ScheduleSkip(s) PROVE TypeOK'
    BY <1>12, Caps DEF ScheduleSkip, Fault, TypeOK, job, mail, replays, scheduler
<1>13. ASSUME NEW s \in Schedules, NEW r \in Requests, ScheduleSend(s, r) PROVE TypeOK'
    <2>1. PublishCtx(Worker, r, Plain) BY <1>13 DEF ScheduleSend
    <2>2. ran' \in [Schedules -> Nat] BY <1>13 DEF ScheduleSend, TypeOK
    <2>. QED BY <1>13, <2>1, <2>2, PublishEffect, Caps DEF ScheduleSend, TypeOK, job, replays
<1>14. ASSUME ScheduleMark PROVE TypeOK'
    BY <1>14, Caps DEF ScheduleMark, MarkRun, Statement, Stopping, Fault, TypeOK, job, mail, replays, scheduler
<1>15. ASSUME NEW p \in Procs, Disconnect(p) PROVE TypeOK'
    BY <1>15, Caps DEF Disconnect, Fault, TypeOK, job, mail, replays, scheduler
<1>16. ASSUME NEW p \in Procs, Reconnect(p) PROVE TypeOK'
    BY <1>16, Caps DEF Reconnect, Arrives, TypeOK, job, mail, replays, scheduler
<1>17. ASSUME NEW p \in Procs, Crash(p) PROVE TypeOK'
    BY <1>17, DieTypes, Caps DEF Crash
<1>18. ASSUME NEW p \in Procs, Boot(p) PROVE TypeOK'
    BY <1>18, Caps DEF Boot, Fault, TypeOK, job, mail, replays, scheduler
<1>19. ASSUME Stop PROVE TypeOK'
    BY <1>19, Caps DEF Stop, Fault, TypeOK, job, mail, replays, scheduler
<1>20. ASSUME Exit PROVE TypeOK'
    BY <1>20, DieTypes, Caps DEF Exit
<1>21. ASSUME Window PROVE TypeOK'
    BY <1>21, Caps DEF Window, TypeOK, job, mail, replays, scheduler
<1>22. ASSUME UNCHANGED vars PROVE TypeOK'
    BY <1>22, Caps DEF vars, TypeOK, job, mail, replays, scheduler
<1>. QED BY <1>1, <1>2, <1>3, <1>4, <1>5, <1>6, <1>7, <1>8, <1>9, <1>10, <1>11, <1>12, <1>13, <1>14, <1>15, <1>16, <1>17, <1>18, <1>19, <1>20, <1>21, <1>22 DEF Next, Consume, Replay, ScheduleStep
-----------------------------------------------------------------------------
(* What the actions do to each request. *)

\* A value changed at one process and request stays the same at every other.
LEMMA Changed ==
    ASSUME NEW V, NEW f \in [Procs -> [Messages -> V]], NEW p \in Procs, NEW m \in Messages, NEW v
    PROVE  /\ [f EXCEPT ![p][m] = v][p][m] = v
           /\ \A o \in Procs, x \in Messages : o # p \/ x # m => [f EXCEPT ![p][m] = v][o][x] = f[o][x]
OBVIOUS

\* The ranges the steps below need.
LEMMA Ranges == TypeOK => /\ batch \subseteq Messages /\ replaying \subseteq Messages
                          /\ \A o \in Procs, x \in Messages : delivered[o][x] \in Nat
                          /\ faults \in Nat
BY Caps DEF TypeOK

\* An attempt moves its own goroutine and never takes a delivery back.
LEMMA AttemptEffect ==
    ASSUME NEW p \in Procs, NEW m \in Messages, Attempt(p, m), TypeOK
    PROVE  /\ stage[p][m] = "sending" /\ stage'[p][m] \in {"sending", "sent", "failed"}
           /\ \A o \in Procs, x \in Messages : o # p \/ x # m =>
                stage'[o][x] = stage[o][x] /\ delivered'[o][x] = delivered[o][x]
           /\ stage'[p][m] = "sent" => delivered'[p][m] = delivered[p][m] + 1 /\ faults' = faults
           /\ stage'[p][m] # "sent" => delivered'[p][m] + faults <= delivered[p][m] + faults'
           /\ delivered'[p][m] >= delivered[p][m] /\ faults' >= faults /\ delivered'[p][m] \in Nat
<1>1. PICK ok \in BOOLEAN :
        /\ Sends(p, m, ok)
        /\ stage' = [stage EXCEPT ![p][m] = AfterAttempt(ok, tries[p][m] + 1)]
    BY DEF Attempt
<1>2. stage \in [Procs -> [Messages -> {"none", "received", "sending", "sent", "failed"}]] BY DEF TypeOK
<1>3. stage'[p][m] = AfterAttempt(ok, tries[p][m] + 1) BY <1>1, <1>2, Changed
<1>4. \A o \in Procs, x \in Messages : o # p \/ x # m => stage'[o][x] = stage[o][x] BY <1>1, <1>2, Changed
<1>5. AfterAttempt(ok, tries[p][m] + 1) \in {"sending", "sent", "failed"}
      /\ (ok <=> AfterAttempt(ok, tries[p][m] + 1) = "sent")
    BY DEF AfterAttempt
<1>6. stage[p][m] = "sending" BY DEF Attempt
<1>. QED BY <1>1, <1>3, <1>4, <1>5, <1>6, SendsEffect

\* A row is written with the outcome of its own goroutine, or not at all.
LEMMA CreateLogEffect ==
    ASSUME NEW p \in Procs, NEW m \in Messages, CreateLog(p, m), TypeOK
    PROVE  /\ stage[p][m] \in {"sent", "failed"} /\ stage'[p][m] = "none"
           /\ \A o \in Procs, x \in Messages : o # p \/ x # m =>
                stage'[o][x] = stage[o][x] /\ log'[o][x] = log[o][x]
           /\ log'[p][m] = stage[p][m]
              \/ (log'[p][m] = log[p][m] /\ (link[p] = "stopping" \/ faults' = faults + 1))
           /\ faults' >= faults
<1>1. PICK ok \in BOOLEAN :
        Statement(p, ok) /\ log' = IF ok THEN [log EXCEPT ![p][m] = stage[p][m]] ELSE log
    BY DEF CreateLog
<1>2. stage \in [Procs -> [Messages -> {"none", "received", "sending", "sent", "failed"}]]
      /\ log \in [Procs -> [Messages -> {"none", "sent", "failed", "deferred", "archived"}]]
      /\ faults \in 0 .. MaxFaults
    BY DEF TypeOK
<1>3. stage[p][m] \in {"sent", "failed"} /\ stage' = [stage EXCEPT ![p][m] = "none"] BY DEF CreateLog
<1>4. stage'[p][m] = "none" /\ \A o \in Procs, x \in Messages : o # p \/ x # m => stage'[o][x] = stage[o][x]
    BY <1>2, <1>3, Changed
<1>5. CASE ok
    <2>1. log' = [log EXCEPT ![p][m] = stage[p][m]] BY <1>1, <1>5
    <2>2. log'[p][m] = stage[p][m] /\ \A o \in Procs, x \in Messages : o # p \/ x # m => log'[o][x] = log[o][x]
        BY <1>2, <2>1, Changed
    <2>3. faults' >= faults BY <1>1, <1>2, StatementEffect
    <2>. QED BY <1>3, <1>4, <2>2, <2>3
<1>6. CASE ~ok
    <2>1. log' = log BY <1>1, <1>6
    <2>2. faults' >= faults /\ (link[p] # "stopping" => faults' = faults + 1) BY <1>1, <1>2, <1>6, StatementEffect
    <2>. QED BY <1>3, <1>4, <2>1, <2>2
<1>. QED BY <1>5, <1>6

\* The gate sends the request on, or files it as deferred.
LEMMA DecideEffect ==
    ASSUME NEW m \in Messages, Decide(m), TypeOK
    PROVE  /\ stage[Worker][m] = "received"
           /\ \A o \in Procs, x \in Messages : o # Worker \/ x # m =>
                stage'[o][x] = stage[o][x] /\ log'[o][x] = log[o][x]
           /\ \/ stage'[Worker][m] = "sending" /\ log'[Worker][m] = log[Worker][m]
              \/ stage'[Worker][m] = "none" /\ log'[Worker][m] = "deferred"
              \/ stage'[Worker][m] = "none" /\ log'[Worker][m] = log[Worker][m] /\ faults' = faults + 1
           /\ faults' >= faults
<1>1. stage \in [Procs -> [Messages -> {"none", "received", "sending", "sent", "failed"}]]
      /\ log \in [Procs -> [Messages -> {"none", "sent", "failed", "deferred", "archived"}]]
      /\ faults \in 0 .. MaxFaults /\ Worker \in Procs
    BY Caps DEF TypeOK
<1>2. stage[Worker][m] = "received" BY DEF Decide
<1>3. CASE /\ stage' = [stage EXCEPT ![Worker][m] = "sending"] /\ log' = log /\ faults' >= faults
    BY <1>1, <1>2, <1>3, Changed
<1>4. CASE /\ stage' = [stage EXCEPT ![Worker][m] = "none"] /\ faults' >= faults
           /\ log' = [log EXCEPT ![Worker][m] = "deferred"]
    BY <1>1, <1>2, <1>4, Changed
<1>5. CASE stage' = [stage EXCEPT ![Worker][m] = "none"] /\ log' = log /\ faults' = faults + 1
    BY <1>1, <1>2, <1>5, Changed
<1>6. \A ok \in BOOLEAN : Statement(Worker, ok) =>
            faults' >= faults /\ (~ok /\ link[Worker] # "stopping" => faults' = faults + 1)
    BY <1>1, StatementEffect
<1>7. faults >= faults BY <1>1
<1>. QED BY <1>3, <1>4, <1>5, <1>6, <1>7 DEF Decide, Stopping

\* A skipped row leaves the batch, and may be marked failed.
LEMMA ReplaySkipEffect ==
    ASSUME NEW m \in Messages, ReplaySkip(m), TypeOK
    PROVE  /\ \A o \in Procs, x \in Messages : o # Worker \/ x # m => log'[o][x] = log[o][x]
           /\ log'[Worker][m] \in {log[Worker][m], "failed"}
           /\ faults' >= faults
<1>1. log \in [Procs -> [Messages -> {"none", "sent", "failed", "deferred", "archived"}]]
      /\ faults \in 0 .. MaxFaults /\ Worker \in Procs
    BY Caps DEF TypeOK
<1>2. faults' >= faults
    <2>1. CASE Statement(Worker, FALSE) BY <1>1, <2>1, StatementEffect
    <2>2. ASSUME NEW found \in BOOLEAN, NEW ok \in BOOLEAN,
                 Fault((IF found THEN 0 ELSE 1) + (IF ok THEN 0 ELSE 1))
          PROVE  faults' >= faults
        BY <1>1, <2>2 DEF Fault
    <2>3. CASE faults' = faults BY <1>1, <2>3
    <2>. QED BY <2>1, <2>2, <2>3 DEF ReplaySkip
<1>3. CASE log' = log BY <1>2, <1>3
<1>4. CASE log' = [log EXCEPT ![Worker][m] = "failed"] BY <1>1, <1>2, <1>4, Changed
<1>5. log' = log \/ log' = [log EXCEPT ![Worker][m] = "failed"] BY DEF ReplaySkip
<1>. QED BY <1>3, <1>4, <1>5

\* A replayed row is sent, or not and then called failed.
LEMMA ReplaySendEffect ==
    ASSUME NEW m \in Messages, ReplaySend(m), TypeOK
    PROVE  /\ \A o \in Procs, x \in Messages : o # Worker \/ x # m => delivered'[o][x] = delivered[o][x]
           /\ replay' = "sent" => delivered'[Worker][m] = delivered[Worker][m] + 1 /\ faults' = faults
           /\ replay' # "sent" => delivered'[Worker][m] + faults <= delivered[Worker][m] + faults'
           /\ replay' \in {"sent", "failed"}
           /\ delivered'[Worker][m] >= delivered[Worker][m] /\ faults' >= faults
           /\ delivered'[Worker][m] \in Nat
<1>1. PICK ok \in BOOLEAN : Sends(Worker, m, ok) /\ replay' = IF ok THEN "sent" ELSE "failed"
    BY DEF ReplaySend
<1>2. replay' \in {"sent", "failed"} /\ (ok <=> replay' = "sent") BY <1>1
<1>. QED BY <1>1, <1>2, SendsEffect, Caps

\* Marking writes the outcome of the row at hand, or fails.
LEMMA ReplayMarkEffect ==
    ASSUME NEW m \in Messages, ReplayMark(m), TypeOK
    PROVE  /\ \A o \in Procs, x \in Messages : o # Worker \/ x # m => log'[o][x] = log[o][x]
           /\ log'[Worker][m] = replay
              \/ (log'[Worker][m] = log[Worker][m] /\ (link[Worker] = "stopping" \/ faults' = faults + 1))
           /\ replay \in {"sent", "failed"} /\ faults' >= faults
<1>1. PICK ok \in BOOLEAN :
        Statement(Worker, ok) /\ log' = IF ok THEN [log EXCEPT ![Worker][m] = replay] ELSE log
    BY DEF ReplayMark
<1>2. log \in [Procs -> [Messages -> {"none", "sent", "failed", "deferred", "archived"}]]
      /\ faults \in 0 .. MaxFaults /\ Worker \in Procs
    BY Caps DEF TypeOK
<1>3. replay \in {"sent", "failed"} BY DEF ReplayMark
<1>4. faults' >= faults /\ (~ok /\ link[Worker] # "stopping" => faults' = faults + 1) BY <1>1, <1>2, StatementEffect
<1>5. CASE ok
    <2>1. log' = [log EXCEPT ![Worker][m] = replay] BY <1>1, <1>5
    <2>. QED BY <1>2, <1>3, <1>4, <2>1, Changed
<1>6. CASE ~ok BY <1>1, <1>3, <1>4, <1>6
<1>. QED BY <1>5, <1>6

-----------------------------------------------------------------------------
(* The inductive invariant. *)

\* A message is in one place at a time: its request unpublished, stored by a publisher's client, in a
\* consumer's inbox, in its goroutine, or in its row.
Placed ==
    /\ \A p \in Procs, m \in Messages :
        /\ severity[m[1]] = Unpublished => m \notin inbox[p] /\ m \notin held[p]
        /\ severity[m[1]] = Unpublished => stage[p][m] = "none" /\ log[p][m] = "none"
        /\ m \in inbox[p] => stage[p][m] = "none" /\ log[p][m] = "none"
        /\ stage[p][m] # "none" => log[p][m] = "none"
    /\ \A p, q \in Procs, m \in Messages : m \in held[q] =>
            /\ m \notin inbox[p] /\ stage[p][m] = "none" /\ log[p][m] = "none"
            /\ p # q => m \notin held[p]

\* The rows of the replay are deferred ones (or archived since), and one is at hand.
Rows ==
    /\ replay = "next" => replaying = {}
    /\ batch \cap replaying = {}
    /\ \A x, y \in replaying : x = y
    /\ \A m \in batch \cup replaying : log[Worker][m] \in {"deferred", "archived"}

\* What is about to be logged as sent was delivered.
Sent == /\ \A p \in Procs, m \in Messages : stage[p][m] = "sent" => delivered[p][m] > 0
        /\ replay = "sent" => \A m \in replaying : delivered[Worker][m] > 0

\* What is not published was not delivered.
Fresh == \A p \in Procs, m \in Messages : severity[m[1]] = Unpublished => delivered[p][m] = 0

\* The deliveries that need no fault any more: of a message that is on its way, at work,
\* or deferred. A row the replay has sent is not one of them, unless it cannot be marked.
Deferred(m) == /\ log[Worker][m] \in {"deferred", "archived"}
               /\ ~(replay = "sent" /\ m \in replaying /\ ~Stopping(Worker))
Coming(p, m) == m \in inbox[p] \/ (\E q \in Procs : q # p /\ m \in held[q])
Owes(p, m) == Coming(p, m) \/ stage[p][m] \in {"received", "sending"} \/ (p = Worker /\ Deferred(m))
Debt(p, m) == IF Owes(p, m) THEN 1 ELSE 0
Part(p, m) == delivered[p][m] + Debt(p, m)
Total(r) == Part(Api, First(r)) + Part(Worker, First(r))
                + Part(Api, Again(r)) + Part(Worker, Again(r))
Bound(n) == IF n = 0 THEN 2 ELSE 3 + n
Owed == \A r \in Requests : severity[r] # Unpublished => Total(r) <= Bound(faults)

\* A schedule at hand is still due, and a run that is not marked yet is at hand.
Marks ==
    /\ \A s \in due : schedule[s] = "due"
    /\ marking # NoSchedule => marking \in due /\ Running(Worker)
    /\ \A s \in Schedules : ran[s] + (IF schedule[s] = "due" /\ marking # s THEN 1 ELSE 0) <= 1 + faults

\* Without a fault both consumers are subscribed, and no client waits for an acknowledgement.
Up == faults = 0 => \A p \in Procs : link[p] = "on" /\ held[p] = {}

\* Without a fault a process has delivered a message once if that is about to be logged, is
\* logged or is in the replay's hands, and not at all otherwise.
Given(p, m) == \/ stage[p][m] = "sent" \/ log[p][m] = "sent"
               \/ (p = Worker /\ replay = "sent" /\ m \in replaying)
Exact(p, m) == delivered[p][m] = IF Given(p, m) THEN 1 ELSE 0
Once == faults = 0 => \A p \in Procs, m \in Messages : Exact(p, m)

\* A request that is published was in no place before.
LEMMA PublishPlaced ==
    ASSUME NEW q \in Procs, NEW r \in Requests, NEW sev \in Severities, PublishCtx(q, r, sev),
           stage' = stage, log' = log, TypeOK, Placed
    PROVE  Placed'
<1>1. /\ severity[r] = Unpublished
      /\ severity' = [severity EXCEPT ![r] = sev] /\ sev # Unpublished
    BY PublishEffect, Caps
<1>2. severity'[r] = sev /\ \A x \in Requests : x # r => severity'[x] = severity[x]
    BY <1>1 DEF TypeOK
<1>3. \A p \in Procs, x \in {First(r), Again(r)} :
        x \notin inbox[p] /\ x \notin held[p] /\ stage[p][x] = "none" /\ log[p][x] = "none"
    BY <1>1, Copies DEF Placed
<1>4. \A p \in Procs, x \in Messages :
        /\ severity'[x[1]] = Unpublished =>
                severity[x[1]] = Unpublished /\ x \notin {First(r), Again(r)}
        /\ x \in inbox'[p] => x \in inbox[p] \/ (x = First(r) /\ inbox' # inbox)
        /\ x \in held'[p] => x \in held[p] \/ (p = q /\ x = First(r) /\ inbox' = inbox)
                                           \/ (p = q /\ x = Again(r))
    <2>1. \A p \in Procs, x \in Messages :
            severity'[x[1]] = Unpublished =>
                severity[x[1]] = Unpublished /\ x \notin {First(r), Again(r)}
        BY <1>1, <1>2, Copies
    <2>2. \A p \in Procs, x \in Messages : x \in inbox'[p] => x \in inbox[p] \/ (x = First(r) /\ inbox' # inbox)
        BY PublishEffect
    <2>3. \A p \in Procs, x \in Messages :
            x \in held'[p] => x \in held[p] \/ (p = q /\ x = First(r) /\ inbox' = inbox)
                                            \/ (p = q /\ x = Again(r))
        BY PublishEffect
    <2>. QED BY <2>1, <2>2, <2>3
<1>5. \A p \in Procs, x \in Messages :
        /\ severity'[x[1]] = Unpublished => x \notin inbox'[p] /\ x \notin held'[p]
        /\ severity'[x[1]] = Unpublished => stage[p][x] = "none" /\ log[p][x] = "none"
    BY <1>4 DEF Placed
<1>6. \A p \in Procs, x \in Messages : x \in inbox'[p] => stage[p][x] = "none" /\ log[p][x] = "none"
    BY <1>3, <1>4 DEF Placed
<1>7. ASSUME NEW o \in Procs, NEW x \in Messages, x \in held'[o], NEW p \in Procs
      PROVE  /\ x \notin inbox'[p] /\ stage[p][x] = "none" /\ log[p][x] = "none"
             /\ p # o => x \notin held'[p]
    <2>1. CASE x \in {First(r), Again(r)} BY <1>3, <1>4, <1>7, <2>1, Copies
    <2>2. CASE x \notin {First(r), Again(r)} BY <1>4, <1>7, <2>2 DEF Placed
    <2>. QED BY <2>1, <2>2
<1>. QED BY <1>5, <1>6, <1>7 DEF Placed

\* A publish takes no delivery back.
LEMMA PublishGrows ==
    ASSUME NEW q \in Procs, NEW r \in Requests, NEW sev \in Severities, PublishCtx(q, r, sev), TypeOK
    PROVE  \A o \in Procs, x \in Messages :
                /\ delivered[o][x] \in Nat /\ delivered'[o][x] \in Nat
                /\ delivered'[o][x] >= delivered[o][x]
<1>1. \A o \in Procs, x \in Messages : delivered[o][x] \in Nat BY Ranges
<1>2. \A o \in Procs, x \in Messages : o # q \/ x # First(r) => delivered'[o][x] = delivered[o][x]
    BY PublishEffect
<1>3. delivered'[q][First(r)] \in {delivered[q][First(r)], delivered[q][First(r)] + 1}
    BY PublishEffect
<1>4. First(r) \in Messages BY Copies
<1>. QED BY <1>1, <1>2, <1>3, <1>4

\* Nor does it make a row of what was not delivered.
LEMMA PublishSent ==
    ASSUME NEW q \in Procs, NEW r \in Requests, NEW sev \in Severities, PublishCtx(q, r, sev),
           stage' = stage, replay' = replay, replaying' = replaying, TypeOK, Sent
    PROVE  Sent'
BY PublishGrows, Ranges, Caps DEF Sent

\* A message stays in one place.
LEMMA PlacedStep == TypeOK /\ Placed /\ Rows /\ [Next]_vars => Placed'
<1> SUFFICES ASSUME TypeOK, Placed, Rows, [Next]_vars PROVE Placed'  OBVIOUS
<1>1. ASSUME NEW p \in Procs, NEW m \in Messages, Receive(p, m) PROVE Placed'
    BY <1>1, Caps DEF Receive, Placed, TypeOK, job, mail, replays, scheduler
<1>2. ASSUME NEW p \in Procs, NEW m \in Messages, Attempt(p, m) PROVE Placed'
    <2>1. UNCHANGED <<inbox, held, log, severity, batch, replaying, replay>> BY <1>2 DEF Attempt, job, mail, replays, scheduler
    <2>. QED BY <2>1, <1>2, AttemptEffect DEF Placed, Rows
<1>3. ASSUME NEW p \in Procs, NEW m \in Messages, CreateLog(p, m) PROVE Placed'
    <2>1. UNCHANGED <<inbox, held, delivered, severity, batch, replaying, replay>> BY <1>3 DEF CreateLog, job, mail, replays, scheduler
    <2>. QED BY <2>1, <1>3, CreateLogEffect DEF Placed, Rows
<1>4. ASSUME NEW q \in Procs, NEW r \in Requests, NEW sev \in Severities, Publish(q, r, sev) PROVE Placed'
    <2>1. PublishCtx(q, r, sev) /\ stage' = stage /\ log' = log BY <1>4 DEF Publish, job
    <2>. QED BY <2>1, PublishPlaced
<1>5. ASSUME NEW m \in Messages, Decide(m) PROVE Placed'
    <2>1. UNCHANGED <<inbox, held, delivered, severity, batch, replaying, replay>> BY <1>5 DEF Decide, job, mail, replays, scheduler
    <2>. QED BY <2>1, <1>5, DecideEffect, Caps DEF Placed, Rows
<1>6. ASSUME NEW m \in Messages, ReplaySkip(m) PROVE Placed'
    <2>1. /\ UNCHANGED <<inbox, held, stage, delivered, severity, replaying, replay>>
          /\ replay = "next" /\ m \in batch /\ batch' = batch \ {m}
          BY <1>6 DEF ReplaySkip, job, mail, replays, scheduler
    <2>. QED BY <2>1, <1>6, ReplaySkipEffect, Ranges, Caps DEF Placed, Rows
<1>7. ASSUME NEW m \in Messages, ReplaySend(m) PROVE Placed'
    <2>1. /\ UNCHANGED <<inbox, held, stage, log, severity>>
          /\ replay = "next" /\ m \in batch /\ batch' = batch \ {m} /\ replaying' = {m}
          BY <1>7 DEF ReplaySend, job, mail, replays, scheduler
    <2>. QED BY <2>1 DEF Placed
<1>8. ASSUME NEW m \in Messages, ReplayMark(m) PROVE Placed'
    <2>1. /\ UNCHANGED <<inbox, held, stage, delivered, severity, batch>>
          /\ m \in replaying /\ replaying' = {} /\ replay' = "next"
          BY <1>8 DEF ReplayMark, job, mail, replays, scheduler
    <2>. QED BY <2>1, <1>8, ReplayMarkEffect, Caps DEF Placed, Rows
<1>9. ASSUME NEW m \in Messages, Archive(m) PROVE Placed'
    <2>1. UNCHANGED <<inbox, held, stage, severity>> BY <1>9 DEF Archive, job, mail
    <2>. QED BY <1>9, <2>1, ArchiveEffect, Caps DEF Placed
<1>10. ASSUME ReplayTick PROVE Placed'
    BY <1>10 DEF ReplayTick, Placed, job, mail
<1>11. ASSUME ScheduleTick PROVE Placed'
    BY <1>11, Caps DEF ScheduleTick, Placed, TypeOK, job, mail, replays, scheduler
<1>12. ASSUME NEW s \in Schedules, ScheduleSkip(s) PROVE Placed'
    BY <1>12, Caps DEF ScheduleSkip, Placed, TypeOK, job, mail, replays, scheduler
<1>13. ASSUME NEW s \in Schedules, NEW r \in Requests, ScheduleSend(s, r) PROVE Placed'
    <2>1. PublishCtx(Worker, r, Plain) /\ stage' = stage /\ log' = log BY <1>13 DEF ScheduleSend, job
    <2>. QED BY <2>1, PublishPlaced, Caps
<1>14. ASSUME ScheduleMark PROVE Placed'
    BY <1>14, Caps DEF ScheduleMark, Placed, TypeOK, job, mail, replays, scheduler
<1>15. ASSUME NEW p \in Procs, Disconnect(p) PROVE Placed'
    BY <1>15, Caps DEF Disconnect, Placed, TypeOK, job, mail, replays, scheduler
<1>16. ASSUME NEW p \in Procs, Reconnect(p) PROVE Placed'
    BY <1>16, Caps DEF Reconnect, Arrives, Placed, TypeOK, job, mail, replays, scheduler
<1>17. ASSUME NEW p \in Procs, Crash(p) PROVE Placed'
    BY <1>17, Caps DEF Crash, Die, Placed, TypeOK, job, mail, replays, scheduler
<1>18. ASSUME NEW p \in Procs, Boot(p) PROVE Placed'
    BY <1>18, Caps DEF Boot, Placed, TypeOK, job, mail, replays, scheduler
<1>19. ASSUME Stop PROVE Placed'
    BY <1>19, Caps DEF Stop, Placed, TypeOK, job, mail, replays, scheduler
<1>20. ASSUME Exit PROVE Placed'
    BY <1>20, Caps DEF Exit, Die, Placed, TypeOK, job, mail, replays, scheduler
<1>21. ASSUME Window PROVE Placed'
    BY <1>21, Caps DEF Window, Placed, TypeOK, job, mail, replays, scheduler
<1>22. ASSUME UNCHANGED vars PROVE Placed'
    BY <1>22, Caps DEF vars, Placed, TypeOK, job, mail, replays, scheduler
<1>. QED BY <1>1, <1>2, <1>3, <1>4, <1>5, <1>6, <1>7, <1>8, <1>9, <1>10, <1>11, <1>12, <1>13, <1>14, <1>15, <1>16, <1>17, <1>18, <1>19, <1>20, <1>21, <1>22 DEF Next, Consume, Replay, ScheduleStep

\* The replay keeps to its rows.
LEMMA RowsStep == TypeOK /\ Placed /\ Rows /\ [Next]_vars => Rows'
<1> SUFFICES ASSUME TypeOK, Placed, Rows, [Next]_vars PROVE Rows'  OBVIOUS
<1>1. ASSUME NEW p \in Procs, NEW m \in Messages, Receive(p, m) PROVE Rows'
    BY <1>1, Caps DEF Receive, Rows, TypeOK, job, mail, replays, scheduler
<1>2. ASSUME NEW p \in Procs, NEW m \in Messages, Attempt(p, m) PROVE Rows'
    <2>1. UNCHANGED <<inbox, held, log, severity, batch, replaying, replay>> BY <1>2 DEF Attempt, job, mail, replays, scheduler
    <2>. QED BY <2>1, <1>2, AttemptEffect, Ranges DEF Rows, Placed
<1>3. ASSUME NEW p \in Procs, NEW m \in Messages, CreateLog(p, m) PROVE Rows'
    <2>1. UNCHANGED <<batch, replaying, replay>> BY <1>3 DEF CreateLog, replays
    <2>2. stage[p][m] # "none" BY <1>3, CreateLogEffect
    <2>3. \A x \in batch \cup replaying : log'[Worker][x] = log[Worker][x]
        <3>1. log[p][m] = "none" BY <2>2, Caps DEF Placed
        <3>2. \A x \in batch \cup replaying : x \in Messages /\ (p # Worker \/ x # m)
            BY <3>1, Ranges DEF Rows
        <3>3. \A x \in Messages : Worker # p \/ x # m => log'[Worker][x] = log[Worker][x] BY <1>3, CreateLogEffect, Caps
        <3>. QED BY <3>2, <3>3
    <2>. QED BY <2>1, <2>3 DEF Rows
<1>4. ASSUME NEW q \in Procs, NEW r \in Requests, NEW sev \in Severities, Publish(q, r, sev) PROVE Rows'
    <2>1. PublishCtx(q, r, sev) BY <1>4 DEF Publish
    <2>. QED BY <1>4, <2>1, PublishEffect DEF Publish, Rows, TypeOK, job, replays, scheduler
<1>5. ASSUME NEW m \in Messages, Decide(m) PROVE Rows'
    <2>1. UNCHANGED <<batch, replaying, replay>> BY <1>5 DEF Decide, replays
    <2>2. stage[Worker][m] # "none" BY <1>5, DecideEffect
    <2>3. \A x \in batch \cup replaying : log'[Worker][x] = log[Worker][x]
        <3>1. log[Worker][m] = "none" BY <2>2, Caps DEF Placed
        <3>2. \A x \in batch \cup replaying : x \in Messages /\ (Worker # Worker \/ x # m)
            BY <3>1, Ranges DEF Rows
        <3>3. \A x \in Messages : Worker # Worker \/ x # m => log'[Worker][x] = log[Worker][x] BY <1>5, DecideEffect, Caps
        <3>. QED BY <3>2, <3>3
    <2>. QED BY <2>1, <2>3 DEF Rows
<1>6. ASSUME NEW m \in Messages, ReplaySkip(m) PROVE Rows'
    <2>1. /\ UNCHANGED <<inbox, held, stage, delivered, severity, replaying, replay>>
          /\ replay = "next" /\ m \in batch /\ batch' = batch \ {m}
          BY <1>6 DEF ReplaySkip, job, mail, replays, scheduler
    <2>. QED BY <2>1, <1>6, ReplaySkipEffect, Ranges, Caps DEF Rows, Placed
<1>7. ASSUME NEW m \in Messages, ReplaySend(m) PROVE Rows'
    <2>1. /\ UNCHANGED <<inbox, held, stage, log, severity>>
          /\ replay = "next" /\ m \in batch /\ batch' = batch \ {m} /\ replaying' = {m}
          BY <1>7 DEF ReplaySend, job, mail, replays, scheduler
    <2>. QED BY <2>1, <1>7, ReplaySendEffect, Ranges, Caps DEF Rows, Placed
<1>8. ASSUME NEW m \in Messages, ReplayMark(m) PROVE Rows'
    <2>1. UNCHANGED <<stage, batch>> /\ m \in replaying /\ replaying' = {} /\ replay' = "next"
        BY <1>8 DEF ReplayMark, job
    <2>2. \A x \in batch : x # m /\ log'[Worker][x] = log[Worker][x]
        BY <2>1, <1>8, ReplayMarkEffect, Ranges, Caps DEF Rows
    <2>. QED BY <2>1, <2>2 DEF Rows
<1>9. ASSUME NEW m \in Messages, Archive(m) PROVE Rows'
    <2>1. UNCHANGED <<batch, replaying, replay>> BY <1>9 DEF Archive, replays
    <2>. QED BY <1>9, <2>1, ArchiveEffect, Ranges, Caps DEF Rows
<1>10. ASSUME ReplayTick PROVE Rows'
    BY <1>10, Caps DEF ReplayTick, Rows, TypeOK, job, mail, replays, scheduler
<1>11. ASSUME ScheduleTick PROVE Rows'
    BY <1>11, Caps DEF ScheduleTick, Rows, TypeOK, job, mail, replays, scheduler
<1>12. ASSUME NEW s \in Schedules, ScheduleSkip(s) PROVE Rows'
    BY <1>12, Caps DEF ScheduleSkip, Rows, TypeOK, job, mail, replays, scheduler
<1>13. ASSUME NEW s \in Schedules, NEW r \in Requests, ScheduleSend(s, r) PROVE Rows'
    <2>1. PublishCtx(Worker, r, Plain) BY <1>13 DEF ScheduleSend
    <2>. QED BY <1>13, <2>1, PublishEffect, Caps DEF ScheduleSend, Rows, TypeOK, job, replays
<1>14. ASSUME ScheduleMark PROVE Rows'
    BY <1>14, Caps DEF ScheduleMark, Rows, TypeOK, job, mail, replays, scheduler
<1>15. ASSUME NEW p \in Procs, Disconnect(p) PROVE Rows'
    BY <1>15, Caps DEF Disconnect, Rows, TypeOK, job, mail, replays, scheduler
<1>16. ASSUME NEW p \in Procs, Reconnect(p) PROVE Rows'
    BY <1>16, Caps DEF Reconnect, Arrives, Rows, TypeOK, job, mail, replays, scheduler
<1>17. ASSUME NEW p \in Procs, Crash(p) PROVE Rows'
    BY <1>17, Caps DEF Crash, Die, Rows, TypeOK, job, mail, replays, scheduler
<1>18. ASSUME NEW p \in Procs, Boot(p) PROVE Rows'
    BY <1>18, Caps DEF Boot, Rows, TypeOK, job, mail, replays, scheduler
<1>19. ASSUME Stop PROVE Rows'
    BY <1>19, Caps DEF Stop, Rows, TypeOK, job, mail, replays, scheduler
<1>20. ASSUME Exit PROVE Rows'
    BY <1>20, Caps DEF Exit, Die, Rows, TypeOK, job, mail, replays, scheduler
<1>21. ASSUME Window PROVE Rows'
    BY <1>21, Caps DEF Window, Rows, TypeOK, job, mail, replays, scheduler
<1>22. ASSUME UNCHANGED vars PROVE Rows'
    BY <1>22, Caps DEF vars, Rows, TypeOK, job, mail, replays, scheduler
<1>. QED BY <1>1, <1>2, <1>3, <1>4, <1>5, <1>6, <1>7, <1>8, <1>9, <1>10, <1>11, <1>12, <1>13, <1>14, <1>15, <1>16, <1>17, <1>18, <1>19, <1>20, <1>21, <1>22 DEF Next, Consume, Replay, ScheduleStep

\* Only what was delivered is about to be logged as sent.
LEMMA SentStep == TypeOK /\ Placed /\ Rows /\ Sent /\ [Next]_vars => Sent'
<1> SUFFICES ASSUME TypeOK, Placed, Rows, Sent, [Next]_vars PROVE Sent'  OBVIOUS
<1>1. ASSUME NEW p \in Procs, NEW m \in Messages, Receive(p, m) PROVE Sent'
    BY <1>1, Caps DEF Receive, Sent, TypeOK, job, mail, replays, scheduler
<1>2. ASSUME NEW p \in Procs, NEW m \in Messages, Attempt(p, m) PROVE Sent'
    <2>1. UNCHANGED <<replaying, replay>> BY <1>2 DEF Attempt, replays
    <2>2. \A o \in Procs, x \in Messages : delivered'[o][x] >= delivered[o][x] /\ delivered'[o][x] \in Nat
        BY <1>2, AttemptEffect, Ranges
    <2>3. stage'[p][m] = "sent" => delivered'[p][m] > 0 BY <1>2, AttemptEffect, Ranges
    <2>4. \A o \in Procs, x \in Messages : stage'[o][x] = "sent" => delivered'[o][x] > 0
        BY <2>2, <2>3, <1>2, AttemptEffect, Ranges DEF Sent
    <2>5. ASSUME replay = "sent", NEW x \in replaying PROVE delivered'[Worker][x] > 0
        <3>1. x \in Messages /\ Worker \in Procs BY Ranges, Caps
        <3>2. delivered[Worker][x] > 0 BY <2>5 DEF Sent
        <3>. QED BY <2>2, <3>1, <3>2, Ranges
    <2>. QED BY <2>1, <2>4, <2>5 DEF Sent
<1>3. ASSUME NEW p \in Procs, NEW m \in Messages, CreateLog(p, m) PROVE Sent'
    <2>1. UNCHANGED <<inbox, held, delivered, severity, batch, replaying, replay>> BY <1>3 DEF CreateLog, job, mail, replays, scheduler
    <2>. QED BY <2>1, <1>3, CreateLogEffect, Ranges DEF Sent, Rows
<1>4. ASSUME NEW q \in Procs, NEW r \in Requests, NEW sev \in Severities, Publish(q, r, sev) PROVE Sent'
    <2>1. PublishCtx(q, r, sev) /\ UNCHANGED <<stage, replay, replaying>> BY <1>4 DEF Publish, job, replays
    <2>. QED BY <2>1, PublishSent
<1>5. ASSUME NEW m \in Messages, Decide(m) PROVE Sent'
    <2>1. UNCHANGED <<inbox, held, delivered, severity, batch, replaying, replay>> BY <1>5 DEF Decide, job, mail, replays, scheduler
    <2>. QED BY <2>1, <1>5, DecideEffect, Ranges, Caps DEF Sent, Rows
<1>6. ASSUME NEW m \in Messages, ReplaySkip(m) PROVE Sent'
    <2>1. /\ UNCHANGED <<inbox, held, stage, delivered, severity, replaying, replay>>
          /\ replay = "next" /\ m \in batch /\ batch' = batch \ {m}
          BY <1>6 DEF ReplaySkip, job, mail, replays, scheduler
    <2>. QED BY <2>1, <1>6, ReplaySkipEffect, Ranges, Caps DEF Sent, Rows
<1>7. ASSUME NEW m \in Messages, ReplaySend(m) PROVE Sent'
    <2>1. /\ UNCHANGED <<inbox, held, stage, log, severity>>
          /\ replay = "next" /\ m \in batch /\ batch' = batch \ {m} /\ replaying' = {m}
          BY <1>7 DEF ReplaySend, job, mail, replays, scheduler
    <2>. QED BY <2>1, <1>7, ReplaySendEffect, Ranges, Caps DEF Sent, Rows
<1>8. ASSUME NEW m \in Messages, ReplayMark(m) PROVE Sent'
    <2>1. /\ UNCHANGED <<inbox, held, stage, delivered, severity, batch>>
          /\ m \in replaying /\ replaying' = {} /\ replay' = "next"
          BY <1>8 DEF ReplayMark, job, mail, replays, scheduler
    <2>. QED BY <2>1, <1>8, ReplayMarkEffect, Ranges, Caps DEF Sent, Rows
<1>9. ASSUME NEW m \in Messages, Archive(m) PROVE Sent'
    BY <1>9, Caps DEF Archive, Sent, TypeOK, job, mail, replays, scheduler
<1>10. ASSUME ReplayTick PROVE Sent'
    BY <1>10, Caps DEF ReplayTick, Sent, TypeOK, job, mail, replays, scheduler
<1>11. ASSUME ScheduleTick PROVE Sent'
    BY <1>11, Caps DEF ScheduleTick, Sent, TypeOK, job, mail, replays, scheduler
<1>12. ASSUME NEW s \in Schedules, ScheduleSkip(s) PROVE Sent'
    BY <1>12, Caps DEF ScheduleSkip, Sent, TypeOK, job, mail, replays, scheduler
<1>13. ASSUME NEW s \in Schedules, NEW r \in Requests, ScheduleSend(s, r) PROVE Sent'
    <2>1. PublishCtx(Worker, r, Plain) /\ UNCHANGED <<stage, replay, replaying>>
        BY <1>13 DEF ScheduleSend, job, replays
    <2>. QED BY <2>1, PublishSent, Caps
<1>14. ASSUME ScheduleMark PROVE Sent'
    BY <1>14, Caps DEF ScheduleMark, Sent, TypeOK, job, mail, replays, scheduler
<1>15. ASSUME NEW p \in Procs, Disconnect(p) PROVE Sent'
    BY <1>15, Caps DEF Disconnect, Sent, TypeOK, job, mail, replays, scheduler
<1>16. ASSUME NEW p \in Procs, Reconnect(p) PROVE Sent'
    BY <1>16, Caps DEF Reconnect, Arrives, Sent, TypeOK, job, mail, replays, scheduler
<1>17. ASSUME NEW p \in Procs, Crash(p) PROVE Sent'
    BY <1>17, Caps DEF Crash, Die, Sent, TypeOK, job, mail, replays, scheduler
<1>18. ASSUME NEW p \in Procs, Boot(p) PROVE Sent'
    BY <1>18, Caps DEF Boot, Sent, TypeOK, job, mail, replays, scheduler
<1>19. ASSUME Stop PROVE Sent'
    BY <1>19, Caps DEF Stop, Sent, TypeOK, job, mail, replays, scheduler
<1>20. ASSUME Exit PROVE Sent'
    BY <1>20, Caps DEF Exit, Die, Sent, TypeOK, job, mail, replays, scheduler
<1>21. ASSUME Window PROVE Sent'
    BY <1>21, Caps DEF Window, Sent, TypeOK, job, mail, replays, scheduler
<1>22. ASSUME UNCHANGED vars PROVE Sent'
    BY <1>22, Caps DEF vars, Sent, TypeOK, job, mail, replays, scheduler
<1>. QED BY <1>1, <1>2, <1>3, <1>4, <1>5, <1>6, <1>7, <1>8, <1>9, <1>10, <1>11, <1>12, <1>13, <1>14, <1>15, <1>16, <1>17, <1>18, <1>19, <1>20, <1>21, <1>22 DEF Next, Consume, Replay, ScheduleStep

\* Only what is published gets delivered.
LEMMA FreshStep == TypeOK /\ Placed /\ Rows /\ Fresh /\ [Next]_vars => Fresh'
<1> SUFFICES ASSUME TypeOK, Placed, Rows, Fresh, [Next]_vars PROVE Fresh'  OBVIOUS
<1>1. ASSUME UNCHANGED <<severity, delivered>> PROVE Fresh' BY <1>1 DEF Fresh
<1>2. ASSUME NEW p \in Procs, NEW m \in Messages, Attempt(p, m) PROVE Fresh'
    <2>1. severity' = severity BY <1>2 DEF Attempt
    <2>2. severity[m[1]] # Unpublished BY <1>2, AttemptEffect DEF Placed
    <2>3. \A o \in Procs, x \in Messages : o # p \/ x # m => delivered'[o][x] = delivered[o][x]
        BY <1>2, AttemptEffect
    <2>. QED BY <2>1, <2>2, <2>3 DEF Fresh
<1>3. ASSUME NEW m \in Messages, ReplaySend(m) PROVE Fresh'
    <2>1. severity' = severity /\ m \in batch BY <1>3 DEF ReplaySend
    <2>2. severity[m[1]] # Unpublished BY <2>1, Caps DEF Placed, Rows
    <2>3. \A o \in Procs, x \in Messages : o # Worker \/ x # m => delivered'[o][x] = delivered[o][x]
        BY <1>3, ReplaySendEffect
    <2>. QED BY <2>1, <2>2, <2>3 DEF Fresh
<1>4. ASSUME NEW q \in Procs, NEW r \in Requests, NEW sev \in Severities, PublishCtx(q, r, sev)
      PROVE  Fresh'
    <2>1. severity' = [severity EXCEPT ![r] = sev] /\ sev # Unpublished BY <1>4, PublishEffect, Caps
    <2>2. severity'[r] # Unpublished /\ \A x \in Requests : x # r => severity'[x] = severity[x]
        BY <2>1 DEF TypeOK
    <2>3. \A o \in Procs, x \in Messages : x # First(r) => delivered'[o][x] = delivered[o][x]
        BY <1>4, PublishEffect
    <2>4. \A x \in Messages : severity'[x[1]] = Unpublished => x # First(r) /\ severity[x[1]] = Unpublished
        BY <2>2, Copies
    <2>. QED BY <2>3, <2>4 DEF Fresh
<1>5. ASSUME NEW p \in Procs, NEW m \in Messages, Receive(p, m) \/ CreateLog(p, m)
      PROVE  UNCHANGED <<severity, delivered>>
    BY <1>5 DEF Receive, CreateLog
<1>6. ASSUME NEW m \in Messages, Decide(m) \/ ReplaySkip(m) \/ ReplayMark(m) \/ Archive(m)
      PROVE  UNCHANGED <<severity, delivered>>
    BY <1>6 DEF Decide, ReplaySkip, ReplayMark, Archive
<1>7. ASSUME NEW s \in Schedules, ScheduleSkip(s) \/ ScheduleMark
      PROVE  UNCHANGED <<severity, delivered>>
    BY <1>7 DEF ScheduleSkip, ScheduleMark
<1>8. ASSUME NEW p \in Procs, Disconnect(p) \/ Reconnect(p) \/ Crash(p) \/ Boot(p)
      PROVE  UNCHANGED <<severity, delivered>>
    BY <1>8 DEF Disconnect, Reconnect, Crash, Boot, Die
<1>9. ASSUME ReplayTick \/ ScheduleTick \/ Stop \/ Exit \/ Window \/ UNCHANGED vars
      PROVE  UNCHANGED <<severity, delivered>>
    BY <1>9 DEF ReplayTick, ScheduleTick, Stop, Exit, Die, Window, vars
<1>. QED BY <1>1, <1>2, <1>3, <1>4, <1>5, <1>6, <1>7, <1>8, <1>9, Caps
         DEF Next, Consume, Replay, Publish, ScheduleStep, ScheduleSend

\* Debts are 0 or 1, and do not grow where nothing more is owed.
LEMMA Debts == ASSUME NEW p \in Procs, NEW x \in Messages
               PROVE  /\ Debt(p, x) \in {0, 1} /\ Debt(p, x)' \in {0, 1}
                      /\ Owes(p, x) <=> Debt(p, x) = 1
                      /\ Owes(p, x)' <=> Debt(p, x)' = 1
                      /\ (Owes(p, x)' => Owes(p, x)) => Debt(p, x)' <= Debt(p, x)
BY DEF Debt

\* What is delivered and owed of a message at a process is a number, and does not grow where
\* nothing is delivered and nothing more is owed.
LEMMA Parts == ASSUME TypeOK, TypeOK', NEW p \in Procs, NEW x \in Messages
               PROVE  /\ Part(p, x) \in Nat /\ Part(p, x)' \in Nat
                      /\ faults \in Nat /\ faults' \in Nat
                      /\ delivered'[p][x] = delivered[p][x] /\ (Owes(p, x)' => Owes(p, x))
                            => Part(p, x)' <= Part(p, x)
<1>1. delivered[p][x] \in Nat /\ delivered'[p][x] \in Nat /\ faults \in Nat /\ faults' \in Nat
    BY Caps DEF TypeOK
<1>2. /\ Debt(p, x) \in {0, 1} /\ Debt(p, x)' \in {0, 1}
      /\ (Owes(p, x)' => Owes(p, x)) => Debt(p, x)' <= Debt(p, x)
    BY Debts
<1>3. Part(p, x) = delivered[p][x] + Debt(p, x) /\ Part(p, x)' = delivered'[p][x] + Debt(p, x)'
    BY DEF Part
<1>. QED BY <1>1, <1>2, <1>3

\* A step keeps the bound if what it adds for one message at one process is paid by a fault,
\* and it adds nothing elsewhere.
LEMMA Paid ==
    ASSUME TypeOK, TypeOK', Owed, severity' = severity, faults' >= faults,
           NEW p \in Procs, NEW m \in Messages, Part(p, m)' + faults <= Part(p, m) + faults',
           \A o \in Procs, x \in Messages : o # p \/ x # m => Part(o, x)' <= Part(o, x)
    PROVE  Owed'
<1>1. SUFFICES ASSUME NEW r \in Requests, severity[r] # Unpublished PROVE Total(r)' <= Bound(faults')
    BY DEF Owed, Bound
<1> DEFINE F == First(r)
           A == Again(r)
<1>2. F \in Messages /\ A \in Messages /\ F # A BY Copies
<1>3. Api \in Procs /\ Worker \in Procs /\ Api # Worker BY Caps
<1>. HIDE DEF F, A
<1>4. /\ Part(Api, F) \in Nat /\ Part(Worker, F) \in Nat /\ Part(Api, A) \in Nat /\ Part(Worker, A) \in Nat
      /\ Part(Api, F)' \in Nat /\ Part(Worker, F)' \in Nat
      /\ Part(Api, A)' \in Nat /\ Part(Worker, A)' \in Nat
      /\ faults \in Nat /\ faults' \in Nat
    BY <1>2, <1>3, Parts
<1>5. ASSUME NEW o \in Procs, NEW x \in Messages
      PROVE  Part(o, x)' <= Part(o, x) \/ (o = p /\ x = m /\ Part(o, x)' + faults <= Part(o, x) + faults')
    OBVIOUS
<1>6. Part(Api, F) + Part(Worker, F) + Part(Api, A) + Part(Worker, A) <= Bound(faults)
    BY <1>1 DEF Owed, Total, F, A
<1>7. /\ Part(Api, F)' <= Part(Api, F) => Part(Api, F)' + faults <= Part(Api, F) + faults'
      /\ \/ Part(Api, F)' + faults <= Part(Api, F) + faults' /\ Part(Worker, F)' <= Part(Worker, F)
            /\ Part(Api, A)' <= Part(Api, A) /\ Part(Worker, A)' <= Part(Worker, A)
         \/ Part(Api, F)' <= Part(Api, F) /\ Part(Worker, F)' + faults <= Part(Worker, F) + faults'
            /\ Part(Api, A)' <= Part(Api, A) /\ Part(Worker, A)' <= Part(Worker, A)
         \/ Part(Api, F)' <= Part(Api, F) /\ Part(Worker, F)' <= Part(Worker, F)
            /\ Part(Api, A)' + faults <= Part(Api, A) + faults' /\ Part(Worker, A)' <= Part(Worker, A)
         \/ Part(Api, F)' <= Part(Api, F) /\ Part(Worker, F)' <= Part(Worker, F)
            /\ Part(Api, A)' <= Part(Api, A) /\ Part(Worker, A)' + faults <= Part(Worker, A) + faults'
    <2>1. Part(Api, F)' <= Part(Api, F) => Part(Api, F)' + faults <= Part(Api, F) + faults'
        BY <1>4
    <2>. QED BY <1>2, <1>3, <1>5, <2>1
<1>8. Part(Api, F)' + Part(Worker, F)' + Part(Api, A)' + Part(Worker, A)' <= Bound(faults')
    <2>1. /\ \E a \in Nat : a = Part(Api, F)
          /\ \E b \in Nat : b = Part(Worker, F)
          /\ \E c \in Nat : c = Part(Api, A)
          /\ \E d \in Nat : d = Part(Worker, A)
        BY <1>4
    <2>2. /\ \E e \in Nat : e = Part(Api, F)'
          /\ \E f \in Nat : f = Part(Worker, F)'
          /\ \E g \in Nat : g = Part(Api, A)'
          /\ \E h \in Nat : h = Part(Worker, A)'
        BY <1>4
    <2>a. PICK a \in Nat : a = Part(Api, F) BY <2>1
    <2>b. PICK b \in Nat : b = Part(Worker, F) BY <2>1
    <2>c. PICK c \in Nat : c = Part(Api, A) BY <2>1
    <2>d. PICK d \in Nat : d = Part(Worker, A) BY <2>1
    <2>e. PICK e \in Nat : e = Part(Api, F)' BY <2>2
    <2>f. PICK f \in Nat : f = Part(Worker, F)' BY <2>2
    <2>g. PICK g \in Nat : g = Part(Api, A)' BY <2>2
    <2>h. PICK h \in Nat : h = Part(Worker, A)' BY <2>2
    <2>3. PICK n \in Nat, k \in Nat : n = faults /\ k = faults' /\ k >= n BY <1>4
    <2>4. a + b + c + d <= Bound(n) BY <1>6, <2>a, <2>b, <2>c, <2>d, <2>3
    <2>5. \/ e + n <= a + k /\ f <= b /\ g <= c /\ h <= d
          \/ e <= a /\ f + n <= b + k /\ g <= c /\ h <= d
          \/ e <= a /\ f <= b /\ g + n <= c + k /\ h <= d
          \/ e <= a /\ f <= b /\ g <= c /\ h + n <= d + k
        BY <1>7, <2>a, <2>b, <2>c, <2>d, <2>e, <2>f, <2>g, <2>h, <2>3
    <2>6. e + f + g + h <= Bound(k)
        <3>1. (e + f + g + h) + n <= (a + b + c + d) + k BY <2>5
        <3>2. CASE n = 0 /\ k = 0 BY <2>4, <3>1, <3>2 DEF Bound
        <3>3. CASE n = 0 /\ k # 0 BY <2>4, <3>1, <3>3 DEF Bound
        <3>4. CASE n # 0
            <4>1. k # 0 BY <2>3, <3>4
            <4>2. Bound(n) = 3 + n /\ Bound(k) = 3 + k BY <3>4, <4>1 DEF Bound
            <4>. QED BY <2>4, <3>1, <4>2
        <3>. QED BY <3>2, <3>3, <3>4
    <2>. QED BY <2>e, <2>f, <2>g, <2>h, <2>3, <2>6
<1>. QED BY <1>8 DEF Total, F, A

\* A step that delivers nothing and owes nothing more keeps the bound.
LEMMA NothingMore ==
    ASSUME TypeOK, TypeOK', Owed, severity' = severity, delivered' = delivered, faults' >= faults,
           \A p \in Procs, x \in Messages : Owes(p, x)' => Owes(p, x)
    PROVE  Owed'
<1>1. \A o \in Procs, x \in Messages : Part(o, x)' <= Part(o, x) BY Parts
<1>2. CASE Requests = {} BY <1>2 DEF Owed
<1>3. ASSUME NEW r \in Requests PROVE Owed'
    <2>1. First(r) \in Messages BY Copies
    <2>2. Part(Api, First(r))' + faults <= Part(Api, First(r)) + faults' BY <1>1, <2>1, Parts, Caps
    <2>. QED BY <1>1, <2>1, <2>2, Paid, Caps
<1>. QED BY <1>2, <1>3

\* A step that at most makes the worker owe one message once more is paid by its fault.
LEMMA OneMore ==
    ASSUME TypeOK, TypeOK', Owed, severity' = severity, delivered' = delivered,
           faults' = faults + 1, NEW m \in Messages,
           \A o \in Procs, x \in Messages : o # Worker \/ x # m => (Owes(o, x)' => Owes(o, x))
    PROVE  Owed'
<1>1. \A o \in Procs, x \in Messages : o # Worker \/ x # m => Part(o, x)' <= Part(o, x) BY Parts
<1>2. Part(Worker, m)' + faults <= Part(Worker, m) + faults'
    <2>1. Part(Worker, m)' <= Part(Worker, m) + 1
        <3>1. Debt(Worker, m) \in {0, 1} /\ Debt(Worker, m)' \in {0, 1} BY Debts, Caps
        <3>2. delivered[Worker][m] \in Nat BY Ranges, Caps
        <3>. QED BY <3>1, <3>2 DEF Part
    <2>. QED BY <2>1, Parts, Caps
<1>3. faults' >= faults BY Ranges
<1>. QED BY <1>1, <1>2, <1>3, Paid, Caps

\* A fault pays for the row that the replay had at hand.
LEMMA HandLost ==
    ASSUME TypeOK, TypeOK', Rows, Owed, severity' = severity, delivered' = delivered,
           faults' = faults + 1,
           \A o \in Procs, x \in Messages : o # Worker \/ x \notin replaying => (Owes(o, x)' => Owes(o, x))
    PROVE  Owed'
<1>1. CASE replaying = {}
    <2>1. faults' >= faults BY Ranges
    <2>. QED BY <1>1, <2>1, NothingMore
<1>2. ASSUME NEW m \in replaying PROVE Owed'
    <2>1. m \in Messages /\ \A x \in Messages : x # m => x \notin replaying BY Ranges DEF Rows
    <2>. QED BY <2>1, OneMore
<1>. QED BY <1>1, <1>2

\* A step at one process and message keeps the bound if a fault pays for what it adds.
LEMMA PaidOnce ==
    ASSUME TypeOK, TypeOK', Owed, severity' = severity,
           NEW p \in Procs, NEW m \in Messages, faults' >= faults,
           delivered'[p][m] + Debt(p, m)' + faults <= delivered[p][m] + Debt(p, m) + faults',
           \A o \in Procs, x \in Messages : o # p \/ x # m =>
                delivered'[o][x] = delivered[o][x] /\ Debt(o, x)' = Debt(o, x)
    PROVE  Owed'
<1>1. \A o \in Procs, x \in Messages : o # p \/ x # m => Part(o, x)' = Part(o, x) BY DEF Part
<1>2. \A o \in Procs, x \in Messages : o # p \/ x # m => Part(o, x)' <= Part(o, x) BY <1>1, Parts
<1>3. Part(p, m)' + faults <= Part(p, m) + faults' BY DEF Part
<1>. QED BY <1>2, <1>3, Paid

\* A publish delivers and leaves to be delivered no more than its request may have.
LEMMA PublishOwed ==
    ASSUME NEW q \in Procs, NEW r \in Requests, NEW sev \in Severities, PublishCtx(q, r, sev),
           UNCHANGED <<link, stage, log, replaying, replay>>,
           TypeOK, TypeOK', Placed, Fresh, Owed
    PROVE  Owed'
<1> DEFINE F == First(r)
           A == Again(r)
<1>1. /\ severity[r] = Unpublished /\ \A x \in Requests : x # r => severity'[x] = severity[x]
      /\ faults \in Nat /\ faults' \in Nat /\ faults' >= faults
      /\ F \in Messages /\ A \in Messages /\ F # A /\ F[1] = r /\ A[1] = r
    <2>1. severity[r] = Unpublished /\ severity' = [severity EXCEPT ![r] = sev] BY PublishEffect
    <2>2. \A x \in Requests : x # r => severity'[x] = severity[x] BY <2>1 DEF TypeOK
    <2>3. faults' >= faults BY PublishEffect
    <2>4. faults \in Nat /\ faults' \in Nat BY Caps DEF TypeOK
    <2>. QED BY <2>1, <2>2, <2>3, <2>4, Copies
<1>2. \A p \in Procs, x \in {F, A} :
            /\ x \notin inbox[p] /\ x \notin held[p] /\ stage[p][x] = "none" /\ log[p][x] = "none"
            /\ delivered[p][x] = 0
    BY <1>1 DEF Placed, Fresh
<1>3. \A x \in Messages : Deferred(x)' <=> Deferred(x) BY DEF Deferred, Stopping
<1>4. \A x \in Messages : x \notin {F, A} => \A o \in Procs :
            /\ delivered'[o][x] = delivered[o][x]
            /\ x \in inbox'[o] <=> x \in inbox[o]
            /\ x \in held'[o] <=> x \in held[o]
    BY PublishEffect
<1>5. ASSUME NEW o \in Procs, NEW x \in Messages, x \notin {F, A} PROVE Part(o, x)' = Part(o, x)
    <2>1. Coming(o, x)' <=> Coming(o, x) BY <1>4, <1>5 DEF Coming
    <2>2. Owes(o, x)' <=> Owes(o, x) BY <1>3, <2>1 DEF Owes
    <2>3. Debt(o, x)' = Debt(o, x) BY <2>2 DEF Debt
    <2>. QED BY <1>4, <1>5, <2>3 DEF Part
<1>6. ASSUME NEW x \in Requests, x # r, severity'[x] # Unpublished PROVE Total(x)' <= Bound(faults')
    <2>1. First(x) \in Messages \ {F, A} /\ Again(x) \in Messages \ {F, A} BY <1>1, <1>6, Copies
    <2>2. Total(x)' = Total(x) BY <1>5, <2>1, Caps DEF Total
    <2>3. Total(x) <= Bound(faults) BY <1>1, <1>6 DEF Owed
    <2>4. Total(x) \in Nat BY <2>1, Parts, Caps DEF Total
    <2>. QED BY <1>1, <2>2, <2>3, <2>4 DEF Bound
<1>. HIDE DEF F, A
<1>7. \A o \in Procs, x \in {F, A} :
            /\ x \in inbox'[o] => x = F
            /\ x \in held'[o] => o = q /\ (x = F => inbox' = inbox)
            /\ delivered'[o][x] \in {0, 1} /\ (o # q \/ x = A => delivered'[o][x] = 0)
    <2>1. \A o \in Procs, x \in {F, A} : x \in inbox'[o] => x = F BY <1>1, <1>2, PublishEffect DEF F, A
    <2>2. \A o \in Procs, x \in {F, A} : x \in held'[o] => o = q BY <1>1, <1>2, PublishEffect DEF F, A
    <2>3. F \in held'[q] => inbox' = inbox BY <1>2, PublishEffect DEF F
    <2>4. \A o \in Procs, x \in {F, A} : o # q \/ x = A => delivered'[o][x] = 0
        BY <1>1, <1>2, PublishEffect DEF F, A
    <2>5. delivered'[q][F] \in {0, 1} BY <1>2, PublishEffect DEF F
    <2>. QED BY <2>1, <2>2, <2>3, <2>4, <2>5
<1>8. \A o \in Procs, x \in {F, A} : ~Deferred(x)' /\ (Owes(o, x)' <=> Coming(o, x)')
    <2>1. SUFFICES ASSUME NEW o \in Procs, NEW x \in {F, A}
                   PROVE  ~Deferred(x)' /\ (Owes(o, x)' <=> Coming(o, x)')
        OBVIOUS
    <2>2. x \in Messages BY <1>1
    <2>3. stage[o][x] = "none" /\ log[Worker][x] = "none" BY <1>2, Caps
    <2>4. ~Deferred(x) BY <2>3 DEF Deferred
    <2>5. ~Deferred(x)' BY <1>3, <2>2, <2>4
    <2>6. stage'[o][x] = "none" BY <2>3
    <2>. QED BY <2>5, <2>6 DEF Owes
<1>9. ~Owes(q, A)' BY <1>1, <1>7, <1>8 DEF Coming
<1>10. PICK o \in Procs : o # q /\ Procs = {o, q} /\ ({o, q} = {Api, Worker}) BY Caps DEF Procs
<1>11. faults' = 0 => ~Owes(o, A)' /\ (delivered'[q][F] = 0 \/ ~Owes(q, F)')
    <2>1. faults' = 0 => A \notin held'[q] BY <1>2, PublishEffect DEF A
    <2>2. faults' = 0 => ~Owes(o, A)' BY <1>1, <1>7, <1>8, <2>1 DEF Coming
    <2>3. faults' = 0 => delivered'[q][F] = 0 \/ inbox' = inbox BY <1>2, PublishEffect DEF F
    <2>4. inbox' = inbox => ~Owes(q, F)' BY <1>2, <1>7, <1>8 DEF Coming
    <2>. QED BY <2>2, <2>3, <2>4
<1>12. /\ Part(o, F)' <= 1 /\ Part(o, A)' <= 1 /\ Part(q, A)' = 0 /\ Part(q, F)' <= 2
       /\ faults' = 0 => Part(o, A)' = 0 /\ Part(q, F)' <= 1
    <2>1. /\ Debt(o, F)' \in {0, 1} /\ Debt(o, A)' \in {0, 1} /\ Debt(q, F)' \in {0, 1} /\ Debt(q, A)' = 0
          /\ faults' = 0 => Debt(o, A)' = 0 /\ (delivered'[q][F] = 0 \/ Debt(q, F)' = 0)
        BY <1>1, <1>9, <1>11, Debts
    <2>2. /\ delivered'[o][F] = 0 /\ delivered'[o][A] = 0 /\ delivered'[q][A] = 0
          /\ delivered'[q][F] \in {0, 1}
        BY <1>7, <1>10
    <2>. QED BY <2>1, <2>2 DEF Part
<1>13. /\ Part(o, F)' \in Nat /\ Part(o, A)' \in Nat /\ Part(q, F)' \in Nat /\ Part(q, A)' \in Nat
    BY <1>1, Parts
<1>14. Part(o, F)' + Part(q, F)' + Part(o, A)' + Part(q, A)' <= Bound(faults')
    <2>1. CASE faults' = 0 BY <1>12, <1>13, <2>1 DEF Bound
    <2>2. CASE faults' # 0 BY <1>1, <1>12, <1>13, <2>2 DEF Bound
    <2>. QED BY <2>1, <2>2
<1>15. Total(r)' = Part(o, F)' + Part(q, F)' + Part(o, A)' + Part(q, A)'
    <2>1. CASE o = Api /\ q = Worker BY <2>1, <1>13 DEF Total, F, A
    <2>2. CASE o = Worker /\ q = Api BY <2>2, <1>13 DEF Total, F, A
    <2>. QED BY <1>10, <2>1, <2>2, Caps
<1>. QED BY <1>6, <1>14, <1>15 DEF Owed, Bound

\* Nothing is delivered that neither was owed nor is paid by a fault.
LEMMA OwedStep == TypeOK /\ Placed /\ Rows /\ Fresh /\ Owed /\ [Next]_vars => Owed'
<1> SUFFICES ASSUME TypeOK, Placed, Rows, Fresh, Owed, [Next]_vars PROVE Owed'  OBVIOUS
<1>1. ASSUME NEW p \in Procs, NEW m \in Messages, Receive(p, m) PROVE Owed'
    <2>1. UNCHANGED <<delivered, severity>> /\ faults' >= faults
        BY <1>1, Ranges DEF Receive, Fault
    <2>2. \A o \in Procs, x \in Messages : Owes(o, x)' => Owes(o, x)
        BY <1>1 DEF Receive, job, mail, replays, Owes, Coming, Deferred, Stopping, TypeOK
    <2>. QED BY <2>1, <2>2, TypeStep, NothingMore
<1>2. ASSUME NEW p \in Procs, NEW m \in Messages, Attempt(p, m) PROVE Owed'
    <2>1. /\ UNCHANGED <<link, inbox, held, log, severity, replaying, replay>> /\ faults' >= faults
          /\ stage[p][m] = "sending"
        BY <1>2, AttemptEffect DEF Attempt, mail, replays
    <2>2. \A o \in Procs, x \in Messages : Coming(o, x)' <=> Coming(o, x) BY <2>1 DEF Coming
    <2>3. \A x \in Messages : Deferred(x)' <=> Deferred(x) BY <2>1 DEF Deferred, Stopping
    <2>4. Owes(p, m) /\ ~Coming(p, m) /\ log[p][m] = "none" BY <2>1 DEF Owes, Placed, Coming
    <2>5. stage'[p][m] = "sent" => ~Owes(p, m)' BY <2>2, <2>3, <2>4 DEF Owes, Deferred
    <2>6. \A o \in Procs, x \in Messages : o # p \/ x # m => (Owes(o, x)' <=> Owes(o, x))
        BY <2>2, <2>3, <1>2, AttemptEffect DEF Owes
    <2>7. delivered'[p][m] + Debt(p, m)' + faults <= delivered[p][m] + Debt(p, m) + faults'
        <3>1. Debt(p, m) = 1 /\ Debt(p, m)' \in {0, 1} /\ (stage'[p][m] = "sent" => Debt(p, m)' = 0)
            BY <2>4, <2>5, Debts
        <3>2. delivered[p][m] \in Nat /\ faults \in Nat /\ faults' \in Nat /\ delivered'[p][m] \in Nat
            BY <1>2, AttemptEffect, TypeStep, Ranges, Caps DEF TypeOK
        <3>. QED BY <3>1, <3>2, <1>2, AttemptEffect
    <2>8. \A o \in Procs, x \in Messages : o # p \/ x # m =>
            delivered'[o][x] = delivered[o][x] /\ Debt(o, x)' = Debt(o, x)
        BY <2>6, <1>2, AttemptEffect, Debts
    <2>. QED BY <2>1, <2>7, <2>8, TypeStep, PaidOnce
<1>3. ASSUME NEW p \in Procs, NEW m \in Messages, CreateLog(p, m) PROVE Owed'
    <2>1. UNCHANGED <<link, inbox, held, delivered, severity, replaying, replay>> /\ faults' >= faults
        BY <1>3, CreateLogEffect DEF CreateLog, mail, replays
    <2>2. \A o \in Procs, x \in Messages : Owes(o, x)' => Owes(o, x)
        BY <1>3, <2>1, CreateLogEffect, Caps DEF Owes, Coming, Deferred, Stopping
    <2>. QED BY <2>1, <2>2, TypeStep, NothingMore
<1>4. ASSUME NEW q \in Procs, NEW r \in Requests, NEW sev \in Severities, Publish(q, r, sev) PROVE Owed'
    <2>1. PublishCtx(q, r, sev) /\ UNCHANGED <<link, stage, log, replaying, replay>>
        BY <1>4 DEF Publish, job, replays
    <2>. QED BY <2>1, PublishOwed, TypeStep
<1>5. ASSUME NEW m \in Messages, Decide(m) PROVE Owed'
    <2>1. UNCHANGED <<link, inbox, held, delivered, severity, replaying, replay>> /\ faults' >= faults
        BY <1>5, DecideEffect DEF Decide, mail, replays
    <2>2. Owes(Worker, m) BY <1>5, DecideEffect DEF Owes
    <2>3. \A o \in Procs, x \in Messages : Coming(o, x)' <=> Coming(o, x) BY <2>1 DEF Coming
    <2>4. ASSUME NEW o \in Procs, NEW x \in Messages, o # Worker \/ x # m, Owes(o, x)' PROVE Owes(o, x)
        <3>1. stage'[o][x] = stage[o][x] /\ log'[o][x] = log[o][x] BY <2>4, <1>5, DecideEffect
        <3>2. o = Worker => (Deferred(x)' <=> Deferred(x)) BY <2>1, <3>1 DEF Deferred, Stopping
        <3>. QED BY <2>3, <2>4, <3>1, <3>2 DEF Owes
    <2>5. \A o \in Procs, x \in Messages : Owes(o, x)' => Owes(o, x) BY <2>2, <2>4
    <2>. QED BY <2>1, <2>5, TypeStep, NothingMore
<1>6. ASSUME NEW m \in Messages, ReplaySkip(m) PROVE Owed'
    <2>1. UNCHANGED <<link, inbox, held, stage, delivered, severity, replaying, replay>> /\ faults' >= faults
        BY <1>6, ReplaySkipEffect DEF ReplaySkip, mail, job
    <2>2. \A o \in Procs, x \in Messages : Owes(o, x)' => Owes(o, x)
        BY <1>6, <2>1, ReplaySkipEffect, Caps DEF Owes, Coming, Deferred, Stopping
    <2>. QED BY <2>1, <2>2, TypeStep, NothingMore
<1>7. ASSUME NEW m \in Messages, ReplaySend(m) PROVE Owed'
    <2>1. /\ UNCHANGED <<link, inbox, held, stage, log, severity>> /\ faults' >= faults
          /\ m \in batch /\ replaying = {} /\ replaying' = {m} /\ link[Worker] # "stopping"
        BY <1>7, ReplaySendEffect DEF ReplaySend, mail, job, Stopping, Rows
    <2>2. \A o \in Procs, x \in Messages : Coming(o, x)' <=> Coming(o, x) BY <2>1 DEF Coming
    <2>3. \A x \in Messages : x # m => (Deferred(x)' <=> Deferred(x)) BY <2>1 DEF Deferred, Stopping
    <2>4. log[Worker][m] \in {"deferred", "archived"} /\ Owes(Worker, m)
        BY <2>1 DEF Rows, Owes, Deferred
    <2>5. \A o \in Procs, x \in Messages : o # Worker \/ x # m => (Owes(o, x)' <=> Owes(o, x))
        BY <2>1, <2>2, <2>3 DEF Owes
    <2>6. ~Coming(Worker, m) /\ stage[Worker][m] = "none" BY <2>4, Caps DEF Placed, Coming
    <2>7. replay' = "sent" => ~Owes(Worker, m)' BY <2>1, <2>2, <2>6, Caps DEF Owes, Deferred, Stopping
    <2>8. delivered'[Worker][m] + Debt(Worker, m)' + faults <= delivered[Worker][m] + Debt(Worker, m) + faults'
        <3>1. Debt(Worker, m) = 1 /\ Debt(Worker, m)' \in {0, 1} /\ (replay' = "sent" => Debt(Worker, m)' = 0)
            BY <2>4, <2>7, Debts, Caps
        <3>2. delivered[Worker][m] \in Nat /\ faults \in Nat /\ faults' \in Nat /\ delivered'[Worker][m] \in Nat
            BY <1>7, ReplaySendEffect, TypeStep, Ranges, Caps DEF TypeOK
        <3>. QED BY <3>1, <3>2, <1>7, ReplaySendEffect
    <2>9. \A o \in Procs, x \in Messages : o # Worker \/ x # m =>
            delivered'[o][x] = delivered[o][x] /\ Debt(o, x)' = Debt(o, x)
        BY <2>5, <1>7, ReplaySendEffect, Debts
    <2>. QED BY <2>1, <2>8, <2>9, TypeStep, PaidOnce, Caps
<1>8. ASSUME NEW m \in Messages, ReplayMark(m) PROVE Owed'
    <2>1. /\ UNCHANGED <<link, inbox, held, stage, delivered, severity>> /\ faults' >= faults
          /\ m \in replaying /\ replaying' = {} /\ replay' = "next" /\ replay \in {"sent", "failed"}
        BY <1>8, ReplayMarkEffect DEF ReplayMark, mail, job
    <2>2. \A o \in Procs, x \in Messages : Coming(o, x)' <=> Coming(o, x) BY <2>1 DEF Coming
    <2>3. ASSUME NEW x \in Messages, x # m PROVE Deferred(x)' => Deferred(x)
        <3>1. x \notin replaying BY <2>1, <2>3 DEF Rows
        <3>2. log'[Worker][x] = log[Worker][x] BY <1>8, <2>3, ReplayMarkEffect, Caps
        <3>. QED BY <3>1, <3>2 DEF Deferred
    <2>4. \A o \in Procs, x \in Messages : o # Worker \/ x # m => (Owes(o, x)' => Owes(o, x))
        BY <2>1, <2>2, <2>3, Caps DEF Owes
    <2>5. faults' = faults + 1 \/ (Owes(Worker, m)' => Owes(Worker, m))
        <3>1. CASE log'[Worker][m] = replay
            <4>1. ~Deferred(m)' BY <2>1, <3>1 DEF Deferred
            <4>. QED BY <2>1, <2>2, <4>1, Caps DEF Owes
        <3>2. CASE log'[Worker][m] = log[Worker][m] /\ link[Worker] = "stopping"
            <4>1. Deferred(m)' => Deferred(m) BY <2>1, <3>2 DEF Deferred, Stopping
            <4>. QED BY <2>1, <2>2, <4>1, Caps DEF Owes
        <3>. QED BY <3>1, <3>2, <1>8, ReplayMarkEffect
    <2>6. CASE faults' = faults + 1 BY <2>1, <2>4, <2>6, TypeStep, OneMore
    <2>7. CASE Owes(Worker, m)' => Owes(Worker, m) BY <2>1, <2>4, <2>7, TypeStep, NothingMore
    <2>. QED BY <2>5, <2>6, <2>7
<1>9. ASSUME NEW m \in Messages, Archive(m) PROVE Owed'
    <2>1. UNCHANGED <<delivered, severity>> /\ faults' >= faults
        BY <1>9, Ranges, Caps DEF Archive, Fault
    <2>2. \A o \in Procs, x \in Messages : Owes(o, x)' => Owes(o, x)
        BY <1>9, Caps DEF Archive, job, mail, replays, Owes, Coming, Deferred, Stopping, TypeOK
    <2>. QED BY <2>1, <2>2, TypeStep, NothingMore
<1>10. ASSUME ReplayTick PROVE Owed'
    <2>1. UNCHANGED <<delivered, severity>> /\ faults' >= faults
        BY <1>10, Ranges, Caps DEF ReplayTick, Fault
    <2>2. \A o \in Procs, x \in Messages : Owes(o, x)' => Owes(o, x)
        BY <1>10, Caps DEF ReplayTick, job, mail, replays, Owes, Coming, Deferred, Stopping, TypeOK
    <2>. QED BY <2>1, <2>2, TypeStep, NothingMore
<1>11. ASSUME ScheduleTick PROVE Owed'
    <2>1. UNCHANGED <<delivered, severity>> /\ faults' >= faults
        BY <1>11, Ranges, Caps DEF ScheduleTick, Fault
    <2>2. \A o \in Procs, x \in Messages : Owes(o, x)' => Owes(o, x)
        BY <1>11, Caps DEF ScheduleTick, job, mail, replays, Owes, Coming, Deferred, Stopping, TypeOK
    <2>. QED BY <2>1, <2>2, TypeStep, NothingMore
<1>12. ASSUME NEW s \in Schedules, ScheduleSkip(s) PROVE Owed'
    <2>1. UNCHANGED <<delivered, severity>> /\ faults' >= faults
        BY <1>12, Ranges, Caps DEF ScheduleSkip, Fault
    <2>2. \A o \in Procs, x \in Messages : Owes(o, x)' => Owes(o, x)
        BY <1>12, Caps DEF ScheduleSkip, job, mail, replays, Owes, Coming, Deferred, Stopping, TypeOK
    <2>. QED BY <2>1, <2>2, TypeStep, NothingMore
<1>13. ASSUME NEW s \in Schedules, NEW r \in Requests, ScheduleSend(s, r) PROVE Owed'
    <2>1. PublishCtx(Worker, r, Plain) /\ UNCHANGED <<link, stage, log, replaying, replay>>
        BY <1>13 DEF ScheduleSend, job, replays
    <2>. QED BY <2>1, PublishOwed, TypeStep, Caps
<1>14. ASSUME ScheduleMark PROVE Owed'
    <2>1. UNCHANGED <<delivered, severity>> /\ faults' >= faults
        BY <1>14, StatementEffect, Ranges DEF ScheduleMark, TypeOK
    <2>2. \A o \in Procs, x \in Messages : Owes(o, x)' => Owes(o, x)
        BY <1>14 DEF ScheduleMark, job, mail, replays, Owes, Coming, Deferred, Stopping
    <2>. QED BY <2>1, <2>2, TypeStep, NothingMore
<1>15. ASSUME NEW p \in Procs, Disconnect(p) PROVE Owed'
    <2>1. UNCHANGED <<delivered, severity>> /\ faults' >= faults
        BY <1>15, Ranges, Caps DEF Disconnect, Fault
    <2>2. \A o \in Procs, x \in Messages : Owes(o, x)' => Owes(o, x)
        BY <1>15, Caps DEF Disconnect, job, mail, replays, Owes, Coming, Deferred, Stopping, TypeOK, Connected, Running
    <2>. QED BY <2>1, <2>2, TypeStep, NothingMore
<1>16. ASSUME NEW p \in Procs, Reconnect(p) PROVE Owed'
    <2>1. UNCHANGED <<delivered, severity>> /\ faults' >= faults BY <1>16, Ranges DEF Reconnect
    <2>2. /\ \A o \in Procs, x \in Messages : x \in inbox'[o] => x \in inbox[o] \/ (o # p /\ x \in held[p])
          /\ \A o \in Procs, x \in Messages : x \in held'[o] => x \in held[o]
          /\ link[Worker] # "stopping" => link'[Worker] # "stopping"
        BY <1>16, Caps DEF Reconnect, Arrives, TypeOK
    <2>3. UNCHANGED <<stage, log, severity, replaying, replay>> BY <1>16 DEF Reconnect, job, replays
    <2>4. \A o \in Procs, x \in Messages : Coming(o, x)' => Coming(o, x) BY <2>2, <2>3 DEF Coming
    <2>5. \A x \in Messages : Deferred(x)' => Deferred(x) BY <2>2, <2>3, <1>16 DEF Deferred, Stopping, Reconnect, TypeOK
    <2>6. \A o \in Procs, x \in Messages : Owes(o, x)' => Owes(o, x) BY <2>3, <2>4, <2>5 DEF Owes
    <2>. QED BY <2>1, <2>6, TypeStep, NothingMore
<1>17. ASSUME NEW p \in Procs, Crash(p) PROVE Owed'
    <2>1. UNCHANGED <<delivered, severity, log>> /\ faults' = faults + 1 /\ faults' >= faults
        BY <1>17, Ranges DEF Crash, Die, Fault
    <2>2. \A o \in Procs, x \in Messages : Coming(o, x)' => Coming(o, x)
        BY <1>17, Caps DEF Crash, Die, Coming, TypeOK
    <2>3. \A o \in Procs, x \in Messages : stage'[o][x] \in {"received", "sending"} => stage'[o][x] = stage[o][x]
        BY <1>17, Caps DEF Crash, Die, TypeOK
    <2>4. \A x \in Messages : x \notin replaying => (Deferred(x)' => Deferred(x)) BY <2>1 DEF Deferred
    <2>5. \A o \in Procs, x \in Messages : o # Worker \/ x \notin replaying => (Owes(o, x)' => Owes(o, x))
        BY <2>2, <2>3, <2>4 DEF Owes
    <2>. QED BY <2>1, <2>5, TypeStep, HandLost
<1>18. ASSUME NEW p \in Procs, Boot(p) PROVE Owed'
    <2>1. UNCHANGED <<delivered, severity>> /\ faults' >= faults
        BY <1>18, Ranges, Caps DEF Boot, Fault
    <2>2. \A o \in Procs, x \in Messages : Owes(o, x)' => Owes(o, x)
        BY <1>18, Caps DEF Boot, job, mail, replays, Owes, Coming, Deferred, Stopping, TypeOK
    <2>. QED BY <2>1, <2>2, TypeStep, NothingMore
<1>19. ASSUME Stop PROVE Owed'
    <2>1. UNCHANGED <<delivered, severity, log, stage>> /\ faults' = faults + 1 /\ faults' >= faults
        BY <1>19, Ranges DEF Stop, Fault, job
    <2>2. \A o \in Procs, x \in Messages : Coming(o, x)' => Coming(o, x) BY <1>19, Caps DEF Stop, Coming, TypeOK
    <2>3. \A x \in Messages : x \notin replaying => (Deferred(x)' => Deferred(x)) BY <2>1 DEF Deferred
    <2>4. \A o \in Procs, x \in Messages : o # Worker \/ x \notin replaying => (Owes(o, x)' => Owes(o, x))
        BY <2>1, <2>2, <2>3 DEF Owes
    <2>. QED BY <2>1, <2>4, TypeStep, HandLost
<1>20. ASSUME Exit PROVE Owed'
    <2>1. UNCHANGED <<delivered, severity>> /\ faults' >= faults BY <1>20, Ranges DEF Exit, Die, Fault
    <2>2. \A o \in Procs, x \in Messages : Coming(o, x)' => Coming(o, x)
        BY <1>20, Caps DEF Exit, Die, Coming, TypeOK
    <2>3. \A o \in Procs, x \in Messages : stage'[o][x] \in {"received", "sending"} => stage'[o][x] = stage[o][x]
        BY <1>20, Caps DEF Exit, Die, TypeOK
    <2>4. \A x \in Messages : Deferred(x)' => Deferred(x) BY <1>20 DEF Exit, Die, Deferred, Stopping
    <2>5. \A o \in Procs, x \in Messages : Owes(o, x)' => Owes(o, x) BY <2>2, <2>3, <2>4 DEF Owes
    <2>. QED BY <2>1, <2>5, TypeStep, NothingMore
<1>21. ASSUME Window PROVE Owed'
    <2>1. UNCHANGED <<delivered, severity>> /\ faults' >= faults
        BY <1>21, Ranges, Caps DEF Window, Fault
    <2>2. \A o \in Procs, x \in Messages : Owes(o, x)' => Owes(o, x)
        BY <1>21, Caps DEF Window, job, mail, replays, Owes, Coming, Deferred, Stopping, TypeOK
    <2>. QED BY <2>1, <2>2, TypeStep, NothingMore
<1>22. ASSUME UNCHANGED vars PROVE Owed'
        <2>1. UNCHANGED <<delivered, severity>> /\ faults' >= faults BY <1>22, Ranges DEF vars
    <2>2. \A o \in Procs, x \in Messages : Owes(o, x)' => Owes(o, x)
        BY <1>22 DEF vars, Owes, Coming, Deferred, Stopping
    <2>. QED BY <2>1, <2>2, TypeStep, NothingMore
<1>. QED BY <1>1, <1>2, <1>3, <1>4, <1>5, <1>6, <1>7, <1>8, <1>9, <1>10, <1>11, <1>12, <1>13, <1>14, <1>15, <1>16, <1>17, <1>18, <1>19, <1>20, <1>21, <1>22 DEF Next, Consume, Replay, ScheduleStep

\* A step that leaves the schedules alone keeps the bound.
LEMMA SameMarks ==
    ASSUME TypeOK, Marks, schedule' = schedule, due' = due, marking' = marking, ran' = ran,
           faults' >= faults, TypeOK', Running(Worker) => Running(Worker)'
    PROVE  Marks'
<1>1. ASSUME NEW s \in Schedules
      PROVE  ran'[s] + (IF schedule'[s] = "due" /\ marking' # s THEN 1 ELSE 0) <= 1 + faults'
    <2>1. ran[s] \in Nat /\ faults \in Nat /\ faults' \in Nat BY Ranges, Caps DEF TypeOK
    <2>2. ran[s] + (IF schedule[s] = "due" /\ marking # s THEN 1 ELSE 0) <= 1 + faults BY DEF Marks
    <2>. QED BY <2>1, <2>2
<1>. QED BY <1>1 DEF Marks

\* A fault pays for one more run of each schedule.
LEMMA Pending ==
    ASSUME TypeOK, Marks, schedule' = schedule, ran' = ran, faults' = faults + 1
    PROVE  \A s \in Schedules :
                ran'[s] + (IF schedule'[s] = "due" /\ marking' # s THEN 1 ELSE 0) <= 1 + faults'
<1>1. SUFFICES ASSUME NEW s \in Schedules
               PROVE  ran'[s] + (IF schedule'[s] = "due" /\ marking' # s THEN 1 ELSE 0) <= 1 + faults'
    OBVIOUS
<1>2. ran[s] \in Nat /\ faults \in Nat BY Ranges DEF TypeOK
<1>3. ran[s] + (IF schedule[s] = "due" /\ marking # s THEN 1 ELSE 0) <= 1 + faults BY DEF Marks
<1>. QED BY <1>2, <1>3

\* A schedule runs again only after a fault.
LEMMA MarksStep == TypeOK /\ Marks /\ [Next]_vars => Marks'
<1> SUFFICES ASSUME TypeOK, Marks, [Next]_vars PROVE Marks'  OBVIOUS
<1>1. ASSUME NEW p \in Procs, NEW m \in Messages, Receive(p, m) PROVE Marks'
    <2>1. faults' >= faults BY <1>1, Ranges, Caps DEF Receive, Fault
    <2>2. UNCHANGED <<schedule, due, marking, ran>> /\ (Running(Worker) => Running(Worker)')
        BY <1>1, Caps DEF Receive, scheduler, Running, Connected, TypeOK
    <2>. QED BY <2>1, <2>2, TypeStep, SameMarks
<1>2. ASSUME NEW p \in Procs, NEW m \in Messages, Attempt(p, m) PROVE Marks'
    <2>1. faults' >= faults /\ faults \in Nat BY <1>2, AttemptEffect, Ranges DEF TypeOK
    <2>2. UNCHANGED <<schedule, due, marking, ran>> /\ (Running(Worker) => Running(Worker)')
        BY <1>2, Caps DEF Attempt, scheduler, Running, TypeOK
    <2>. QED BY <2>1, <2>2, TypeStep, SameMarks
<1>3. ASSUME NEW p \in Procs, NEW m \in Messages, CreateLog(p, m) PROVE Marks'
    <2>1. faults' >= faults /\ faults \in Nat BY <1>3, CreateLogEffect, Ranges DEF TypeOK
    <2>2. UNCHANGED <<schedule, due, marking, ran>> /\ (Running(Worker) => Running(Worker)')
        BY <1>3, Caps DEF CreateLog, scheduler, Running, TypeOK
    <2>. QED BY <2>1, <2>2, TypeStep, SameMarks
<1>4. ASSUME NEW q \in Procs, NEW r \in Requests, NEW sev \in Severities, Publish(q, r, sev) PROVE Marks'
    <2>1. faults' >= faults BY <1>4, PublishEffect DEF Publish
    <2>2. UNCHANGED <<link, schedule, due, marking, ran>> BY <1>4 DEF Publish, scheduler
    <2>. QED BY <2>1, <2>2, TypeStep, SameMarks DEF Running
<1>5. ASSUME NEW m \in Messages, Decide(m) PROVE Marks'
    <2>1. faults' >= faults /\ faults \in Nat BY <1>5, DecideEffect, Ranges DEF TypeOK
    <2>2. UNCHANGED <<schedule, due, marking, ran>> /\ (Running(Worker) => Running(Worker)')
        BY <1>5, Caps DEF Decide, scheduler, Running, TypeOK
    <2>. QED BY <2>1, <2>2, TypeStep, SameMarks
<1>6. ASSUME NEW m \in Messages, ReplaySkip(m) PROVE Marks'
    <2>1. faults' >= faults /\ faults \in Nat BY <1>6, ReplaySkipEffect, Ranges DEF TypeOK
    <2>2. UNCHANGED <<schedule, due, marking, ran>> /\ (Running(Worker) => Running(Worker)')
        BY <1>6, Caps DEF ReplaySkip, scheduler, Running, TypeOK
    <2>. QED BY <2>1, <2>2, TypeStep, SameMarks
<1>7. ASSUME NEW m \in Messages, ReplaySend(m) PROVE Marks'
    <2>1. faults' >= faults /\ faults \in Nat BY <1>7, ReplaySendEffect, Ranges DEF TypeOK
    <2>2. UNCHANGED <<schedule, due, marking, ran>> /\ (Running(Worker) => Running(Worker)')
        BY <1>7, Caps DEF ReplaySend, scheduler, Running, TypeOK
    <2>. QED BY <2>1, <2>2, TypeStep, SameMarks
<1>8. ASSUME NEW m \in Messages, ReplayMark(m) PROVE Marks'
    <2>1. faults' >= faults /\ faults \in Nat BY <1>8, ReplayMarkEffect, Ranges DEF TypeOK
    <2>2. UNCHANGED <<schedule, due, marking, ran>> /\ (Running(Worker) => Running(Worker)')
        BY <1>8, Caps DEF ReplayMark, scheduler, Running, TypeOK
    <2>. QED BY <2>1, <2>2, TypeStep, SameMarks
<1>9. ASSUME NEW m \in Messages, Archive(m) PROVE Marks'
    <2>1. faults' >= faults BY <1>9, Ranges, Caps DEF Archive, Fault
    <2>2. UNCHANGED <<schedule, due, marking, ran>> /\ (Running(Worker) => Running(Worker)')
        BY <1>9, Caps DEF Archive, scheduler, Running, Connected, TypeOK
    <2>. QED BY <2>1, <2>2, TypeStep, SameMarks
<1>10. ASSUME ReplayTick PROVE Marks'
    <2>1. faults' >= faults BY <1>10, Ranges, Caps DEF ReplayTick, Fault
    <2>2. UNCHANGED <<schedule, due, marking, ran>> /\ (Running(Worker) => Running(Worker)')
        BY <1>10, Caps DEF ReplayTick, scheduler, Running, Connected, TypeOK
    <2>. QED BY <2>1, <2>2, TypeStep, SameMarks
<1>11. ASSUME ScheduleTick PROVE Marks'
    <2>1. /\ UNCHANGED <<link, schedule, marking, ran, faults>> /\ due = {}
          /\ due' = {s \in Schedules : schedule[s] = "due"}
        BY <1>11 DEF ScheduleTick
    <2>2. marking = NoSchedule BY <2>1 DEF Marks
    <2>. QED BY <2>1, <2>2 DEF Marks, Running
<1>12. ASSUME NEW s \in Schedules, ScheduleSkip(s) PROVE Marks'
    <2>1. /\ UNCHANGED <<link, schedule, marking, ran>> /\ marking = NoSchedule /\ due' = due \ {s}
          /\ faults' = faults + 1
        BY <1>12 DEF ScheduleSkip, Fault
    <2>. QED BY <2>1, Pending, Ranges DEF Marks
<1>13. ASSUME NEW s \in Schedules, NEW r \in Requests, ScheduleSend(s, r) PROVE Marks'
    <2>1. /\ UNCHANGED <<link, schedule, due>> /\ s \in due /\ marking = NoSchedule /\ marking' = s
          /\ Running(Worker) /\ ran' = [ran EXCEPT ![s] = @ + 1]
        BY <1>13 DEF ScheduleSend
    <2>2. faults' >= faults /\ faults \in Nat /\ faults' \in Nat
        <3>1. faults' >= faults /\ faults \in Nat BY <1>13, PublishEffect, Ranges, Caps DEF ScheduleSend
        <3>2. TypeOK' BY TypeStep
        <3>. QED BY <3>1, <3>2, Ranges, Caps DEF TypeOK
    <2>3. ASSUME NEW x \in Schedules
          PROVE  ran'[x] + (IF schedule'[x] = "due" /\ marking' # x THEN 1 ELSE 0) <= 1 + faults'
        <3>1. ran[x] \in Nat /\ ran'[x] = IF x = s THEN ran[x] + 1 ELSE ran[x] BY <2>1 DEF TypeOK
        <3>2. CASE x = s
            <4>1. schedule[s] = "due" /\ marking # s BY <2>1, <3>2, Caps DEF Marks
            <4>2. ran[x] + 1 <= 1 + faults BY <3>2, <4>1, <3>1 DEF Marks
            <4>. QED BY <2>1, <2>2, <3>1, <3>2, <4>2
        <3>3. CASE x # s BY <2>1, <2>2, <3>1, <3>3, Caps DEF Marks
        <3>. QED BY <3>2, <3>3
    <2>. QED BY <2>1, <2>3 DEF Marks, Running
<1>14. ASSUME ScheduleMark PROVE Marks'
    <2>1. PICK ok \in BOOLEAN :
            Statement(Worker, ok) /\ schedule' = IF ok THEN [schedule EXCEPT ![marking] = "done"] ELSE schedule
        BY <1>14 DEF ScheduleMark, MarkRun
    <2>2. /\ UNCHANGED <<link, ran>> /\ due' = due \ {marking} /\ marking' = NoSchedule
          /\ marking \in Schedules /\ Running(Worker)
        BY <1>14 DEF ScheduleMark, TypeOK
    <2>3. faults \in 0 .. MaxFaults BY DEF TypeOK
    <2>4. /\ ok => faults' = faults
          /\ ~ok => faults' = faults + 1
        BY <2>1, <2>2, <2>3, StatementEffect DEF Running
    <2>5. /\ \A x \in Schedules : x # marking => schedule'[x] = schedule[x]
          /\ ok => schedule'[marking] = "done"
          /\ ~ok => schedule' = schedule
        BY <2>1, <2>2 DEF TypeOK
    <2>6. \A x \in due' : schedule'[x] = "due" BY <2>2, <2>5 DEF Marks, TypeOK
    <2>7. ASSUME NEW x \in Schedules
          PROVE  ran'[x] + (IF schedule'[x] = "due" /\ marking' # x THEN 1 ELSE 0) <= 1 + faults'
        <3>1. ran[x] \in Nat /\ ran'[x] = ran[x] /\ faults \in Nat BY <2>2, Ranges DEF TypeOK
        <3>2. ran[x] + (IF schedule[x] = "due" /\ marking # x THEN 1 ELSE 0) <= 1 + faults BY DEF Marks
        <3>3. CASE x = marking
            <4>1. ran[x] <= 1 + faults BY <3>2, <3>3, <3>1
            <4>2. CASE ok BY <4>1, <4>2, <3>1, <2>4, <2>5, <3>3
            <4>3. CASE ~ok BY <4>1, <4>3, <3>1, <2>4
            <4>. QED BY <4>2, <4>3
        <3>4. CASE x # marking
            <4>1. schedule'[x] = schedule[x] BY <2>5, <3>4
            <4>. QED BY <3>1, <3>2, <3>4, <4>1, <2>4
        <3>. QED BY <3>3, <3>4
    <2>. QED BY <2>2, <2>6, <2>7 DEF Marks
<1>15. ASSUME NEW p \in Procs, Disconnect(p) PROVE Marks'
    <2>1. faults' >= faults BY <1>15, Ranges, Caps DEF Disconnect, Fault
    <2>2. UNCHANGED <<schedule, due, marking, ran>> /\ (Running(Worker) => Running(Worker)')
        BY <1>15, Caps DEF Disconnect, scheduler, Running, Connected, TypeOK
    <2>. QED BY <2>1, <2>2, TypeStep, SameMarks
<1>16. ASSUME NEW p \in Procs, Reconnect(p) PROVE Marks'
    <2>1. faults' >= faults BY <1>16, Ranges, Caps DEF Reconnect, Fault
    <2>2. UNCHANGED <<schedule, due, marking, ran>> /\ (Running(Worker) => Running(Worker)')
        BY <1>16, Caps DEF Reconnect, scheduler, Running, Connected, TypeOK
    <2>. QED BY <2>1, <2>2, TypeStep, SameMarks
<1>17. ASSUME NEW p \in Procs, Crash(p) PROVE Marks'
    <2>1. UNCHANGED <<schedule, ran>> /\ faults' = faults + 1 BY <1>17 DEF Crash, Die, Fault
    <2>2. CASE p = Worker
        <3>1. due' = {} /\ marking' = NoSchedule BY <1>17, <2>2 DEF Crash, Die
        <3>. QED BY <2>1, <3>1, Pending, Ranges DEF Marks
    <2>3. CASE p # Worker
        <3>1. UNCHANGED <<due, marking>> /\ (Running(Worker) => Running(Worker)')
            BY <1>17, <2>3, Caps DEF Crash, Die, Running, TypeOK
        <3>2. faults' >= faults BY <2>1, Ranges
        <3>. QED BY <2>1, <3>1, <3>2, TypeStep, SameMarks
    <2>. QED BY <2>2, <2>3
<1>18. ASSUME NEW p \in Procs, Boot(p) PROVE Marks'
    <2>1. faults' >= faults BY <1>18, Ranges, Caps DEF Boot, Fault
    <2>2. UNCHANGED <<schedule, due, marking, ran>> /\ (Running(Worker) => Running(Worker)')
        BY <1>18, Caps DEF Boot, scheduler, Running, Connected, TypeOK
    <2>. QED BY <2>1, <2>2, TypeStep, SameMarks
<1>19. ASSUME Stop PROVE Marks'
    <2>1. /\ UNCHANGED <<schedule, ran>> /\ due' = {} /\ marking' = NoSchedule /\ faults' = faults + 1
        BY <1>19 DEF Stop, Fault
    <2>. QED BY <2>1, Pending, Ranges DEF Marks
<1>20. ASSUME Exit PROVE Marks'
    <2>1. UNCHANGED <<schedule, ran>> /\ faults' = faults /\ due' = {} /\ marking' = NoSchedule
        BY <1>20, Ranges DEF Exit, Die, Fault
    <2>2. marking = NoSchedule BY <1>20 DEF Exit, Stopping, Marks, Running
    <2>. QED BY <2>1, <2>2 DEF Marks
<1>21. ASSUME Window PROVE Marks'
    <2>1. faults' >= faults BY <1>21, Ranges, Caps DEF Window, Fault
    <2>2. UNCHANGED <<schedule, due, marking, ran>> /\ (Running(Worker) => Running(Worker)')
        BY <1>21, Caps DEF Window, scheduler, Running, Connected, TypeOK
    <2>. QED BY <2>1, <2>2, TypeStep, SameMarks
<1>22. ASSUME UNCHANGED vars PROVE Marks'
        <2>1. faults' >= faults BY <1>22, Ranges DEF vars
    <2>2. UNCHANGED <<link, schedule, due, marking, ran>> BY <1>22 DEF vars
    <2>. QED BY <2>1, <2>2, TypeStep, SameMarks DEF Running
<1>. QED BY <1>1, <1>2, <1>3, <1>4, <1>5, <1>6, <1>7, <1>8, <1>9, <1>10, <1>11, <1>12, <1>13, <1>14, <1>15, <1>16, <1>17, <1>18, <1>19, <1>20, <1>21, <1>22 DEF Next, Consume, Replay, ScheduleStep

\* No row becomes sent, and no delivery is taken back.
LEMMA KeepsSent ==
    ASSUME SentWasDelivered, TypeOK,
           \A o \in Procs, x \in Messages : log'[o][x] = "sent" => log[o][x] = "sent",
           \A o \in Procs, x \in Messages : delivered'[o][x] >= delivered[o][x] /\ delivered'[o][x] \in Nat
    PROVE  SentWasDelivered'
<1>1. SUFFICES ASSUME NEW o \in Procs, NEW x \in Messages, log'[o][x] = "sent"
               PROVE  delivered'[o][x] > 0
    BY DEF SentWasDelivered
<1>2. delivered[o][x] > 0 BY <1>1 DEF SentWasDelivered
<1>. QED BY <1>2, Ranges

\* Publishing keeps every row true.
LEMMA PublishKeeps ==
    ASSUME NEW q \in Procs, NEW r \in Requests, NEW sev \in Severities, PublishCtx(q, r, sev),
           log' = log, TypeOK, SentWasDelivered
    PROVE  SentWasDelivered'
BY PublishGrows, KeepsSent

\* A row that says sent stays right.
LEMMA SentWasDeliveredStep == TypeOK /\ Sent /\ SentWasDelivered /\ [Next]_vars => SentWasDelivered'
<1> SUFFICES ASSUME TypeOK, Sent, SentWasDelivered, [Next]_vars PROVE SentWasDelivered'  OBVIOUS
<1>1. ASSUME NEW p \in Procs, NEW m \in Messages, Receive(p, m) PROVE SentWasDelivered'
    <2>1. \A o \in Procs, x \in Messages : log'[o][x] = "sent" => log[o][x] = "sent"
        BY <1>1 DEF Receive
    <2>2. \A o \in Procs, x \in Messages : delivered'[o][x] >= delivered[o][x] /\ delivered'[o][x] \in Nat
        BY <1>1, Ranges DEF Receive
    <2>. QED BY <2>1, <2>2, KeepsSent
<1>2. ASSUME NEW p \in Procs, NEW m \in Messages, Attempt(p, m) PROVE SentWasDelivered'
    <2>1. \A o \in Procs, x \in Messages : log'[o][x] = "sent" => log[o][x] = "sent"
        BY <1>2 DEF Attempt
    <2>2. \A o \in Procs, x \in Messages : delivered'[o][x] >= delivered[o][x] /\ delivered'[o][x] \in Nat
        BY <1>2, Ranges, AttemptEffect
    <2>. QED BY <2>1, <2>2, KeepsSent
<1>3. ASSUME NEW p \in Procs, NEW m \in Messages, CreateLog(p, m) PROVE SentWasDelivered'
    <2>1. delivered' = delivered BY <1>3 DEF CreateLog
    <2>2. stage[p][m] = "sent" => delivered[p][m] > 0 BY DEF Sent
    <2>3. ASSUME NEW o \in Procs, NEW x \in Messages, log'[o][x] = "sent" PROVE delivered[o][x] > 0
        <3>1. CASE o = p /\ x = m BY <2>2, <2>3, <3>1, <1>3, CreateLogEffect DEF SentWasDelivered
        <3>2. CASE o # p \/ x # m BY <2>3, <3>2, <1>3, CreateLogEffect DEF SentWasDelivered
        <3>. QED BY <3>1, <3>2
    <2>. QED BY <2>1, <2>3 DEF SentWasDelivered
<1>4. ASSUME NEW q \in Procs, NEW r \in Requests, NEW sev \in Severities, Publish(q, r, sev) PROVE SentWasDelivered'
    <2>1. PublishCtx(q, r, sev) /\ log' = log BY <1>4 DEF Publish
    <2>. QED BY <2>1, PublishKeeps
<1>5. ASSUME NEW m \in Messages, Decide(m) PROVE SentWasDelivered'
    <2>1. \A o \in Procs, x \in Messages : log'[o][x] = "sent" => log[o][x] = "sent"
        BY <1>5, DecideEffect, Caps
    <2>2. \A o \in Procs, x \in Messages : delivered'[o][x] >= delivered[o][x] /\ delivered'[o][x] \in Nat
        BY <1>5, Ranges DEF Decide
    <2>. QED BY <2>1, <2>2, KeepsSent
<1>6. ASSUME NEW m \in Messages, ReplaySkip(m) PROVE SentWasDelivered'
    <2>1. \A o \in Procs, x \in Messages : log'[o][x] = "sent" => log[o][x] = "sent"
        BY <1>6, ReplaySkipEffect, Caps
    <2>2. \A o \in Procs, x \in Messages : delivered'[o][x] >= delivered[o][x] /\ delivered'[o][x] \in Nat
        BY <1>6, Ranges DEF ReplaySkip
    <2>. QED BY <2>1, <2>2, KeepsSent
<1>7. ASSUME NEW m \in Messages, ReplaySend(m) PROVE SentWasDelivered'
    <2>1. \A o \in Procs, x \in Messages : log'[o][x] = "sent" => log[o][x] = "sent"
        BY <1>7 DEF ReplaySend
    <2>2. \A o \in Procs, x \in Messages : delivered'[o][x] >= delivered[o][x] /\ delivered'[o][x] \in Nat
        BY <1>7, Ranges, ReplaySendEffect, Caps
    <2>. QED BY <2>1, <2>2, KeepsSent
<1>8. ASSUME NEW m \in Messages, ReplayMark(m) PROVE SentWasDelivered'
    <2>1. delivered' = delivered /\ m \in replaying BY <1>8 DEF ReplayMark
    <2>2. replay = "sent" => delivered[Worker][m] > 0 BY <2>1 DEF Sent
    <2>3. ASSUME NEW o \in Procs, NEW x \in Messages, log'[o][x] = "sent" PROVE delivered[o][x] > 0
        <3>1. CASE o = Worker /\ x = m BY <2>2, <2>3, <3>1, <1>8, ReplayMarkEffect DEF SentWasDelivered
        <3>2. CASE o # Worker \/ x # m BY <2>3, <3>2, <1>8, ReplayMarkEffect DEF SentWasDelivered
        <3>. QED BY <3>1, <3>2
    <2>. QED BY <2>1, <2>3 DEF SentWasDelivered
<1>9. ASSUME NEW m \in Messages, Archive(m) PROVE SentWasDelivered'
    <2>1. \A o \in Procs, x \in Messages : log'[o][x] = "sent" => log[o][x] = "sent"
        BY <1>9, ArchiveEffect
    <2>2. \A o \in Procs, x \in Messages : delivered'[o][x] >= delivered[o][x] /\ delivered'[o][x] \in Nat
        BY <1>9, Ranges DEF Archive
    <2>. QED BY <2>1, <2>2, KeepsSent
<1>10. ASSUME ReplayTick PROVE SentWasDelivered'
    <2>1. \A o \in Procs, x \in Messages : log'[o][x] = "sent" => log[o][x] = "sent"
        BY <1>10 DEF ReplayTick
    <2>2. \A o \in Procs, x \in Messages : delivered'[o][x] >= delivered[o][x] /\ delivered'[o][x] \in Nat
        BY <1>10, Ranges DEF ReplayTick
    <2>. QED BY <2>1, <2>2, KeepsSent
<1>11. ASSUME ScheduleTick PROVE SentWasDelivered'
    <2>1. \A o \in Procs, x \in Messages : log'[o][x] = "sent" => log[o][x] = "sent"
        BY <1>11 DEF ScheduleTick
    <2>2. \A o \in Procs, x \in Messages : delivered'[o][x] >= delivered[o][x] /\ delivered'[o][x] \in Nat
        BY <1>11, Ranges DEF ScheduleTick
    <2>. QED BY <2>1, <2>2, KeepsSent
<1>12. ASSUME NEW s \in Schedules, ScheduleSkip(s) PROVE SentWasDelivered'
    <2>1. \A o \in Procs, x \in Messages : log'[o][x] = "sent" => log[o][x] = "sent"
        BY <1>12 DEF ScheduleSkip
    <2>2. \A o \in Procs, x \in Messages : delivered'[o][x] >= delivered[o][x] /\ delivered'[o][x] \in Nat
        BY <1>12, Ranges DEF ScheduleSkip
    <2>. QED BY <2>1, <2>2, KeepsSent
<1>13. ASSUME NEW s \in Schedules, NEW r \in Requests, ScheduleSend(s, r) PROVE SentWasDelivered'
    <2>1. PublishCtx(Worker, r, Plain) /\ log' = log BY <1>13 DEF ScheduleSend
    <2>. QED BY <2>1, PublishKeeps, Caps
<1>14. ASSUME ScheduleMark PROVE SentWasDelivered'
    <2>1. \A o \in Procs, x \in Messages : log'[o][x] = "sent" => log[o][x] = "sent"
        BY <1>14 DEF ScheduleMark
    <2>2. \A o \in Procs, x \in Messages : delivered'[o][x] >= delivered[o][x] /\ delivered'[o][x] \in Nat
        BY <1>14, Ranges DEF ScheduleMark
    <2>. QED BY <2>1, <2>2, KeepsSent
<1>15. ASSUME NEW p \in Procs, Disconnect(p) PROVE SentWasDelivered'
    <2>1. \A o \in Procs, x \in Messages : log'[o][x] = "sent" => log[o][x] = "sent"
        BY <1>15 DEF Disconnect
    <2>2. \A o \in Procs, x \in Messages : delivered'[o][x] >= delivered[o][x] /\ delivered'[o][x] \in Nat
        BY <1>15, Ranges DEF Disconnect
    <2>. QED BY <2>1, <2>2, KeepsSent
<1>16. ASSUME NEW p \in Procs, Reconnect(p) PROVE SentWasDelivered'
    <2>1. \A o \in Procs, x \in Messages : log'[o][x] = "sent" => log[o][x] = "sent"
        BY <1>16 DEF Reconnect
    <2>2. \A o \in Procs, x \in Messages : delivered'[o][x] >= delivered[o][x] /\ delivered'[o][x] \in Nat
        BY <1>16, Ranges DEF Reconnect
    <2>. QED BY <2>1, <2>2, KeepsSent
<1>17. ASSUME NEW p \in Procs, Crash(p) PROVE SentWasDelivered'
    <2>1. \A o \in Procs, x \in Messages : log'[o][x] = "sent" => log[o][x] = "sent"
        BY <1>17 DEF Crash, Die
    <2>2. \A o \in Procs, x \in Messages : delivered'[o][x] >= delivered[o][x] /\ delivered'[o][x] \in Nat
        BY <1>17, Ranges DEF Crash, Die
    <2>. QED BY <2>1, <2>2, KeepsSent
<1>18. ASSUME NEW p \in Procs, Boot(p) PROVE SentWasDelivered'
    <2>1. \A o \in Procs, x \in Messages : log'[o][x] = "sent" => log[o][x] = "sent"
        BY <1>18 DEF Boot
    <2>2. \A o \in Procs, x \in Messages : delivered'[o][x] >= delivered[o][x] /\ delivered'[o][x] \in Nat
        BY <1>18, Ranges DEF Boot
    <2>. QED BY <2>1, <2>2, KeepsSent
<1>19. ASSUME Stop PROVE SentWasDelivered'
    <2>1. \A o \in Procs, x \in Messages : log'[o][x] = "sent" => log[o][x] = "sent"
        BY <1>19 DEF Stop
    <2>2. \A o \in Procs, x \in Messages : delivered'[o][x] >= delivered[o][x] /\ delivered'[o][x] \in Nat
        BY <1>19, Ranges DEF Stop
    <2>. QED BY <2>1, <2>2, KeepsSent
<1>20. ASSUME Exit PROVE SentWasDelivered'
    <2>1. \A o \in Procs, x \in Messages : log'[o][x] = "sent" => log[o][x] = "sent"
        BY <1>20 DEF Exit, Die
    <2>2. \A o \in Procs, x \in Messages : delivered'[o][x] >= delivered[o][x] /\ delivered'[o][x] \in Nat
        BY <1>20, Ranges DEF Exit, Die
    <2>. QED BY <2>1, <2>2, KeepsSent
<1>21. ASSUME Window PROVE SentWasDelivered'
    <2>1. \A o \in Procs, x \in Messages : log'[o][x] = "sent" => log[o][x] = "sent"
        BY <1>21 DEF Window
    <2>2. \A o \in Procs, x \in Messages : delivered'[o][x] >= delivered[o][x] /\ delivered'[o][x] \in Nat
        BY <1>21, Ranges DEF Window
    <2>. QED BY <2>1, <2>2, KeepsSent
<1>22. ASSUME UNCHANGED vars PROVE SentWasDelivered'
        <2>1. \A o \in Procs, x \in Messages : log'[o][x] = "sent" => log[o][x] = "sent"
        BY <1>22 DEF vars
    <2>2. \A o \in Procs, x \in Messages : delivered'[o][x] >= delivered[o][x] /\ delivered'[o][x] \in Nat
        BY <1>22, Ranges DEF vars
    <2>. QED BY <2>1, <2>2, KeepsSent
<1>. QED BY <1>1, <1>2, <1>3, <1>4, <1>5, <1>6, <1>7, <1>8, <1>9, <1>10, <1>11, <1>12, <1>13, <1>14, <1>15, <1>16, <1>17, <1>18, <1>19, <1>20, <1>21, <1>22 DEF Next, Consume, Replay, ScheduleStep

\* Faults are never taken back.
LEMMA FaultsGrow == TypeOK /\ [Next]_vars => faults' >= faults
<1> SUFFICES ASSUME TypeOK, [Next]_vars PROVE faults' >= faults  OBVIOUS
<1>1. faults \in Nat /\ faults \in 0 .. MaxFaults BY Ranges DEF TypeOK
<1>2. ASSUME UNCHANGED faults PROVE faults' >= faults BY <1>1, <1>2
<1>3. ASSUME NEW n \in Nat, Fault(n) PROVE faults' >= faults BY <1>1, <1>3 DEF Fault
<1>4. ASSUME NEW p \in Procs, NEW m \in Messages, Consume(p, m) PROVE faults' >= faults
    BY <1>2, <1>4, AttemptEffect, CreateLogEffect DEF Consume, Receive
<1>5. ASSUME NEW q \in Procs, NEW r \in Requests, NEW sev \in Severities, PublishCtx(q, r, sev)
      PROVE  faults' >= faults
    BY <1>5, PublishEffect
<1>6. ASSUME NEW m \in Messages, Decide(m) \/ Replay(m) \/ Archive(m) PROVE faults' >= faults
    BY <1>2, <1>6, DecideEffect, ReplaySkipEffect, ReplaySendEffect, ReplayMarkEffect DEF Replay, Archive
<1>7. ASSUME NEW s \in Schedules, ScheduleStep(s) PROVE faults' >= faults
    <2>1. CASE ScheduleSkip(s) BY <1>3, <2>1 DEF ScheduleSkip
    <2>2. CASE \E r \in Requests : ScheduleSend(s, r) BY <1>5, <2>2, Caps DEF ScheduleSend
    <2>3. CASE ScheduleMark BY <1>1, <2>3, StatementEffect DEF ScheduleMark
    <2>. QED BY <1>7, <2>1, <2>2, <2>3 DEF ScheduleStep
<1>8. ASSUME NEW p \in Procs, Disconnect(p) \/ Reconnect(p) \/ Crash(p) \/ Boot(p)
      PROVE  faults' >= faults
    BY <1>2, <1>3, <1>8 DEF Disconnect, Reconnect, Crash, Boot, Die
<1>9. ASSUME ReplayTick \/ ScheduleTick \/ Stop \/ Exit \/ Window \/ UNCHANGED vars
      PROVE  faults' >= faults
    BY <1>2, <1>3, <1>9 DEF ReplayTick, ScheduleTick, Stop, Exit, Die, Window, vars
<1>. QED BY <1>4, <1>5, <1>6, <1>7, <1>8, <1>9 DEF Next, Publish

\* Only a fault takes a consumer down, its subscription away, or an acknowledgement.
LEMMA UpStep == TypeOK /\ Up /\ [Next]_vars => Up'
<1> SUFFICES ASSUME TypeOK, Up, [Next]_vars, faults' = 0
             PROVE  \A p \in Procs : link'[p] = "on" /\ held'[p] = {}
    BY DEF Up
<1>0. faults = 0 /\ \A p \in Procs : link[p] = "on" /\ held[p] = {}
    <2>1. faults' >= faults /\ faults \in Nat BY FaultsGrow, Ranges
    <2>2. faults = 0 BY <2>1
    <2>. QED BY <2>2 DEF Up
<1>1. ASSUME UNCHANGED <<link, held>> PROVE \A p \in Procs : link'[p] = "on" /\ held'[p] = {}
    BY <1>0, <1>1
<1>2. ASSUME NEW p \in Procs, NEW m \in Messages, Consume(p, m) PROVE UNCHANGED <<link, held>>
    BY <1>2 DEF Consume, Receive, Attempt, CreateLog, mail
<1>3. ASSUME NEW q \in Procs, NEW r \in Requests, NEW sev \in Severities, Publish(q, r, sev)
      PROVE  UNCHANGED <<link, held>>
    BY <1>0, <1>3, PublishEffect DEF Publish
<1>4. ASSUME NEW m \in Messages, Decide(m) \/ Replay(m) \/ Archive(m) PROVE UNCHANGED <<link, held>>
    BY <1>4 DEF Decide, Replay, ReplaySkip, ReplaySend, ReplayMark, Archive, mail
<1>5. ASSUME NEW s \in Schedules, NEW r \in Requests, ScheduleSend(s, r) PROVE UNCHANGED <<link, held>>
    BY <1>0, <1>5, PublishEffect, Caps DEF ScheduleSend
<1>6. ASSUME \/ ReplayTick \/ ScheduleTick \/ ScheduleMark \/ Window \/ UNCHANGED vars
             \/ \E s \in Schedules : ScheduleSkip(s)
      PROVE  UNCHANGED <<link, held>>
    BY <1>6 DEF ReplayTick, ScheduleTick, ScheduleMark, Window, ScheduleSkip, vars, mail
<1>7. ASSUME \/ Stop \/ Exit
             \/ \E p \in Procs : Disconnect(p) \/ Reconnect(p) \/ Crash(p) \/ Boot(p)
      PROVE  FALSE
    BY <1>0, <1>7, Caps DEF Stop, Exit, Disconnect, Reconnect, Crash, Boot, Die, Stopping, Fault
<1>. QED BY <1>1, <1>2, <1>3, <1>4, <1>5, <1>6, <1>7 DEF Next, ScheduleStep

\* Without a fault a request that is published reaches both consumers.
LEMMA PublishReaches ==
    ASSUME NEW q \in Procs, NEW r \in Requests, NEW sev \in Severities, PublishCtx(q, r, sev),
           UNCHANGED <<link, stage, log>>, TypeOK, Up, NothingLost
    PROVE  NothingLost'
<1>1. faults' = 0 => faults = 0
    <2>1. faults' >= faults BY PublishEffect
    <2>. QED BY <2>1, Ranges
<1>2. faults' = 0 => \A o \in Procs : First(r) \in inbox'[o] BY <1>1, PublishEffect DEF Up
<1>3. \A o \in Procs, x \in Requests : First(x) \in inbox[o] => First(x) \in inbox'[o]
    <2>1. \A o \in Procs, x \in Messages : x \in inbox[o] => x \in inbox'[o]
        <3>1. \A o \in Procs : inbox[o] \subseteq inbox'[o] \/ inbox' = inbox
            BY DEF PublishCtx, Arrives, mail
        <3>. QED BY <3>1
    <2>. QED BY <2>1, Copies
<1>4. \A x \in Requests : x # r => severity'[x] = severity[x]
    <2>1. severity' = [severity EXCEPT ![r] = sev] BY PublishEffect
    <2>. QED BY <2>1 DEF TypeOK
<1>. QED BY <1>1, <1>2, <1>3, <1>4 DEF NothingLost

\* Nothing gets lost without a fault.
LEMMA NothingLostStep == TypeOK /\ Up /\ NothingLost /\ [Next]_vars => NothingLost'
<1> SUFFICES ASSUME TypeOK, Up, NothingLost, [Next]_vars PROVE NothingLost'  OBVIOUS
<1>1. ASSUME NEW p \in Procs, NEW m \in Messages, Receive(p, m) PROVE NothingLost'
    <2>1. /\ UNCHANGED <<log, severity, faults>> /\ inbox' = [inbox EXCEPT ![p] = @ \ {m}]
          /\ stage' = [stage EXCEPT ![p][m] = IF p = Worker THEN "received" ELSE "sending"]
        BY <1>1 DEF Receive
    <2>2. /\ stage'[p][m] # "none"
          /\ \A o \in Procs, x \in Messages : o # p \/ x # m => stage'[o][x] = stage[o][x]
          /\ \A o \in Procs, x \in Messages : o # p \/ x # m => (x \in inbox'[o] <=> x \in inbox[o])
        BY <2>1 DEF TypeOK
    <2>. QED BY <2>1, <2>2, Copies DEF NothingLost
<1>2. ASSUME NEW p \in Procs, NEW m \in Messages, Attempt(p, m) PROVE NothingLost'
    <2>1. UNCHANGED <<inbox, log, severity>> BY <1>2 DEF Attempt, mail
    <2>2. faults' = 0 => faults = 0 BY <1>2, AttemptEffect, Ranges
    <2>3. /\ stage'[p][m] # "none"
          /\ \A o \in Procs, x \in Messages : o # p \/ x # m => stage'[o][x] = stage[o][x]
        BY <1>2, AttemptEffect
    <2>. QED BY <2>1, <2>2, <2>3, Copies DEF NothingLost
<1>3. ASSUME NEW p \in Procs, NEW m \in Messages, CreateLog(p, m) PROVE NothingLost'
    <2>1. UNCHANGED <<inbox, severity>> BY <1>3 DEF CreateLog, mail
    <2>2. faults' = 0 => faults = 0 /\ log'[p][m] # "none"
        <3>1. faults' = 0 => faults = 0 /\ faults' # faults + 1 BY <1>3, CreateLogEffect, Ranges
        <3>2. faults = 0 => link[p] # "stopping" BY DEF Up
        <3>. QED BY <3>1, <3>2, <1>3, CreateLogEffect
    <2>3. \A o \in Procs, x \in Messages : o # p \/ x # m =>
            stage'[o][x] = stage[o][x] /\ log'[o][x] = log[o][x]
        BY <1>3, CreateLogEffect
    <2>. QED BY <2>1, <2>2, <2>3, Copies DEF NothingLost
<1>4. ASSUME NEW q \in Procs, NEW r \in Requests, NEW sev \in Severities, Publish(q, r, sev) PROVE NothingLost'
    <2>1. PublishCtx(q, r, sev) /\ UNCHANGED <<link, stage, log>> BY <1>4 DEF Publish, job
    <2>. QED BY <2>1, PublishReaches
<1>5. ASSUME NEW m \in Messages, Decide(m) PROVE NothingLost'
    <2>1. UNCHANGED <<inbox, severity>> BY <1>5 DEF Decide, mail
    <2>2. faults' = 0 => faults = 0 /\ faults' # faults + 1 BY <1>5, DecideEffect, Ranges
    <2>3. faults' = 0 => stage'[Worker][m] # "none" \/ log'[Worker][m] # "none"
        BY <2>2, <1>5, DecideEffect
    <2>4. \A o \in Procs, x \in Messages : o # Worker \/ x # m =>
            stage'[o][x] = stage[o][x] /\ log'[o][x] = log[o][x]
        BY <1>5, DecideEffect
    <2>. QED BY <2>1, <2>2, <2>3, <2>4, Copies DEF NothingLost
<1>6. ASSUME NEW m \in Messages, ReplaySkip(m) PROVE NothingLost'
    <2>1. UNCHANGED <<inbox, stage, severity>> BY <1>6 DEF ReplaySkip, mail, job
    <2>2. faults' = 0 => faults = 0 BY <1>6, ReplaySkipEffect, Ranges
    <2>3. \A o \in Procs, x \in Messages : log[o][x] # "none" => log'[o][x] # "none"
        BY <1>6, ReplaySkipEffect, Caps
    <2>. QED BY <2>1, <2>2, <2>3, Copies DEF NothingLost
<1>7. ASSUME NEW m \in Messages, ReplaySend(m) PROVE NothingLost'
    <2>1. UNCHANGED <<inbox, stage, log, severity>> BY <1>7 DEF ReplaySend, job, mail
    <2>2. faults' = 0 => faults = 0 BY <1>7, Ranges, ReplaySendEffect
    <2>. QED BY <2>1, <2>2, Copies DEF NothingLost
<1>8. ASSUME NEW m \in Messages, ReplayMark(m) PROVE NothingLost'
    <2>1. UNCHANGED <<inbox, stage, severity>> BY <1>8 DEF ReplayMark, mail, job
    <2>2. faults' = 0 => faults = 0 BY <1>8, ReplayMarkEffect, Ranges
    <2>3. \A o \in Procs, x \in Messages : log[o][x] # "none" => log'[o][x] # "none"
        BY <1>8, ReplayMarkEffect, Caps
    <2>. QED BY <2>1, <2>2, <2>3, Copies DEF NothingLost
<1>9. ASSUME NEW m \in Messages, Archive(m) PROVE NothingLost'
    <2>1. UNCHANGED <<inbox, stage, severity>> BY <1>9 DEF Archive, mail, job
    <2>2. faults' = 0 => faults = 0 BY <1>9, Ranges DEF Archive
    <2>3. \A o \in Procs, x \in Messages : log[o][x] # "none" => log'[o][x] # "none"
        BY <1>9, ArchiveEffect
    <2>. QED BY <2>1, <2>2, <2>3, Copies DEF NothingLost
<1>10. ASSUME ReplayTick PROVE NothingLost'
    <2>1. UNCHANGED <<inbox, stage, log, severity>> BY <1>10 DEF ReplayTick, job, mail
    <2>2. faults' = 0 => faults = 0 BY <1>10, Ranges DEF ReplayTick
    <2>. QED BY <2>1, <2>2, Copies DEF NothingLost
<1>11. ASSUME ScheduleTick PROVE NothingLost'
    <2>1. UNCHANGED <<inbox, stage, log, severity>> BY <1>11 DEF ScheduleTick, job, mail
    <2>2. faults' = 0 => faults = 0 BY <1>11, Ranges DEF ScheduleTick
    <2>. QED BY <2>1, <2>2, Copies DEF NothingLost
<1>12. ASSUME NEW s \in Schedules, ScheduleSkip(s) PROVE NothingLost'
    <2>1. UNCHANGED <<inbox, stage, log, severity>> BY <1>12 DEF ScheduleSkip, job, mail
    <2>2. faults' = 0 => faults = 0 BY <1>12, Ranges DEF ScheduleSkip, Fault
    <2>. QED BY <2>1, <2>2, Copies DEF NothingLost
<1>13. ASSUME NEW s \in Schedules, NEW r \in Requests, ScheduleSend(s, r) PROVE NothingLost'
    <2>1. PublishCtx(Worker, r, Plain) /\ UNCHANGED <<link, stage, log>> BY <1>13 DEF ScheduleSend, job
    <2>. QED BY <2>1, PublishReaches, Caps
<1>14. ASSUME ScheduleMark PROVE NothingLost'
    <2>1. UNCHANGED <<inbox, stage, log, severity>> BY <1>14 DEF ScheduleMark, job, mail
    <2>2. faults' = 0 => faults = 0 BY <1>14, Ranges, StatementEffect DEF ScheduleMark, TypeOK
    <2>. QED BY <2>1, <2>2, Copies DEF NothingLost
<1>15. ASSUME NEW p \in Procs, Disconnect(p) PROVE NothingLost'
    <2>1. faults' = faults + 1 \/ (faults' = faults /\ held[p] # {}) BY <1>15, Ranges DEF Disconnect, Fault
    <2>2. faults' # 0 BY <2>1, Ranges DEF Up
    <2>. QED BY <2>2 DEF NothingLost
<1>16. ASSUME NEW p \in Procs, Reconnect(p) PROVE NothingLost'
    <2>1. link[p] = "off" /\ faults' >= faults BY <1>16, Ranges DEF Reconnect, Fault
    <2>2. faults # 0 BY <2>1, Caps DEF Up
    <2>. QED BY <2>1, <2>2, Ranges, Copies DEF NothingLost
<1>17. ASSUME NEW p \in Procs, Crash(p) PROVE NothingLost'
    <2>1. faults' = faults + 1 BY <1>17 DEF Crash, Die, Fault
    <2>. QED BY <2>1, Ranges, Copies DEF NothingLost
<1>18. ASSUME NEW p \in Procs, Boot(p) PROVE NothingLost'
    <2>1. UNCHANGED <<inbox, stage, log, severity>> BY <1>18 DEF Boot, job, mail
    <2>2. faults' = 0 => faults = 0 BY <1>18, Ranges DEF Boot, Fault
    <2>. QED BY <2>1, <2>2, Copies DEF NothingLost
<1>19. ASSUME Stop PROVE NothingLost'
    <2>1. faults' = faults + 1 BY <1>19 DEF Stop, Fault
    <2>. QED BY <2>1, Ranges, Copies DEF NothingLost
<1>20. ASSUME Exit PROVE NothingLost'
    <2>1. link[Worker] = "stopping" /\ faults' >= faults BY <1>20, Ranges DEF Exit, Die, Stopping, Fault
    <2>2. faults # 0 BY <2>1, Caps DEF Up
    <2>. QED BY <2>1, <2>2, Ranges, Copies DEF NothingLost
<1>21. ASSUME Window PROVE NothingLost'
    <2>1. UNCHANGED <<inbox, stage, log, severity>> BY <1>21 DEF Window, job, mail
    <2>2. faults' = 0 => faults = 0 BY <1>21, Ranges DEF Window
    <2>. QED BY <2>1, <2>2, Copies DEF NothingLost
<1>22. ASSUME UNCHANGED vars PROVE NothingLost'
        <2>1. UNCHANGED <<inbox, stage, log, severity>> BY <1>22 DEF vars
    <2>2. faults' = 0 => faults = 0 BY <1>22, Ranges DEF vars
    <2>. QED BY <2>1, <2>2, Copies DEF NothingLost
<1>. QED BY <1>1, <1>2, <1>3, <1>4, <1>5, <1>6, <1>7, <1>8, <1>9, <1>10, <1>11, <1>12, <1>13, <1>14, <1>15, <1>16, <1>17, <1>18, <1>19, <1>20, <1>21, <1>22 DEF Next, Consume, Replay, ScheduleStep

\* What was delivered stays exact in a step that neither delivers nor logs.
LEMMA KeepsOnce ==
    ASSUME TypeOK, Once, faults' >= faults, UNCHANGED <<delivered, stage, log, replay, replaying>>
    PROVE  Once'
<1>1. \A p \in Procs, m \in Messages : Exact(p, m) => Exact(p, m)' BY DEF Exact, Given
<1>2. faults' = 0 => faults = 0 BY Ranges
<1>. QED BY <1>1, <1>2 DEF Once

\* The same for every request but one.
LEMMA OthersOnce ==
    ASSUME TypeOK, NEW p \in Procs, NEW m \in Messages,
           \A o \in Procs, x \in Messages : o # p \/ x # m =>
                /\ stage'[o][x] = stage[o][x] /\ log'[o][x] = log[o][x]
                /\ delivered'[o][x] = delivered[o][x]
           ,
           \/ UNCHANGED <<replay, replaying>>
           \/ p = Worker /\ \A x \in Messages \ {m} : x \notin replaying /\ x \notin replaying'
    PROVE  \A o \in Procs, x \in Messages : (o # p \/ x # m) /\ Exact(o, x) => Exact(o, x)'
BY DEF Exact, Given

\* Without a fault every publish is acknowledged, and nothing is sent from where it is made.
LEMMA PublishOnce ==
    ASSUME NEW q \in Procs, NEW r \in Requests, NEW sev \in Severities, PublishCtx(q, r, sev),
           UNCHANGED <<stage, log, replay, replaying>>, TypeOK, Up, Once
    PROVE  Once'
<1>1. faults' >= faults /\ faults \in Nat /\ faults' \in Nat BY PublishEffect, Ranges, Caps
<1>2. CASE faults' # 0 BY <1>2 DEF Once
<1>3. CASE faults' = 0
    <2>1. faults = 0 /\ link[q] = "on" BY <1>1, <1>3 DEF Up
    <2>2. ~Fault(1) BY <1>3, <2>1 DEF Fault
    <2>3. delivered' = delivered BY <2>1, <2>2 DEF PublishCtx
    <2>. QED BY <1>1, <2>3, KeepsOnce
<1>. QED BY <1>2, <1>3

\* What each process has delivered stays exact.
LEMMA OnceStep == TypeOK /\ Placed /\ Rows /\ Up /\ Once /\ [Next]_vars => Once'
<1> SUFFICES ASSUME TypeOK, Placed, Rows, Up, Once, [Next]_vars, faults' = 0
             PROVE  \A o \in Procs, x \in Messages : Exact(o, x)'
    BY DEF Once
<1>0. /\ faults = 0 /\ \A p \in Procs : link[p] = "on" /\ held[p] = {}
      /\ \A o \in Procs, x \in Messages : Exact(o, x)
    <2>1. faults' >= faults /\ faults \in Nat
        BY FaultsGrow, Ranges
    <2>2. faults = 0 BY <2>1
    <2>. QED BY <2>2 DEF Up, Once
<1>1. ASSUME UNCHANGED <<delivered, stage, log, replay, replaying>>
      PROVE  \A o \in Procs, x \in Messages : Exact(o, x)'
    BY <1>0, <1>1 DEF Exact, Given
<1>2. ASSUME NEW p \in Procs, NEW m \in Messages, Receive(p, m)
      PROVE  \A o \in Procs, x \in Messages : Exact(o, x)'
    <2>1. m \in inbox[p] /\ UNCHANGED <<delivered, log, replay, replaying>>
        BY <1>2 DEF Receive, replays
    <2>2. stage[p][m] = "none" BY <2>1 DEF Placed
    <2>3. \A o \in Procs, x \in Messages : stage'[o][x] = "sent" <=> stage[o][x] = "sent"
        <3>1. stage' = [stage EXCEPT ![p][m] = IF p = Worker THEN "received" ELSE "sending"]
            BY <1>2 DEF Receive
        <3>. QED BY <2>2, <3>1, Changed DEF TypeOK
    <2>. QED BY <1>0, <2>1, <2>3 DEF Exact, Given
<1>3. ASSUME NEW p \in Procs, NEW m \in Messages, Attempt(p, m)
      PROVE  \A o \in Procs, x \in Messages : Exact(o, x)'
    <2>1. UNCHANGED <<log, replay, replaying>> BY <1>3 DEF Attempt, replays
    <2>2. stage[p][m] = "sending" /\ log[p][m] = "none" /\ m \notin (IF p = Worker THEN replaying ELSE {})
        BY <1>3, AttemptEffect DEF Placed, Rows
    <2>3. delivered[p][m] = 0 BY <1>0, <2>2 DEF Exact, Given
    <2>4. delivered'[p][m] = IF stage'[p][m] = "sent" THEN 1 ELSE 0
        BY <1>0, <1>3, <2>3, AttemptEffect
    <2>5. Exact(p, m)' BY <2>1, <2>2, <2>4 DEF Exact, Given
    <2>6. \A o \in Procs, x \in Messages : o # p \/ x # m => Exact(o, x)'
        BY <1>0, <1>3, <2>1, AttemptEffect, OthersOnce
    <2>. QED BY <2>5, <2>6
<1>4. ASSUME NEW p \in Procs, NEW m \in Messages, CreateLog(p, m)
      PROVE  \A o \in Procs, x \in Messages : Exact(o, x)'
    <2>1. UNCHANGED <<delivered, replay, replaying>> BY <1>4 DEF CreateLog, replays
    <2>2. stage[p][m] \in {"sent", "failed"} /\ stage'[p][m] = "none" /\ log'[p][m] = stage[p][m]
        BY <1>0, <1>4, CreateLogEffect
    <2>3. log[p][m] = "none" BY <2>2 DEF Placed
    <2>4. Exact(p, m)' BY <1>0, <2>1, <2>2, <2>3 DEF Exact, Given
    <2>5. \A o \in Procs, x \in Messages : o # p \/ x # m => Exact(o, x)'
        BY <1>0, <1>4, <2>1, CreateLogEffect, OthersOnce
    <2>. QED BY <2>4, <2>5
<1>5. ASSUME NEW q \in Procs, NEW r \in Requests, NEW sev \in Severities, Publish(q, r, sev)
      PROVE  \A o \in Procs, x \in Messages : Exact(o, x)'
    <2>1. PublishCtx(q, r, sev) /\ UNCHANGED <<stage, log, replay, replaying>>
        BY <1>5 DEF Publish, job, replays
    <2>. QED BY <2>1, PublishOnce DEF Once
<1>6. ASSUME NEW m \in Messages, Decide(m)
      PROVE  \A o \in Procs, x \in Messages : Exact(o, x)'
    <2>1. UNCHANGED <<delivered, replay, replaying>> BY <1>6 DEF Decide, replays
    <2>2. stage[Worker][m] = "received" /\ stage'[Worker][m] # "sent"
          /\ (log'[Worker][m] = log[Worker][m] \/ log'[Worker][m] = "deferred")
        BY <1>6, DecideEffect
    <2>3. log[Worker][m] = "none" BY <2>2, Caps DEF Placed
    <2>4. Exact(Worker, m)' BY <1>0, <2>1, <2>2, <2>3, Caps DEF Exact, Given
    <2>5. \A o \in Procs, x \in Messages : o # Worker \/ x # m => Exact(o, x)'
        BY <1>0, <1>6, <2>1, DecideEffect, OthersOnce, Caps
    <2>. QED BY <2>4, <2>5
<1>7. ASSUME NEW m \in Messages, ReplaySkip(m)
      PROVE  \A o \in Procs, x \in Messages : Exact(o, x)'
    <2>1. UNCHANGED <<delivered, stage, replay, replaying>> /\ m \in batch
        BY <1>7 DEF ReplaySkip, job
    <2>2. log[Worker][m] \in {"deferred", "archived"} /\ m \notin replaying BY <2>1 DEF Rows
    <2>3. log'[Worker][m] \in {log[Worker][m], "failed"} BY <1>7, ReplaySkipEffect
    <2>4. Exact(Worker, m)' BY <1>0, <2>1, <2>2, <2>3, Caps DEF Exact, Given
    <2>5. \A o \in Procs, x \in Messages : o # Worker \/ x # m => Exact(o, x)'
        BY <1>0, <1>7, <2>1, ReplaySkipEffect, OthersOnce, Caps
    <2>. QED BY <2>4, <2>5
<1>8. ASSUME NEW m \in Messages, ReplaySend(m)
      PROVE  \A o \in Procs, x \in Messages : Exact(o, x)'
    <2>1. /\ UNCHANGED <<stage, log>> /\ m \in batch /\ replay = "next" /\ replaying' = {m}
        BY <1>8 DEF ReplaySend, job
    <2>2. log[Worker][m] \in {"deferred", "archived"} /\ replaying = {} BY <2>1 DEF Rows
    <2>3. stage[Worker][m] = "none" BY <2>2, Caps DEF Placed
    <2>4. delivered[Worker][m] = 0 BY <1>0, <2>2, <2>3, Caps DEF Exact, Given
    <2>5. delivered'[Worker][m] = IF replay' = "sent" THEN 1 ELSE 0
        BY <1>0, <1>8, <2>4, ReplaySendEffect
    <2>6. Exact(Worker, m)' BY <2>1, <2>2, <2>3, <2>5 DEF Exact, Given
    <2>7. \A o \in Procs, x \in Messages : o # Worker \/ x # m => Exact(o, x)'
        BY <1>0, <1>8, <2>1, <2>2, ReplaySendEffect, OthersOnce, Caps
    <2>. QED BY <2>6, <2>7
<1>9. ASSUME NEW m \in Messages, ReplayMark(m)
      PROVE  \A o \in Procs, x \in Messages : Exact(o, x)'
    <2>1. /\ UNCHANGED <<stage, delivered>> /\ m \in replaying /\ replaying' = {} /\ replay' = "next"
        BY <1>9 DEF ReplayMark, job
    <2>2. /\ log[Worker][m] \in {"deferred", "archived"}
          /\ \A x \in Messages \ {m} : x \notin replaying
        BY <2>1 DEF Rows
    <2>3. stage[Worker][m] = "none" BY <2>2, Caps DEF Placed
    <2>4. log'[Worker][m] = replay /\ replay \in {"sent", "failed"}
        BY <1>0, <1>9, ReplayMarkEffect, Caps
    <2>5. Exact(Worker, m)' BY <1>0, <2>1, <2>2, <2>3, <2>4, Caps DEF Exact, Given
    <2>6. \A o \in Procs, x \in Messages : o # Worker \/ x # m => Exact(o, x)'
        BY <1>0, <1>9, <2>1, <2>2, ReplayMarkEffect, OthersOnce, Caps
    <2>. QED BY <2>5, <2>6
<1>10. ASSUME NEW m \in Messages, Archive(m)
       PROVE  \A o \in Procs, x \in Messages : Exact(o, x)'
    <2>1. UNCHANGED <<delivered, stage, replay, replaying>>
        BY <1>10 DEF Archive, job, replays
    <2>2. \A o \in Procs, x \in Messages : log'[o][x] = "sent" <=> log[o][x] = "sent"
        BY <1>10, ArchiveEffect
    <2>. QED BY <1>0, <2>1, <2>2 DEF Exact, Given
<1>11. ASSUME NEW s \in Schedules, NEW r \in Requests, ScheduleSend(s, r)
       PROVE  \A o \in Procs, x \in Messages : Exact(o, x)'
    <2>1. PublishCtx(Worker, r, Plain) /\ UNCHANGED <<stage, log, replay, replaying>>
        BY <1>11 DEF ScheduleSend, job, replays
    <2>. QED BY <2>1, PublishOnce, Caps DEF Once
<1>12. ASSUME \/ ReplayTick \/ ScheduleTick \/ ScheduleMark \/ Window \/ UNCHANGED vars
              \/ \E s \in Schedules : ScheduleSkip(s)
       PROVE  UNCHANGED <<delivered, stage, log, replay, replaying>>
    BY <1>12 DEF ReplayTick, ScheduleTick, ScheduleMark, Window, ScheduleSkip, vars, job, replays
<1>13. ASSUME \/ Stop \/ Exit
              \/ \E p \in Procs : Disconnect(p) \/ Reconnect(p) \/ Crash(p) \/ Boot(p)
       PROVE  FALSE
    BY <1>0, <1>13, Caps DEF Stop, Exit, Disconnect, Reconnect, Crash, Boot, Die, Stopping, Fault
<1>. QED BY <1>1, <1>2, <1>3, <1>4, <1>5, <1>6, <1>7, <1>8, <1>9, <1>10, <1>11, <1>12, <1>13
         DEF Next, Consume, Replay, ScheduleStep

-----------------------------------------------------------------------------
IInv == /\ TypeOK /\ Placed /\ Rows /\ Sent /\ SentWasDelivered
        /\ Fresh /\ Owed /\ Marks /\ Up /\ NothingLost /\ Once

\* The invariant holds at the start, nothing being published.
LEMMA InitInv == Init => IInv
<1>. SUFFICES ASSUME Init PROVE IInv  OBVIOUS
<1>1. TypeOK BY Caps DEF Init, TypeOK, Each
<1>2. Placed BY DEF Init, Placed, Each
<1>3. Rows BY DEF Init, Rows
<1>4. Sent /\ SentWasDelivered BY DEF Init, Sent, SentWasDelivered, Each
<1>5. Fresh /\ Owed BY Caps, Copies DEF Init, Fresh, Owed, Each
<1>6. Marks BY Caps DEF Init, Marks
<1>7. Up BY DEF Init, Up
<1>8. NothingLost BY DEF Init, NothingLost
<1>9. Once BY DEF Init, Once, Exact, Given, Each
<1>. QED BY <1>1, <1>2, <1>3, <1>4, <1>5, <1>6, <1>7, <1>8, <1>9 DEF IInv

\* Every step keeps the invariant.
LEMMA StepInv == IInv /\ [Next]_vars => IInv'
BY TypeStep, PlacedStep, RowsStep, SentStep, SentWasDeliveredStep, FreshStep, OwedStep, MarksStep, UpStep,
   NothingLostStep, OnceStep DEF IInv

\* The invariant holds in every reachable state.
LEMMA Invariance == Spec => []IInv
BY InitInv, StepInv, PTL DEF Spec

\* Every variable keeps its type, the attempts of a goroutine their limit.
THEOREM Types == Spec => []TypeOK
BY Invariance, PTL DEF IInv

\* A row of either consumer, or one the replay marked, says sent only of a delivery.
THEOREM SentIsTrue == Spec => []SentWasDelivered
BY Invariance, PTL DEF IInv

\* Without a fault a row tells exactly whether its process delivered the request: once if it
\* says sent, and not at all if it does not, whatever is archived, deferred and replayed.
THEOREM ExactRows == Spec => []RowsAreExact
<1>1. IInv => RowsAreExact
    <2>1. SUFFICES ASSUME IInv, faults = 0, NEW p \in Procs, NEW m \in Messages
                   PROVE  /\ log[p][m] = "sent" => delivered[p][m] = 1
                          /\ log[p][m] \in {"failed", "deferred", "archived"} /\ m \notin replaying
                                => delivered[p][m] = 0
        BY DEF RowsAreExact
    <2>2. Exact(p, m) BY <2>1 DEF IInv, Once
    <2>3. stage[p][m] # "none" => log[p][m] = "none" BY <2>1 DEF IInv, Placed
    <2>. QED BY <2>2, <2>3 DEF Exact, Given
<1>. QED BY <1>1, Invariance, PTL

\* Two consumers deliver a request twice. Every further delivery has its own fault, but for
\* one: a publish that times out may lead to two.
THEOREM Duplicates == Spec => []DuplicatesBounded
<1>1. IInv => DuplicatesBounded
    <2>1. SUFFICES ASSUME IInv, NEW r \in Requests PROVE Deliveries(r) <= Bound(faults)
        BY DEF DuplicatesBounded, Bound
    <2>2. /\ First(r) \in Messages /\ Again(r) \in Messages /\ First(r)[1] = r /\ Again(r)[1] = r
          /\ Api \in Procs /\ Worker \in Procs /\ faults \in Nat
        BY <2>1, Copies, Caps, Ranges DEF IInv
    <2>3. \A p \in Procs, m \in Messages :
            delivered[p][m] \in Nat /\ Part(p, m) \in Nat /\ delivered[p][m] <= Part(p, m)
        <3>1. \A p \in Procs, m \in Messages : delivered[p][m] \in Nat BY <2>1, Ranges DEF IInv
        <3>2. \A p \in Procs, m \in Messages : Debt(p, m) \in {0, 1} BY Debts
        <3>. QED BY <3>1, <3>2 DEF Part
    <2>4. CASE severity[r] = Unpublished
        <3>1. \A p \in Procs : delivered[p][First(r)] = 0 /\ delivered[p][Again(r)] = 0
            BY <2>1, <2>2, <2>4 DEF IInv, Fresh
        <3>2. Deliveries(r) = 0 BY <2>2, <3>1 DEF Deliveries
        <3>. QED BY <2>2, <3>2 DEF Bound
    <2>5. CASE severity[r] # Unpublished
        <3>1. Total(r) <= Bound(faults) BY <2>1, <2>5 DEF IInv, Owed
        <3>2. Deliveries(r) \in Nat /\ Total(r) \in Nat /\ Deliveries(r) <= Total(r)
            <4>. HIDE DEF First, Again, Part
            <4>. QED BY <2>2, <2>3 DEF Deliveries, Total
        <3>. QED BY <2>2, <3>1, <3>2 DEF Bound
    <2>. QED BY <2>4, <2>5
<1>. QED BY <1>1, Invariance, PTL

\* A schedule is published once, and again only after a fault.
THEOREM RunsOnce == Spec => []RunsBounded
<1>1. IInv => RunsBounded
    <2>1. SUFFICES ASSUME IInv, NEW s \in Schedules PROVE ran[s] <= 1 + faults BY DEF RunsBounded
    <2>2. ran[s] + (IF schedule[s] = "due" /\ marking # s THEN 1 ELSE 0) <= 1 + faults
        BY <2>1 DEF IInv, Marks
    <2>3. ran[s] \in Nat /\ faults \in Nat BY <2>1, Ranges DEF IInv, TypeOK
    <2>. QED BY <2>2, <2>3
<1>. QED BY <1>1, Invariance, PTL

\* As long as there is no fault, no consumer loses a request that was published.
THEOREM NoLoss == Spec => []NothingLost
BY Invariance, PTL DEF IInv
=============================================================================
