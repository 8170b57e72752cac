--------------------------- MODULE SessionTracker ---------------------------
(***************************************************************************)
(* TelemetrySessionTracker (internal/api/telemetry): the drives and the    *)
(* charging sessions of one vehicle, as rows of the database and as the    *)
(* sessions the process tracks in memory.  Goroutines of MQTT deliveries   *)
(* (SideEffectsObserver.OnPayloadProcessed), the clean-up ticker, the      *)
(* recovery at the start of the process, crashes, and statements that fail *)
(* or whose reply is lost.                                                 *)
(*                                                                         *)
(* The tracker's mutex makes each handler one step.  Times are ages: that  *)
(* of a row's boundary is by event time, so a payload that is lag old      *)
(* opens or closes a row with that age, the others are by the clock.       *)
(***************************************************************************)
EXTENDS Integers, FiniteSets

CONSTANTS Drives, Charges,   \* bound: ids of rows that matter at one time
          Handlers,          \* bound: deliveries handled at once
          Kinds,             \* payloads: [gear, speed, charge]
          MergeWindow,       \* driveMergeWindow (90 s)
          ZeroTimeout,       \* two minutes at speed zero
          Stale,             \* StaleSessionTimeout (5 min)
          Fresh,             \* staleSessionThreshold (5 min)
          DriveLimit, ChargeLimit,     \* 4 h, 24 h
          DriveHorizon, ChargeHorizon, \* 24 h, 48 h
          MaxLag,            \* bound: age of a payload
          StartCap,          \* bound: older starts are not told apart
          MaxFaults,         \* bound: crashes and failed statements
          None               \* no session

Gears   == {"none", "D", "P", "N", "other"}
Speeds  == {"none", "zero", "moving"}
ChargeStates == {"none", "charging", "complete", "stopped"}
Payload == [gear : Gears, speed : Speeds, charge : ChargeStates]

ASSUME SessionAssumption ==
    /\ Kinds \subseteq Payload
    /\ None \notin Drives \cup Charges
    /\ {MergeWindow, ZeroTimeout, Stale, Fresh, MaxLag, MaxFaults, StartCap} \subseteq Nat
    /\ \A age \in {2 * Stale, MaxLag, DriveLimit, ChargeLimit, DriveHorizon, ChargeHorizon} :
           age \in Nat /\ age < StartCap
    /\ IsFiniteSet(Drives) /\ IsFiniteSet(Charges)
    /\ DriveLimit <= DriveHorizon /\ ChargeLimit <= ChargeHorizon

VARIABLES
    drives, charges,   \* the tables
    drive, charging,   \* activeDrives, activeCharges of the vehicle
    gear, charged,     \* live signal store: last gear, last charging state is complete
    pc, msg, lag,      \* per delivery
    phase,             \* of the process, through its start
    faults             \* history: crashes and failures so far

tables   == <<drives, charges>>
sessions == <<drive, charging>>
live     == <<gear, charged>>
delivery == <<pc, msg, lag>>
vars == <<drives, charges, drive, charging, gear, charged, pc, msg, lag, phase,
          faults>>

-----------------------------------------------------------------------------
Unset == -1

(* Ages. Each grows to a value that no comparison tells from a greater one. *)
SeenCap == 1 + 2 * Stale
ZeroCap == 1 + ZeroTimeout
EndCap  == 1 + MaxLag + MergeWindow
LogCap  == EndCap + Fresh
Older(age, cap) == IF age < cap THEN age + 1 ELSE age

NoRow     == [state |-> "none", start |-> 0, end |-> 0]
NoDrive   == [id |-> None, start |-> 0, seen |-> 0, zero |-> Unset]
NoCharge  == [id |-> None, start |-> 0, seen |-> 0]
NoPayload == [gear |-> "none", speed |-> "none", charge |-> "none"]

IsOpen(rows, r)  == rows[r].state = "open"
IsEnded(rows, r) == rows[r].state = "ended"
\* Seeded fault: a payload without a time stamps the row with the zero time.
OpenedFault(rows, r, start) ==
    [rows EXCEPT ![r] = [state |-> "open", start |-> IF start = 0 THEN Unset ELSE start, end |-> 0]]
Opened(rows, r, start) == [rows EXCEPT ![r] = [state |-> "open", start |-> start, end |-> 0]]
Reopened(rows, r)   == [rows EXCEPT ![r] = [state |-> "open", start |-> @.start, end |-> 0]]
Ended(rows, r, end) == [rows EXCEPT ![r] = [state |-> "ended", start |-> @.start, end |-> end]]

\* A row nothing will read or write again: its id stands for another row from now on.
Settled(row, tracked, keep) == row.state = "ended" /\ ~tracked /\ row.end >= keep
FreeDrives  == {d \in Drives  : drives[d].state = "none"}
FreeCharges == {c \in Charges : charges[c].state = "none"}

\* Statements that fail, or whose reply is lost, in one step.
Failing(bad, possible) ==
    /\ bad \subseteq possible
    /\ faults + Cardinality(bad) <= MaxFaults
    /\ faults' = faults + Cardinality(bad)

Init ==
    /\ drives = [d \in Drives |-> NoRow] /\ charges = [c \in Charges |-> NoRow]
    /\ drive = NoDrive /\ charging = NoCharge
    /\ gear = "P" /\ charged = FALSE   \* parked
    /\ pc = [h \in Handlers |-> "idle"]
    /\ msg = [h \in Handlers |-> NoPayload] /\ lag = [h \in Handlers |-> 0]
    /\ phase = "down" /\ faults = 0
-----------------------------------------------------------------------------
(* A delivery: the live store first, then drives, then charges. *)

\* Bound: a payload that may create a row comes in only while there is an id for it.
MayDrive(m)  == m.gear = "D" \/ m.speed = "moving"
MayCharge(m) == m.charge = "charging"
Room(m) ==
    /\ MayDrive(m) => Cardinality(FreeDrives)
                        > Cardinality({g \in Handlers : pc[g] = "drives" /\ MayDrive(msg[g])})
    /\ MayCharge(m) => Cardinality(FreeCharges)
                        > Cardinality({g \in Handlers : pc[g] # "idle" /\ MayCharge(msg[g])})

\* Steps 1 to 4: the live store, and the VIN. Without the
\* VIN the tracker is skipped.
Receive(h, m, l) ==
    /\ phase = "up" /\ pc[h] = "idle" /\ Room(m)
    /\ gear' = IF m.gear = "none" THEN gear ELSE m.gear
    /\ charged' = IF m.charge = "none" THEN charged ELSE m.charge = "complete"
    /\ \/ /\ pc'  = [pc EXCEPT ![h] = "drives"]
          /\ msg' = [msg EXCEPT ![h] = m] /\ lag' = [lag EXCEPT ![h] = l]
       \/ UNCHANGED delivery
    /\ UNCHANGED <<tables, sessions, phase, faults>>

Trackable(h) == phase = "up" /\ pc[h] = "drives"
\* The drive's part is done; what the charge's part does not read is forgotten.
Tracked(h) ==
    /\ pc' = [pc EXCEPT ![h] = "charges"]
    /\ msg' = [msg EXCEPT ![h] = [NoPayload EXCEPT !.charge = msg[h].charge]]
    /\ lag' = [lag EXCEPT ![h] = IF msg[h].charge = "none" THEN 0 ELSE @]
    /\ UNCHANGED <<live, phase>>

Driving(m)  == m.gear = "D"
Parking(m)  == m.gear \in {"P", "N"}
\* A gear the code does not know counts as none, but only for an active drive.
Fallback(m) == ~Driving(m) /\ ~Parking(m)

StartsDrive(m) == drive.id = None /\ (Driving(m) \/ (m.gear = "none" /\ m.speed = "moving"))
\* The speed has been zero for long and the last known gear is not a driving one.
Stopped(m) == /\ Fallback(m) /\ m.speed = "zero"
              /\ drive.zero > ZeroTimeout /\ gear # "D"
EndsDrive(m) == drive.id # None /\ (Parking(m) \/ Stopped(m))

\* FindRecentEndedForMerge: the newest drive that ended shortly before the start.
Mergeable(l) == {d \in Drives : IsEnded(drives, d) /\ drives[d].end \in l .. l + MergeWindow}
Recent(l)    == {d \in Mergeable(l) : \A e \in Mergeable(l) : drives[d].end <= drives[e].end}

TrackedDrive(d, start) == [id |-> d, start |-> start, seen |-> 0, zero |-> Unset]

\* Seeded fault: the resumed drive is tracked from the start of its second leg.
ResumeDriveFault(d) == drives' = Reopened(drives, d) /\ drive' = TrackedDrive(d, 0)

\* ResumeForMerge, and the row it resumes is tracked from its own start.
ResumeDrive(d) ==
    /\ drives' = Reopened(drives, d)
    /\ drive' = TrackedDrive(d, drives[d].start)

\* The new row. When a reply is lost the row stays, but the tracker has no drive.
CreateDrive(rows, l, bad) ==
    IF "create" \in bad
    THEN drives' = rows /\ UNCHANGED drive
    ELSE \E d \in FreeDrives :
            /\ drives' = Opened(rows, d, l)
            /\ IF "createReply" \in bad THEN UNCHANGED drive ELSE drive' = TrackedDrive(d, l)

\* Seeded fault: a charge whose transaction fails stays tracked.
CompleteChargeFault(end, bad) ==
    IF "charge" \in bad THEN UNCHANGED <<charges, charging>>
    ELSE charges' = Ended(charges, charging.id, end) /\ charging' = NoCharge

\* completeChargeLocked: an error of the transaction is logged only.
CompleteCharge(end, bad) ==
    /\ charges' = IF "charge" \in bad THEN charges ELSE Ended(charges, charging.id, end)
    /\ charging' = NoCharge

\* startDriveLocked, after the charge that is still tracked.
StartDrive(h) ==
    /\ Trackable(h) /\ StartsDrive(msg[h]) /\ Tracked(h)
    /\ \E bad \in SUBSET {"charge", "lookup", "resumeReply", "create", "createReply"} :
        /\ Failing(bad, {"lookup", "resumeReply", "create", "createReply"}
                        \cup IF charging.id # None THEN {"charge"} ELSE {})
        /\ IF charging.id # None THEN CompleteCharge(lag[h], bad) ELSE UNCHANGED <<charges, charging>>
        /\ LET l == lag[h] IN
           IF Recent(l) = {} \/ "lookup" \in bad
           THEN /\ "resumeReply" \notin bad
                /\ CreateDrive(drives, l, bad)
           ELSE \E d \in Recent(l) :
                IF "resumeReply" \in bad
                THEN CreateDrive(Reopened(drives, d), l, bad)
                ELSE ResumeDrive(d) /\ bad \cap {"create", "createReply"} = {}

\* Seeded fault: an end by event time that is not after the start is not written.
CompleteDriveFault(end, bad) ==
    /\ drives' = IF "drive" \in bad \/ end >= drive.start THEN drives ELSE Ended(drives, drive.id, end)
    /\ drive' = NoDrive

\* completeDriveLocked: an error of the transaction is logged only.
CompleteDrive(end, bad) ==
    /\ drives' = IF "drive" \in bad THEN drives ELSE Ended(drives, drive.id, end)
    /\ drive' = NoDrive

EndDrive(h) ==
    /\ Trackable(h) /\ EndsDrive(msg[h]) /\ Tracked(h)
    /\ \E bad \in SUBSET {"drive"} : Failing(bad, {"drive"}) /\ CompleteDrive(lag[h], bad)
    /\ UNCHANGED <<charges, charging>>

\* Every other payload: the drive, if there is one, was heard of.
HearDrive(h) ==
    /\ Trackable(h) /\ ~StartsDrive(msg[h]) /\ ~EndsDrive(msg[h]) /\ Tracked(h)
    /\ drive' =
        IF drive.id = None THEN drive
        ELSE LET m == msg[h] IN
             [drive EXCEPT
                !.seen = 0,
                !.zero = CASE Driving(m) \/ m.speed = "moving" -> Unset
                           [] ~Driving(m) /\ m.speed = "zero" ->
                                IF @ = Unset \/ @ > ZeroTimeout THEN 0 ELSE @
                           [] OTHER -> @]
    /\ UNCHANGED <<tables, charging, faults>>

Done(h) ==
    /\ phase = "up" /\ pc[h] = "charges"
    /\ pc' = [pc EXCEPT ![h] = "idle"]
    /\ msg' = [msg EXCEPT ![h] = NoPayload] /\ lag' = [lag EXCEPT ![h] = 0]
    /\ UNCHANGED <<drives, drive, live, phase>>

\* trackCharging. A charge that starts leaves a tracked drive as it is.
StartCharge(h) ==
    /\ Done(h) /\ msg[h].charge = "charging" /\ charging.id = None
    /\ \E bad \in SUBSET {"create", "createReply"} :
        /\ Failing(bad, {"create", "createReply"})
        /\ IF "create" \in bad THEN UNCHANGED <<charges, charging>>
           ELSE \E c \in FreeCharges :
                /\ charges' = Opened(charges, c, lag[h])
                /\ charging' = IF "createReply" \in bad THEN charging
                               ELSE [id |-> c, start |-> lag[h], seen |-> 0]

EndCharge(h) ==
    /\ Done(h) /\ msg[h].charge \in {"complete", "stopped"} /\ charging.id # None
    /\ \E bad \in SUBSET {"charge"} : Failing(bad, {"charge"}) /\ CompleteCharge(lag[h], bad)

HearCharge(h) ==
    /\ Done(h)
    /\ \/ /\ msg[h].charge \in {"none", "charging"} /\ charging.id # None
          /\ charging' = [charging EXCEPT !.seen = 0]
       \/ /\ msg[h].charge # "charging" /\ charging.id = None
          /\ UNCHANGED charging
    /\ UNCHANGED <<charges, faults>>
-----------------------------------------------------------------------------
\* Seeded fault: the sweep looks back no further than the recovery's horizon.
SweptRowsFault(rows, limit) ==
    [r \in DOMAIN rows |->
        IF IsOpen(rows, r) /\ rows[r].start \in limit + 1 .. DriveHorizon
        THEN Ended(rows, r, 0)[r] ELSE rows[r]]

(* CleanupStaleSessions: idle sessions, then every open row that started before the limit. *)
SweptRows(rows, limit) ==
    [r \in DOMAIN rows |->
        IF IsOpen(rows, r) /\ rows[r].start > limit THEN Ended(rows, r, 0)[r] ELSE rows[r]]

\* Seeded fault: only a session that has just become idle is seen.
IdleFault(session, limit) == session.id # None /\ session.seen = limit + 1
Idle(session, limit) == session.id # None /\ session.seen > limit

Sweep(limit, bad) ==
    LET idleDrive  == Idle(drive, limit)
        idleCharge == Idle(charging, limit)
        drives1  == IF idleDrive /\ "drive" \notin bad THEN Ended(drives, drive.id, 0) ELSE drives
        charges1 == IF idleCharge /\ "charge" \notin bad THEN Ended(charges, charging.id, 0) ELSE charges
    IN
    /\ Failing(bad, (IF idleDrive THEN {"drive"} ELSE {}) \cup (IF idleCharge THEN {"charge"} ELSE {})
                    \cup {"orphanDrives", "orphanCharges"})
    /\ drive'    = IF idleDrive THEN NoDrive ELSE drive
    /\ charging' = IF idleCharge THEN NoCharge ELSE charging
    /\ drives'  = IF "orphanDrives" \in bad THEN drives1 ELSE SweptRows(drives1, limit)
    /\ charges' = IF "orphanCharges" \in bad THEN charges1 ELSE SweptRows(charges1, limit)
    /\ UNCHANGED <<live, delivery>>

Cleanup ==
    /\ phase = "up"
    /\ \E bad \in SUBSET {"drive", "charge", "orphanDrives", "orphanCharges"} : Sweep(Stale, bad)
    /\ UNCHANGED phase
-----------------------------------------------------------------------------
(* The start of the process (App, then StartCleanup), before it subscribes. *)

\* GetStale, newest first: the open rows that started before the cutoff.
StaleRows(rows, horizon) == {r \in DOMAIN rows : IsOpen(rows, r) /\ rows[r].start > horizon}
Newest(rows, S) == {r \in S : \A s \in S : rows[r].start <= rows[s].start}

RecoverSessions ==
    /\ phase = "down" /\ phase' = "recovered"
    /\ LET staleDrives  == StaleRows(drives, DriveHorizon)
           staleCharges == StaleRows(charges, ChargeHorizon)
       IN \E bad \in SUBSET {"drives", "charges"} :
          /\ Failing(bad, {"drives", "charges"})
          /\ IF staleDrives = {} \/ "drives" \in bad THEN UNCHANGED drive
             ELSE \E d \in Newest(drives, staleDrives) :
                    drive' = [NoDrive EXCEPT !.id = d, !.start = drives[d].start]
          /\ IF staleCharges = {} \/ "charges" \in bad THEN UNCHANGED charging
             ELSE \E c \in Newest(charges, staleCharges) :
                    charging' = [NoCharge EXCEPT !.id = c, !.start = charges[c].start]
    /\ UNCHANGED <<tables, live, delivery>>

ValidateRecoveredSessions ==
    /\ phase = "recovered" /\ phase' = "validated"
    /\ \E bad \in SUBSET {"drive", "charge"} :
        LET endDrive  == drive.id # None /\ (drive.start > DriveLimit \/ gear = "P")
            endCharge == charging.id # None /\ (charging.start > ChargeLimit \/ charged)
        IN /\ Failing(bad, (IF endDrive THEN {"drive"} ELSE {}) \cup (IF endCharge THEN {"charge"} ELSE {}))
           /\ IF endDrive THEN CompleteDrive(0, bad) ELSE UNCHANGED <<drives, drive>>
           /\ IF endCharge THEN CompleteCharge(0, bad) ELSE UNCHANGED <<charges, charging>>
    /\ UNCHANGED <<live, delivery>>

\* completeRecoveredDrive, completeRecoveredCharge: at the vehicle's last signal,
\* whose age in the log is left open. The transaction of a row to skip has failed.
Recovered(rows, tracked, lastLog, skip) ==
    [r \in DOMAIN rows |->
        IF /\ tracked.id = None /\ IsOpen(rows, r) /\ r \notin skip
           /\ lastLog = Unset \/ lastLog >= Fresh
        THEN Ended(rows, r, IF lastLog = Unset THEN 0 ELSE lastLog)[r]
        ELSE rows[r]]

\* One query that fails leaves a whole table as it is.
RecoverIncompleteSessions ==
    /\ phase = "validated" /\ phase' = "completed"
    /\ \E bad \in SUBSET {"drives", "charges"}, lastLog \in Unset .. LogCap,
          skipDrives \in SUBSET {d \in Drives : IsOpen(drives, d)},
          skipCharges \in SUBSET {c \in Charges : IsOpen(charges, c)} :
        /\ faults' = faults + Cardinality(bad) + Cardinality(skipDrives) + Cardinality(skipCharges)
        /\ faults' <= MaxFaults
        /\ drives'  = IF "drives" \in bad THEN drives ELSE Recovered(drives, drive, lastLog, skipDrives)
        /\ charges' = IF "charges" \in bad THEN charges ELSE Recovered(charges, charging, lastLog, skipCharges)
    /\ UNCHANGED <<sessions, live, delivery>>

StartCleanup ==
    /\ phase = "completed" /\ phase' = "up"
    /\ \E bad \in SUBSET {"drive", "charge", "orphanDrives", "orphanCharges"} : Sweep(2 * Stale, bad)

\* The process dies. The signal store comes back from the log.
Crash ==
    /\ phase # "down" /\ phase' = "down"
    /\ Failing({"crash"}, {"crash"})
    /\ drive' = NoDrive /\ charging' = NoCharge
    /\ pc' = [h \in Handlers |-> "idle"]
    /\ msg' = [h \in Handlers |-> NoPayload] /\ lag' = [h \in Handlers |-> 0]
    /\ UNCHANGED <<tables, live>>
-----------------------------------------------------------------------------
AgedRow(row, tracked, keep) ==
    LET start == Older(row.start, StartCap)
        end   == Older(row.end, EndCap)
    IN CASE row.state = "none" -> row
         [] row.state = "open" -> [row EXCEPT !.start = start]
         [] OTHER -> IF Settled(row, tracked, keep) THEN NoRow
                     ELSE [row EXCEPT !.start = start, !.end = end]

\* A payload is handled before it is too old (bound).
Tick ==
    /\ \A h \in Handlers : pc[h] # "idle" => lag[h] < MaxLag
    /\ drives'  = [d \in Drives  |-> AgedRow(drives[d], drive.id = d, EndCap)]
    /\ charges' = [c \in Charges |-> AgedRow(charges[c], charging.id = c, 0)]
    /\ drive' = IF drive.id = None THEN drive
                ELSE [drive EXCEPT !.start = Older(@, StartCap), !.seen = Older(@, SeenCap),
                                   !.zero = IF @ = Unset THEN @ ELSE Older(@, ZeroCap)]
    /\ charging' = IF charging.id = None THEN charging
                   ELSE [charging EXCEPT !.start = Older(@, StartCap), !.seen = Older(@, SeenCap)]
    /\ lag' = [h \in Handlers |-> IF pc[h] = "idle" THEN 0 ELSE lag[h] + 1]
    /\ UNCHANGED <<live, pc, msg, phase, faults>>

Handle(h) == StartDrive(h) \/ EndDrive(h) \/ HearDrive(h) \/ StartCharge(h) \/ EndCharge(h) \/ HearCharge(h)
Boot == RecoverSessions \/ ValidateRecoveredSessions \/ RecoverIncompleteSessions \/ StartCleanup

Next ==
    \/ \E h \in Handlers, m \in Kinds, l \in 0 .. MaxLag : Receive(h, m, l)
    \/ \E h \in Handlers : Handle(h)
    \/ Cleanup \/ Boot \/ Crash \/ Tick

Spec == Init /\ [][Next]_vars

\* Deliveries return, the start goes through, the ticker ticks and time passes.
\* Payloads, failures and crashes need not come.
FairSpec == /\ Spec
            /\ \A h \in Handlers : WF_vars(Handle(h))
            /\ WF_vars(Boot) /\ WF_vars(Cleanup) /\ SF_vars(Tick)
-----------------------------------------------------------------------------
Row == [state : {"none", "open", "ended"}, start : 0 .. StartCap, end : 0 .. LogCap]
Rows(ids) == [ids -> Row]
DriveSession  == [id : Drives \cup {None}, start : 0 .. StartCap, seen : 0 .. SeenCap,
                  zero : Unset .. ZeroCap]
ChargeSession == [id : Charges \cup {None}, start : 0 .. StartCap, seen : 0 .. SeenCap]

\* Types of the tables and of the tracker: no time of a row or a session is unset.
TypeOK ==
    /\ drives \in Rows(Drives) /\ charges \in Rows(Charges)
    /\ drive \in DriveSession /\ charging \in ChargeSession
    /\ gear \in Gears /\ charged \in BOOLEAN
    /\ pc \in [Handlers -> {"idle", "drives", "charges"}]
    /\ msg \in [Handlers -> Payload] /\ lag \in [Handlers -> 0 .. MaxLag]
    /\ phase \in {"down", "recovered", "validated", "completed", "up"}
    /\ faults \in 0 .. MaxFaults

\* Rows that are open while the tracker does not track them.
OrphanDrives  == {d \in Drives : IsOpen(drives, d) /\ drive.id # d}
OrphanCharges == {c \in Charges : IsOpen(charges, c) /\ charging.id # c}

\* A row that is open in the database is the tracked session's, except for at most one
\* row of each kind per crash or failed statement: no start, merge, end, sweep or
\* recovery loses track of a row by itself.
OrphansBounded == Cardinality(OrphanDrives) <= faults /\ Cardinality(OrphanCharges) <= faults

\* The start a tracked session is completed with is that of its row, also after a
\* merge and after a recovery, and the row is there: what completion writes spans
\* the whole trip.
CanonicalStart ==
    /\ drive.id # None => drives[drive.id].state # "none" /\ drives[drive.id].start = drive.start
    /\ charging.id # None => charges[charging.id].state # "none" /\ charges[charging.id].start = charging.start

\* A drive that starts completes the tracked charge: one tracked next to a drive
\* began after it, up to the disorder of their payloads.
OverlapIsLate ==
    phase = "up" /\ drive.id # None /\ charging.id # None => charging.start <= drive.start + MaxLag

\* Once crashes and failures are over the sweep and the recovery close what they left
\* open: in the end every open row is tracked.
OrphansClose == <>[](OrphanDrives = {} /\ OrphanCharges = {})

\* A drive the vehicle is silent about does not stay open in memory: the sweep ends it.
SilentDriveEnds == drive.id # None /\ drive.seen > Stale ~> drive.id = None \/ drive.seen = 0
=============================================================================
