----------------------------- MODULE VehicleFSM -----------------------------
(***************************************************************************)
(* The vehicle state machine of internal/fsm (VehicleFSM) under the        *)
(* handler of internal/api/vehiclefsm, for one vehicle.                    *)
(*                                                                         *)
(* Three kinds of goroutine drive it: MQTT message handlers (paho fans out *)
(* one goroutine per message), the reconciliation loop and the clean-up    *)
(* loop that times silent vehicles out. Most methods of VehicleFSM hold    *)
(* its mutex; CheckPending does not, and commits without it.               *)
(*                                                                         *)
(* Ages count ticks since an event and stop growing where no comparison    *)
(* can tell them apart, so no clock has to be bounded.                     *)
(***************************************************************************)
EXTENDS Integers, Sequences

CONSTANTS Handlers,      \* goroutines that handle MQTT messages
          Reconcilers,   \* the goroutine of StartReconcileLoop, if any
          Cleaners,      \* the telemetry-cleanup goroutine, if any
          NoActor,       \* "the mutex is free"
          Batches,       \* the signal batches that may arrive
          InitialStores, \* what the signal store may hold after a restart
          Confirm,       \* StateConfirmDuration, in ticks
          Silence,       \* 3 * staleTimeout, in ticks
          MaxLag,        \* bound: how old a batch may be when it arrives
          MaxAge         \* bound: how old a batch may get while it is handled

Actors == Handlers \cup Reconcilers \cup Cleaners

States == {"online", "driving", "charging", "parked", "asleep", "offline"}

\* A batch, and the signal store, map each field the machine reads to a value;
\* "none" is a field that is absent. R counts as D, and N as any other gear.
Fields == {"gear", "charge", "amps", "speed"}
Values == [gear   |-> {"none", "D", "P", "N"},
           charge |-> {"none", "on", "off"},
           amps   |-> {"none", "high", "low"},
           speed  |-> {"none", "moving", "zero"}]
Signals == [gear : Values.gear, charge : Values.charge,
            amps : Values.amps, speed : Values.speed]

ASSUME VehicleAssumption ==
    /\ NoActor \notin Actors
    /\ Handlers \cap Reconcilers = {}
    /\ Handlers \cap Cleaners = {}
    /\ Reconcilers \cap Cleaners = {}
    /\ Batches \subseteq Signals
    /\ InitialStores \subseteq Signals
    /\ Confirm \in Nat \ {0}
    /\ Silence \in Nat \ {0}
    /\ MaxLag \in Nat
    /\ MaxAge \in Nat
    /\ MaxLag <= MaxAge

VARIABLES
    \* VehicleFSM
    current,      \* committed state
    pending,      \* age of the pending Parked transition, or NoPending
    gearCapable,  \* a Gear signal has been seen
    mu,           \* holder of the machine's mutex
    \* Handler
    exists,       \* getOrCreate has made the machine
    drive,        \* a drive sub-FSM is registered
    charge,       \* a charge sub-FSM is registered
    newer,        \* the store has a signal stamped after lastProcessed
    store,        \* last value of every field in the signal store
    silence,      \* ticks since the VIN last streamed, or NotStreaming
    \* goroutines
    pc, batch,
    age,          \* ticks since the batch's payload timestamp
    todo,         \* triggers still to be tried
    edge,         \* <<from, to>> of the transition being committed
    resume,       \* where to go on when the mutex has been released
    \* history
    moved         \* age of the newest driving evidence the machine has seen

machine  == <<current, pending, gearCapable, mu>>
subFsms  == <<drive, charge>>
job      == <<batch, age, todo, edge, resume>>
vars     == <<machine, exists, subFsms, newer, store, silence, pc, job, moved>>

NoPending == -1
NotStreaming == -1
NoSignals == [gear |-> "none", charge |-> "none", amps |-> "none", speed |-> "none"]
NoEdge == <<"online", "online">>
MaxSince == Confirm + MaxAge

Init ==
    /\ current = "online" /\ pending = NoPending /\ gearCapable = FALSE /\ mu = NoActor
    /\ exists = FALSE /\ drive = FALSE /\ charge = FALSE
    /\ newer = TRUE /\ silence = NotStreaming
    /\ store \in InitialStores
    /\ pc = [a \in Actors |-> "idle"]
    /\ batch = [a \in Actors |-> NoSignals]
    /\ age = [a \in Actors |-> 0]
    /\ todo = [a \in Actors |-> <<>>]
    /\ edge = [a \in Actors |-> NoEdge]
    /\ resume = [a \in Actors |-> "idle"]
    /\ moved = Confirm

\* Another process takes over: Init again, with the store hydrated from Redis.
NewProcess ==
    /\ current' = "online" /\ pending' = NoPending /\ gearCapable' = FALSE /\ mu' = NoActor
    /\ exists' = FALSE /\ drive' = FALSE /\ charge' = FALSE
    /\ newer' = TRUE /\ silence' = NotStreaming
    /\ store' = store
    /\ pc' = [a \in Actors |-> "idle"]
    /\ batch' = [a \in Actors |-> NoSignals]
    /\ age' = [a \in Actors |-> 0]
    /\ todo' = [a \in Actors |-> <<>>]
    /\ edge' = [a \in Actors |-> NoEdge]
    /\ resume' = [a \in Actors |-> "idle"]
    /\ moved' = Confirm

-----------------------------------------------------------------------------
\* What the machine derives from a batch.
IsCharging(b) == b.charge = "on" \/ b.amps = "high"
Contradicts(b) == b.gear = "D" \/ b.speed = "moving"

GearTriggers(b) ==
    CASE b.gear = "D" -> <<"GearDriving">>
      [] b.gear = "P" -> IF IsCharging(b) THEN <<"ChargeStarted">> ELSE <<"GearParked">>
      [] OTHER -> <<>>
ChargeTriggers(b) ==
    IF b.charge = "none" THEN <<>>
    ELSE IF IsCharging(b) THEN <<"ChargeStarted">> ELSE <<"ChargeEnded">>
SpeedTriggers(b, capable) ==
    IF ~capable /\ b.speed = "moving" THEN <<"SpeedDetected">> ELSE <<>>

\* DetectTriggers, in priority order. WasMoving is never set by any caller, so
\* TriggerSpeedZero is never produced; nor is TriggerActivityDetected.
DetectTriggers(b, capable) == GearTriggers(b) \o ChargeTriggers(b) \o SpeedTriggers(b, capable)

\* TransitionTable, by trigger: the states it leaves, and the one it enters.
\* Left out are the rows of the two triggers above and Parked -> Offline, whose
\* guard looks for another current state; GuardNoCharge holds whenever
\* DetectTriggers says GearParked.
Targets == [
    GearDriving    |-> [from |-> {"online", "charging", "parked"}, to |-> "driving"],
    SpeedDetected  |-> [from |-> {"online", "parked"}, to |-> "driving"],
    ChargeStarted  |-> [from |-> {"online", "driving", "parked"}, to |-> "charging"],
    ChargeEnded    |-> [from |-> {"charging"}, to |-> "parked"],
    GearParked     |-> [from |-> {"online", "driving"}, to |-> "parked"],
    SignalReceived |-> [from |-> {"asleep", "offline"}, to |-> "online"]]
Triggers == DOMAIN Targets \cup {"Timeout"}
Debounced == {"GearParked"}

\* The transitions of the table for a trigger.
Edges(trigger) ==
    IF trigger = "Timeout"
    THEN ({"online", "parked"} \X {"asleep"}) \cup ({"driving", "charging"} \X {"offline"})
    ELSE Targets[trigger].from \X {Targets[trigger].to}

\* All rows, those that are never reached included.
TableRows == (UNION {Edges(t) : t \in Triggers}) \cup
             {<<"driving", "online">>, <<"parked", "online">>, <<"parked", "offline">>}

\* Seeded fault: a timeout is not looked up for the state the vehicle is in.
FoundFault(a) == {e \in Edges(Head(todo[a])) : e[1] = current \/ Head(todo[a]) = "Timeout"}

\* LookupTransition for the first trigger an actor has to try.
Found(a) == {e \in Edges(Head(todo[a])) : e[1] = current}

\* The reconciler calls the machine with wall-clock time, the others with the
\* payload timestamp.
AgeOf(a) == IF a \in Reconcilers THEN 0 ELSE age[a]
Confirmed(a) == pending - AgeOf(a) >= Confirm

MinOf(m, n) == IF m < n THEN m ELSE n
Goto(a, label) == pc' = [pc EXCEPT ![a] = label]
Idle(a) ==
    /\ Goto(a, "idle")
    /\ batch' = [batch EXCEPT ![a] = NoSignals]
    /\ age' = [age EXCEPT ![a] = 0]
Free == mu = NoActor

-----------------------------------------------------------------------------
\* A message arrives: OnPayloadProcessed updates the live store, then calls
\* Handler.ProcessSignalsAt, which makes the machine if need be.
Known(signals) == {f \in Fields : signals[f] # "none"}
Latest(old, new) == IF new = "none" THEN old ELSE new
Merge(old, new) ==
    [gear |-> Latest(old.gear, new.gear), charge |-> Latest(old.charge, new.charge),
     amps |-> Latest(old.amps, new.amps), speed |-> Latest(old.speed, new.speed)]

Receive(h, b, lag) ==
    /\ pc[h] = "idle"
    /\ store' = Merge(store, b)
    /\ newer' = (newer \/ Known(b) # {})
    /\ exists' = TRUE
    /\ batch' = [batch EXCEPT ![h] = b]
    /\ age' = [age EXCEPT ![h] = lag]
    /\ Goto(h, "wake")
    /\ UNCHANGED <<machine, subFsms, silence, todo, edge, resume, moved>>

\* Current() and, for a sleeping vehicle, HandleSignalReceived.
Wake(a) ==
    /\ pc[a] = "wake" /\ Free
    /\ IF current \in Targets.SignalReceived.from
       THEN /\ mu' = a
            /\ todo' = [todo EXCEPT ![a] = <<"SignalReceived">>]
            /\ resume' = [resume EXCEPT ![a] = "signals"]
            /\ Goto(a, "fire")
       ELSE /\ Goto(a, "signals")
            /\ UNCHANGED <<mu, todo, resume>>
    /\ UNCHANGED <<current, pending, gearCapable, exists, subFsms, newer, store, silence,
                   batch, age, edge, moved>>

\* ProcessSignalsAt up to its loop over the triggers: the flag, the
\* cancellation of a contradicted Park, the triggers.
\* Seeded fault: nothing cancels it.
CancelParkNeverFault(b) == pending

CancelPark(b) == IF Contradicts(b) THEN NoPending ELSE pending

\* Seeded fault: the triggers are detected before the flag is set.
BeginOldFlagFault(a) ==
    LET b == batch[a]
    IN  /\ pc[a] = "signals" /\ Free
        /\ mu' = a
        /\ gearCapable' = (gearCapable \/ b.gear # "none")
        /\ pending' = CancelPark(b)
        /\ todo' = [todo EXCEPT ![a] = DetectTriggers(b, gearCapable)]
        /\ resume' = [resume EXCEPT ![a] = "look"]
        /\ moved' = IF Contradicts(b) THEN MinOf(moved, AgeOf(a)) ELSE moved
        /\ Goto(a, "fire")
        /\ UNCHANGED <<current, exists, subFsms, newer, store, silence, batch, age, edge>>

Begin(a) ==
    LET b       == batch[a]
        capable == gearCapable \/ b.gear # "none"
    IN  /\ pc[a] = "signals" /\ Free
        /\ mu' = a
        /\ gearCapable' = capable
        /\ pending' = CancelPark(b)
        /\ todo' = [todo EXCEPT ![a] = DetectTriggers(b, capable)]
        /\ resume' = [resume EXCEPT ![a] = "look"]
        /\ moved' = IF Contradicts(b) THEN MinOf(moved, AgeOf(a)) ELSE moved
        /\ Goto(a, "fire")
        /\ UNCHANGED <<current, exists, subFsms, newer, store, silence, batch, age, edge>>

\* One turn of the loop: tryTransition for the next trigger.
NextTrigger(a) == todo' = [todo EXCEPT ![a] = Tail(@)]

NoTransition(a) ==
    /\ pc[a] = "fire" /\ todo[a] # <<>> /\ Found(a) = {}
    /\ NextTrigger(a)
    /\ UNCHANGED <<machine, exists, subFsms, newer, store, silence, pc, batch, age, edge, resume, moved>>

\* handleDebounced: arm, or wait, or drop what has been confirmed.
Debounce(a) ==
    /\ pc[a] = "fire" /\ todo[a] # <<>> /\ Found(a) # {}
    /\ Head(todo[a]) \in Debounced
    /\ pending' = IF pending = NoPending THEN AgeOf(a)
                  ELSE IF Confirmed(a) THEN NoPending ELSE pending
    /\ NextTrigger(a)
    /\ UNCHANGED <<current, gearCapable, mu, exists, subFsms, newer, store, silence, pc,
                   batch, age, edge, resume, moved>>

\* commit, up to the insert into fsm_transitions.
Fire(a) ==
    /\ pc[a] = "fire" /\ todo[a] # <<>>
    /\ Head(todo[a]) \notin Debounced
    /\ \E e \in Found(a) : edge' = [edge EXCEPT ![a] = e]
    /\ NextTrigger(a)
    /\ Goto(a, "execute")
    /\ UNCHANGED <<machine, exists, subFsms, newer, store, silence, batch, age, resume, moved>>

\* Seeded fault: an exit that forgets to release the mutex.
UnlockForgottenFault(a) ==
    /\ pc[a] = "fire" /\ todo[a] = <<>>
    /\ Goto(a, resume[a])
    /\ resume' = [resume EXCEPT ![a] = "idle"]
    /\ UNCHANGED <<machine, exists, subFsms, newer, store, silence,
                   batch, age, todo, edge, moved>>

Unlock(a) ==
    /\ pc[a] = "fire" /\ todo[a] = <<>>
    /\ mu' = NoActor
    /\ Goto(a, resume[a])
    /\ resume' = [resume EXCEPT ![a] = "idle"]
    /\ UNCHANGED <<current, pending, gearCapable, exists, subFsms, newer, store, silence,
                   batch, age, todo, edge, moved>>

\* fsmAction.Execute: manageSubFSMs, under the handler's own mutex.
Opens(e, s)  == e[2] = s /\ e[1] # s
Closes(e, s) == e[1] = s /\ e[2] # s

\* Seeded fault: leaving a state does not close its sub-FSM.
ExecuteLeavesOpenFault(a) ==
    LET e == edge[a] IN
    /\ pc[a] = "execute"
    /\ drive' = (Opens(e, "driving") \/ (drive /\ ~Opens(e, "charging")))
    /\ charge' = (Opens(e, "charging") \/ (charge /\ ~Opens(e, "driving")))
    /\ Goto(a, "assign")
    /\ UNCHANGED <<machine, exists, newer, store, silence, job, moved>>

\* Seeded fault: the session of the other kind is not force-completed.
ExecuteNoForceFault(a) ==
    LET e == edge[a] IN
    /\ pc[a] = "execute"
    /\ drive' = (Opens(e, "driving") \/ (drive /\ ~Closes(e, "driving")))
    /\ charge' = (Opens(e, "charging") \/ (charge /\ ~Closes(e, "charging")))
    /\ Goto(a, "assign")
    /\ UNCHANGED <<machine, exists, newer, store, silence, job, moved>>

Execute(a) ==
    LET e == edge[a] IN
    /\ pc[a] = "execute"
    /\ drive' = (Opens(e, "driving")
                 \/ (drive /\ ~Closes(e, "driving") /\ ~Opens(e, "charging")))
    /\ charge' = (Opens(e, "charging")
                  \/ (charge /\ ~Closes(e, "charging") /\ ~Opens(e, "driving")))
    /\ Goto(a, "assign")
    /\ UNCHANGED <<machine, exists, newer, store, silence, job, moved>>

\* The end of commit; CheckPending gets here without the mutex.
Assign(a) ==
    /\ pc[a] = "assign"
    /\ current' = edge[a][2]
    /\ pending' = NoPending
    /\ edge' = [edge EXCEPT ![a] = NoEdge]
    /\ Goto(a, IF mu = a THEN "fire" ELSE "finish")
    /\ UNCHANGED <<gearCapable, mu, exists, subFsms, newer, store, silence,
                   batch, age, todo, resume, moved>>

\* CheckPending, without the mutex: the test for nil is one step, all that it
\* does with the pending transition up to the call of commit another.
Look(a) ==
    /\ pc[a] = "look"
    /\ Goto(a, IF pending = NoPending THEN "finish" ELSE "take")
    /\ UNCHANGED <<machine, exists, subFsms, newer, store, silence, job, moved>>

Take(a) ==
    /\ pc[a] = "take" /\ pending # NoPending
    /\ IF Confirmed(a)
       THEN /\ pending' = NoPending
            /\ edge' = [edge EXCEPT ![a] = <<current, "parked">>]
            /\ Goto(a, "execute")
       ELSE /\ Goto(a, "finish")
            /\ UNCHANGED <<pending, edge>>
    /\ UNCHANGED <<current, gearCapable, mu, exists, subFsms, newer, store, silence,
                   batch, age, todo, resume, moved>>

\* pending has become nil since the test: the dereference panics. The pipeline
\* recovers a handler's panic and the message is acknowledged all the same; a
\* panic in the reconciliation loop ends the process.
Panic(a) ==
    /\ pc[a] = "take" /\ pending = NoPending
    /\ IF a \in Reconcilers
       THEN NewProcess
       ELSE /\ silence' = 0
            /\ Idle(a)
            /\ UNCHANGED <<machine, exists, subFsms, newer, store, todo, edge, resume, moved>>

\* The end of Handler.ProcessSignalsAt: lastProcessed, and for a message the
\* streaming recorder.
Finish(a) ==
    /\ pc[a] = "finish"
    /\ newer' = FALSE
    /\ silence' = IF a \in Handlers THEN 0 ELSE silence
    /\ Idle(a)
    /\ UNCHANGED <<machine, exists, subFsms, store, todo, edge, resume, moved>>

-----------------------------------------------------------------------------
\* DeriveExpectedState on the fields that are no older than
\* SignalFreshnessThreshold, where its confidence is medium or high.
ChargingNow(fresh) ==
    \/ "charge" \in fresh /\ store.charge = "on"
    \/ "amps" \in fresh /\ store.amps = "high"
GearNow(fresh) == IF "gear" \in fresh THEN store.gear ELSE "none"

Expected(fresh) ==
    CASE GearNow(fresh) = "D" -> {"driving"}
      [] GearNow(fresh) # "D" /\ ChargingNow(fresh) -> {"charging"}
      [] GearNow(fresh) = "P" /\ ~ChargingNow(fresh) -> {"parked"}
      [] OTHER -> {}

\* reconcileVehicle: replays the whole store, stale fields included, when the
\* state is not the expected one and the store is newer than lastProcessed.
Reconcile(r) ==
    /\ pc[r] = "idle" /\ Free
    /\ exists /\ newer
    /\ \E fresh \in SUBSET Known(store) : \E s \in Expected(fresh) : current # s
    /\ batch' = [batch EXCEPT ![r] = store]
    /\ Goto(r, "wake")
    /\ UNCHANGED <<machine, exists, subFsms, newer, store, silence, age, todo, edge, resume, moved>>

\* cleanupStaleEntries: the VIN's streaming entry goes first, the timeout is
\* dispatched after the vehicle id has been looked up in the database, and not
\* at all if that fails.
Collect(c) ==
    /\ pc[c] = "idle"
    /\ silence = Silence
    /\ silence' = NotStreaming
    /\ pc' \in {pc, [pc EXCEPT ![c] = "timeout"]}
    /\ UNCHANGED <<machine, exists, subFsms, newer, store, job, moved>>

\* Handler.HandleTimeout.
TimeOut(c) ==
    /\ pc[c] = "timeout" /\ Free
    /\ mu' = c
    /\ exists' = TRUE
    /\ todo' = [todo EXCEPT ![c] = <<"Timeout">>]
    /\ resume' = [resume EXCEPT ![c] = "idle"]
    /\ Goto(c, "fire")
    /\ UNCHANGED <<current, pending, gearCapable, subFsms, newer, store, silence,
                   batch, age, edge, moved>>

\* The pod restarts, and its signal store is hydrated with what it knew.
Restart == exists /\ NewProcess

\* One tick. A batch in the making is never older than MaxAge.
AgeUp(n, top) == IF n >= 0 /\ n < top THEN n + 1 ELSE n

Tick ==
    /\ \A h \in Handlers : pc[h] # "idle" => age[h] < MaxAge
    /\ pending' = AgeUp(pending, MaxSince)
    /\ silence' = AgeUp(silence, Silence)
    /\ moved' = AgeUp(moved, Confirm)
    /\ age' = [a \in Actors |-> IF pc[a] = "idle" THEN age[a] ELSE AgeUp(age[a], MaxAge)]
    /\ UNCHANGED <<current, gearCapable, mu, exists, subFsms, newer, store, pc,
                   batch, todo, edge, resume>>

Step(a) ==
    \/ Wake(a) \/ Begin(a) \/ NoTransition(a) \/ Debounce(a) \/ Fire(a) \/ Unlock(a)
    \/ Execute(a) \/ Assign(a) \/ Look(a) \/ Take(a) \/ Panic(a) \/ Finish(a)

Next ==
    \/ \E h \in Handlers, b \in Batches, lag \in 0..MaxLag : Receive(h, b, lag)
    \/ \E a \in Actors : Step(a)
    \/ \E r \in Reconcilers : Reconcile(r)
    \/ \E c \in Cleaners : Collect(c) \/ TimeOut(c)
    \/ Restart
    \/ Tick

Spec == Init /\ [][Next]_vars

-----------------------------------------------------------------------------
Labels == {"idle", "wake", "signals", "fire", "execute", "assign", "look", "take",
           "finish", "timeout"}

\* The values of every variable, and who may hold the mutex.
TypeOK ==
    /\ current \in States
    /\ pending \in NoPending..MaxSince
    /\ gearCapable \in BOOLEAN /\ exists \in BOOLEAN /\ newer \in BOOLEAN
    /\ drive \in BOOLEAN /\ charge \in BOOLEAN
    /\ mu \in Actors \cup {NoActor}
    /\ store \in Signals
    /\ silence \in NotStreaming..Silence
    /\ pc \in [Actors -> Labels]
    /\ batch \in [Actors -> Signals]
    /\ age \in [Actors -> 0..MaxAge]
    /\ todo \in [Actors -> Seq(Triggers)]
    /\ edge \in [Actors -> States \X States]
    /\ resume \in [Actors -> Labels]
    /\ moved \in 0..Confirm
    /\ mu # NoActor => pc[mu] \in {"fire", "execute", "assign"}

\* Between two calls the sub-FSMs registered for the vehicle are those its
\* state calls for: manageSubFSMs runs before the state is assigned, and a
\* commit that overtakes another can leave a session without a state.
Quiet == \A a \in Actors : pc[a] = "idle"
SubFsmsFollowState ==
    Quiet => /\ drive <=> current = "driving"
             /\ charge <=> current = "charging"

\* A drive and a charge sub-FSM are never registered together, however the
\* commits interleave: that is what the two force-completions of manageSubFSMs
\* add to closing the sub-FSM of the state that is left.
OneSession == ~(drive /\ charge)

\* A vehicle that has ever sent its gear is never again driven by its speed
\* (DetectTriggers: "Speed-based triggers are ONLY produced for vehicles that
\* have NEVER received a Gear signal"), not even by a trigger that another
\* goroutine has already detected.
SpeedFallbackOff ==
    gearCapable => \A a \in Actors : \A i \in DOMAIN todo[a] : todo[a][i] # "SpeedDetected"

\* A drive does not end in Parked unless the machine has seen no evidence of driving for
\* StateConfirmDuration of payload time, less what a payload may be late: a Park frame from
\* before the evidence can arm the transition after it.
ParkIsConfirmed ==
    [][current = "driving" /\ current' = "parked" => moved + MaxLag >= Confirm]_vars

\* The state changes by the rows of TransitionTable, but for Parked, which CheckPending
\* commits without the mutex and without looking it up: a commit it overtakes starts from
\* Parked instead of the state it was looked up for, and Parked has a row to every state.
TableIsKept ==
    [][current' \in {current, "parked"} \/ ~exists' \/ <<current, current'>> \in TableRows]_vars

\* A pending Park goes away only when driving evidence cancels it, when a
\* transition is committed or with the process: a second matching signal
\* confirms it ("promote to a real transition and commit").
Committing(a) == pc[a] = "take" \/ pc[a] = "assign"
ParkIsKept ==
    [][pending # NoPending /\ pending' = NoPending =>
        \/ \E a \in Actors : pc[a] = "signals" /\ Contradicts(batch[a]) /\ mu' = a
        \/ \E a \in Actors : Committing(a) /\ pc'[a] # pc[a]
        \/ ~exists']_vars
=============================================================================
