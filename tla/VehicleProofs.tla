--------------------------- MODULE VehicleProofs ---------------------------
(***************************************************************************)
(* Theorems about VehicleFSM. The first three hold for any number of       *)
(* handlers, reconcilers and cleaners, and so does the last; the two about *)
(* Sequential are for messages handled one at a time, with no reconciler.   *)
(***************************************************************************)
EXTENDS VehicleFSM, TLAPS

\* Who runs the loop over the triggers holds the mutex, nobody else has
\* triggers left, and the loop is not where a goroutine goes on after it.
LockHeld ==
    \A a \in Actors : /\ pc[a] = "fire" => mu = a
                      /\ todo[a] # <<>> => mu = a
                      /\ resume[a] \in {"idle", "signals", "look"}

IInv == TypeOK /\ LockHeld /\ SpeedFallbackOff

-----------------------------------------------------------------------------
\* What DetectTriggers returns.
LEMMA DetectTyped ==
    ASSUME NEW b \in Signals, NEW c \in BOOLEAN
    PROVE  /\ DetectTriggers(b, c) \in Seq(Triggers)
           /\ c => \A i \in DOMAIN DetectTriggers(b, c) : DetectTriggers(b, c)[i] # "SpeedDetected"
<1> DEFINE g == GearTriggers(b)
           k == ChargeTriggers(b)
           s == SpeedTriggers(b, c)
           Slow == Triggers \ {"SpeedDetected"}
<1>1. Triggers = {"GearDriving", "SpeedDetected", "ChargeStarted", "ChargeEnded",
                  "GearParked", "SignalReceived", "Timeout"}
    BY DEF Triggers, Targets
<1>2. g = <<>> \/ g = <<"GearDriving">> \/ g = <<"ChargeStarted">> \/ g = <<"GearParked">>
    BY DEF GearTriggers
<1>3. k = <<>> \/ k = <<"ChargeStarted">> \/ k = <<"ChargeEnded">>
    BY DEF ChargeTriggers
<1>4. s = <<>> \/ (s = <<"SpeedDetected">> /\ ~c)
    BY DEF SpeedTriggers
<1>5. DetectTriggers(b, c) = (g \o k) \o s
    BY DEF DetectTriggers
<1> HIDE DEF g, k, s
<1>6. <<>> \in Seq(Slow) /\ \A t \in Slow : <<t>> \in Seq(Slow)
    OBVIOUS
<1>7. g \in Seq(Slow) /\ k \in Seq(Slow)
    BY <1>1, <1>2, <1>3, <1>6, Zenon
<1>8. s \in Seq(Triggers) /\ (c => s = <<>>)
  <2>1. CASE s = <<>>
    BY <2>1
  <2>2. CASE s = <<"SpeedDetected">> /\ ~c
    BY <1>1, <2>2
  <2> QED
    BY <1>4, <2>1, <2>2
<1>9. g \o k \in Seq(Slow)
    BY <1>7
<1>10. g \o k \in Seq(Triggers) /\ \A i \in DOMAIN (g \o k) : (g \o k)[i] # "SpeedDetected"
    BY <1>9
<1>11. (g \o k) \o s \in Seq(Triggers)
    BY <1>8, <1>10
<1>12. g \o k = (g \o k) \o <<>>
    BY <1>10
<1> QED
    BY <1>5, <1>8, <1>10, <1>11, <1>12

LEMMA EdgesTyped ==
    \A t \in Triggers : Edges(t) \subseteq States \X States
BY DEF Edges, Triggers, Targets, States

LEMMA MergeTyped ==
    \A old, new \in Signals : Merge(old, new) \in Signals
BY DEF Merge, Latest, Signals, Values

LEMMA NoSignalsTyped == NoSignals \in Signals
BY DEF NoSignals, Signals, Values

LEMMA FreshStart == \* Init and NewProcess assign the same values
    /\ NoEdge \in States \X States
    /\ "idle" \in Labels
    /\ <<>> \in Seq(Triggers)
    /\ MaxSince \in Nat
BY VehicleAssumption DEF NoEdge, States, Labels, MaxSince

LEMMA InitInv == Init => IInv
<1> SUFFICES ASSUME Init PROVE IInv
    OBVIOUS
<1> USE VehicleAssumption, NoSignalsTyped, FreshStart DEF Init, TypeOK, NoPending, NotStreaming
<1>1. TypeOK
  <2>1. /\ pc \in [Actors -> Labels] /\ resume \in [Actors -> Labels]
        /\ edge \in [Actors -> States \X States]
    OBVIOUS
  <2>2. /\ batch \in [Actors -> Signals] /\ age \in [Actors -> 0..MaxAge]
        /\ todo \in [Actors -> Seq(Triggers)]
    OBVIOUS
  <2>3. /\ current \in States /\ pending \in NoPending..MaxSince
        /\ silence \in NotStreaming..Silence /\ moved \in 0..Confirm
    BY DEF States
  <2> QED
    BY <2>1, <2>2, <2>3
<1>2. LockHeld /\ SpeedFallbackOff
    BY VehicleAssumption DEF Init, LockHeld, SpeedFallbackOff
<1> QED
    BY <1>1, <1>2 DEF IInv

-----------------------------------------------------------------------------
(* Type correctness.                                                        *)

LEMMA TypeStep == IInv /\ [Next]_vars => TypeOK'
<1> SUFFICES ASSUME IInv, [Next]_vars PROVE TypeOK'
    OBVIOUS
<1> USE VehicleAssumption, NoSignalsTyped, FreshStart
    DEF IInv, TypeOK, machine, subFsms, job, Goto, Idle, Free, NoPending, NotStreaming
<1>1. ASSUME NEW h \in Handlers, NEW b \in Batches, NEW lag \in 0..MaxLag, Receive(h, b, lag)
      PROVE TypeOK'
    BY <1>1, MergeTyped DEF Receive, Actors, Labels
<1>2. ASSUME NEW a \in Actors, Wake(a) PROVE TypeOK'
  <2>1. todo' \in [Actors -> Seq(Triggers)]
    <3>1. "SignalReceived" \in Triggers
      BY DEF Triggers, Targets
    <3>2. <<"SignalReceived">> \in Seq(Triggers)
      BY <3>1
    <3> QED
      BY <1>2, <3>2 DEF Wake
  <2>2. pc' \in [Actors -> Labels] /\ resume' \in [Actors -> Labels] /\ mu' \in Actors \cup {NoActor}
    BY <1>2 DEF Wake, Labels
  <2>3. (mu # NoActor => pc[mu] \in {"fire", "execute", "assign"})'
    BY <1>2 DEF Wake
  <2> QED
    BY <1>2, <2>1, <2>2, <2>3 DEF Wake
<1>3. ASSUME NEW a \in Actors, Begin(a) PROVE TypeOK'
  <2>1. todo' \in [Actors -> Seq(Triggers)]
    BY <1>3, DetectTyped DEF Begin
  <2>2. moved' \in 0..Confirm
    BY <1>3 DEF Begin, MinOf, AgeOf
  <2>3. pending' \in NoPending..MaxSince
    BY <1>3 DEF Begin, CancelPark
  <2>4. gearCapable' \in BOOLEAN
    BY <1>3 DEF Begin
  <2>5. pc' \in [Actors -> Labels] /\ resume' \in [Actors -> Labels] /\ mu' \in Actors \cup {NoActor}
    BY <1>3 DEF Begin, Labels
  <2>6. (mu # NoActor => pc[mu] \in {"fire", "execute", "assign"})'
    BY <1>3 DEF Begin
  <2> QED
    BY <1>3, <2>1, <2>2, <2>3, <2>4, <2>5, <2>6 DEF Begin
<1>4. ASSUME NEW a \in Actors, NoTransition(a) PROVE TypeOK'
    BY <1>4 DEF NoTransition, NextTrigger
<1>5. ASSUME NEW a \in Actors, Debounce(a) PROVE TypeOK'
    BY <1>5 DEF Debounce, NextTrigger, AgeOf, MaxSince
<1>6. ASSUME NEW a \in Actors, Fire(a) PROVE TypeOK'
    BY <1>6, EdgesTyped DEF Fire, NextTrigger, Found, Labels
<1>7. ASSUME NEW a \in Actors, Unlock(a) PROVE TypeOK'
    BY <1>7 DEF Unlock
<1>8. ASSUME NEW a \in Actors, Execute(a) PROVE TypeOK'
    BY <1>8 DEF Execute, Opens, Closes, Labels
<1>9. ASSUME NEW a \in Actors, Assign(a) PROVE TypeOK'
    BY <1>9 DEF Assign, Labels
<1>10. ASSUME NEW a \in Actors, Look(a) PROVE TypeOK'
    BY <1>10 DEF Look, Labels
<1>11. ASSUME NEW a \in Actors, Take(a) PROVE TypeOK'
  <2>1. (mu # NoActor => pc[mu] \in {"fire", "execute", "assign"})'
    BY <1>11 DEF Take, States, Labels
  <2>2. edge' \in [Actors -> States \X States]
    <3>1. <<current, "parked">> \in States \X States
      BY DEF States
    <3> QED
      BY <1>11, <3>1 DEF Take
  <2>3. pending' \in NoPending..MaxSince
    <3>1. pending' = -1 \/ pending' = pending
      BY <1>11 DEF Take
    <3> QED
      BY <3>1
  <2>4. pc' \in [Actors -> Labels]
    <3>1. "execute" \in Labels /\ "finish" \in Labels
      BY DEF Labels
    <3>2. pc' = [pc EXCEPT ![a] = "execute"] \/ pc' = [pc EXCEPT ![a] = "finish"]
      BY <1>11 DEF Take
    <3> QED
      BY <3>1, <3>2
  <2> QED
    BY <1>11, <2>1, <2>2, <2>3, <2>4 DEF Take
<1>12. ASSUME NewProcess PROVE TypeOK'
  <2>1. /\ pc' \in [Actors -> Labels] /\ resume' \in [Actors -> Labels]
        /\ edge' \in [Actors -> States \X States]
    BY <1>12 DEF NewProcess
  <2>2. /\ batch' \in [Actors -> Signals] /\ age' \in [Actors -> 0..MaxAge]
        /\ todo' \in [Actors -> Seq(Triggers)]
    BY <1>12 DEF NewProcess
  <2>3. /\ current' \in States /\ pending' \in NoPending..MaxSince
        /\ silence' \in NotStreaming..Silence /\ moved' \in 0..Confirm
    BY <1>12 DEF NewProcess, States
  <2> QED
    BY <1>12, <2>1, <2>2, <2>3 DEF NewProcess
<1>13. ASSUME NEW a \in Actors, Panic(a) PROVE TypeOK'
  <2>1. CASE a \in Reconcilers
    BY <1>12, <1>13, <2>1, Zenon DEF Panic
  <2>2. CASE a \notin Reconcilers
    <3>1. /\ pc[a] = "take" /\ silence' = 0 /\ Idle(a)
          /\ UNCHANGED <<machine, exists, subFsms, newer, store, todo, edge, resume, moved>>
      BY <1>13, <2>2, Zenon DEF Panic
    <3>2. silence' \in NotStreaming..Silence
      BY <3>1
    <3>3. batch' \in [Actors -> Signals]
      BY <3>1
    <3>4. age' \in [Actors -> 0..MaxAge]
      BY <3>1
    <3>5. pc' \in [Actors -> Labels]
      BY <3>1
    <3>6. (mu # NoActor => pc[mu] \in {"fire", "execute", "assign"})'
      BY <3>1
    <3> QED
      BY <3>1, <3>2, <3>3, <3>4, <3>5, <3>6
  <2> QED
    BY <2>1, <2>2
<1>14. ASSUME NEW a \in Actors, Finish(a) PROVE TypeOK'
  <2>1. batch' \in [Actors -> Signals]
    BY <1>14 DEF Finish
  <2>2. age' \in [Actors -> 0..MaxAge]
    BY <1>14 DEF Finish
  <2>3. silence' \in NotStreaming..Silence
    BY <1>14 DEF Finish
  <2>4. pc' \in [Actors -> Labels]
    BY <1>14 DEF Finish
  <2>5. (mu # NoActor => pc[mu] \in {"fire", "execute", "assign"})'
    BY <1>14 DEF Finish
  <2> QED
    BY <1>14, <2>1, <2>2, <2>3, <2>4, <2>5 DEF Finish
<1>15. ASSUME NEW r \in Reconcilers, Reconcile(r) PROVE TypeOK'
    BY <1>15 DEF Reconcile, Actors, Labels
<1>16. ASSUME NEW c \in Cleaners, Collect(c) PROVE TypeOK'
    BY <1>16 DEF Collect, Actors, Labels
<1>17. ASSUME NEW c \in Cleaners, TimeOut(c) PROVE TypeOK'
    BY <1>17 DEF TimeOut, Actors, Triggers, Labels
<1>18. ASSUME Tick PROVE TypeOK'
    BY <1>18 DEF Tick, AgeUp
<1>19. ASSUME UNCHANGED vars PROVE TypeOK'
    BY <1>19 DEF vars
<1> QED
    BY <1>1, <1>2, <1>3, <1>4, <1>5, <1>6, <1>7, <1>8, <1>9, <1>10, <1>11, <1>12, <1>13,
       <1>14, <1>15, <1>16, <1>17, <1>18, <1>19 DEF Next, Step, Restart

-----------------------------------------------------------------------------
(* The mutex and the speed fallback. The flag is set by Begin, which needs    *)
(* the mutex; by LockHeld nobody can then have triggers left from before.     *)

LEMMA LockStep == IInv /\ [Next]_vars => LockHeld'
<1> SUFFICES ASSUME IInv, [Next]_vars PROVE LockHeld'
    OBVIOUS
<1> USE VehicleAssumption
    DEF IInv, TypeOK, LockHeld, machine, subFsms, job, Goto, Idle, Free, NextTrigger
<1>1. ASSUME NEW h \in Handlers, NEW b \in Batches, NEW lag \in 0..MaxLag, Receive(h, b, lag)
      PROVE LockHeld'
    BY <1>1 DEF Receive, Actors
<1>2. ASSUME NEW a \in Actors, Wake(a) PROVE LockHeld'
    BY <1>2 DEF Wake
<1>3. ASSUME NEW a \in Actors, Begin(a) PROVE LockHeld'
    BY <1>3 DEF Begin
<1>4. ASSUME NEW a \in Actors, NoTransition(a) \/ Debounce(a) \/ Fire(a) PROVE LockHeld'
    BY <1>4 DEF NoTransition, Debounce, Fire
<1>5. ASSUME NEW a \in Actors, Unlock(a) PROVE LockHeld'
    BY <1>5 DEF Unlock
<1>6. ASSUME NEW a \in Actors, Execute(a) \/ Assign(a) PROVE LockHeld'
    BY <1>6 DEF Execute, Assign
<1>7. ASSUME NEW a \in Actors, Look(a) \/ Take(a) \/ Finish(a) PROVE LockHeld'
    BY <1>7 DEF Look, Take, Finish
<1>8. ASSUME NewProcess PROVE LockHeld'
    BY <1>8 DEF NewProcess
<1>9. ASSUME NEW a \in Actors, Panic(a) PROVE LockHeld'
    BY <1>8, <1>9 DEF Panic
<1>10. ASSUME NEW r \in Reconcilers, Reconcile(r) PROVE LockHeld'
    BY <1>10 DEF Reconcile, Actors
<1>11. ASSUME NEW c \in Cleaners, Collect(c) \/ TimeOut(c) PROVE LockHeld'
    BY <1>11 DEF Collect, TimeOut, Actors
<1>12. ASSUME Tick \/ UNCHANGED vars PROVE LockHeld'
    BY <1>12 DEF Tick, vars
<1> QED
    BY <1>1, <1>2, <1>3, <1>4, <1>5, <1>6, <1>7, <1>8, <1>9, <1>10, <1>11, <1>12
    DEF Next, Step, Restart

LEMMA SpeedStep == IInv /\ [Next]_vars => SpeedFallbackOff'
<1> SUFFICES ASSUME IInv, [Next]_vars PROVE SpeedFallbackOff'
    OBVIOUS
<1> USE VehicleAssumption
    DEF IInv, TypeOK, LockHeld, SpeedFallbackOff, machine, subFsms, job
<1>1. ASSUME NEW a \in Actors, Wake(a) PROVE SpeedFallbackOff'
  <2>1. \/ todo' = todo
        \/ todo' = [todo EXCEPT ![a] = <<"SignalReceived">>]
    BY <1>1 DEF Wake
  <2>2. \A i \in DOMAIN <<"SignalReceived">> : <<"SignalReceived">>[i] # "SpeedDetected"
    OBVIOUS
  <2> QED
    BY <1>1, <2>1, <2>2 DEF Wake
<1>2. ASSUME NEW a \in Actors, Begin(a) PROVE SpeedFallbackOff'
  <2> DEFINE capable == gearCapable \/ batch[a].gear # "none"
             found   == DetectTriggers(batch[a], capable)
  <2>1. gearCapable' = capable /\ todo' = [todo EXCEPT ![a] = found]
    BY <1>2 DEF Begin
  <2>2. capable => \A i \in DOMAIN found : found[i] # "SpeedDetected"
    BY DetectTyped
  <2>3. \A c \in Actors : todo[c] = <<>>
    BY <1>2 DEF Begin, Free
  <2> HIDE DEF capable, found
  <2> QED
    BY <2>1, <2>2, <2>3
<1>3. ASSUME NEW a \in Actors, todo[a] # <<>>, NextTrigger(a), UNCHANGED gearCapable
      PROVE SpeedFallbackOff'
  <2>1. \A i \in DOMAIN Tail(todo[a]) : i + 1 \in DOMAIN todo[a] /\ Tail(todo[a])[i] = todo[a][i + 1]
    BY <1>3
  <2> QED
    BY <1>3, <2>1 DEF NextTrigger
<1>4. ASSUME NEW a \in Actors, NoTransition(a) \/ Debounce(a) \/ Fire(a) PROVE SpeedFallbackOff'
    BY <1>3, <1>4 DEF NoTransition, Debounce, Fire
<1>5. ASSUME NewProcess PROVE SpeedFallbackOff'
    BY <1>5 DEF NewProcess
<1>6. ASSUME NEW c \in Cleaners, TimeOut(c) PROVE SpeedFallbackOff'
    BY <1>6 DEF TimeOut
<1>7. ASSUME UNCHANGED <<gearCapable, todo>> PROVE SpeedFallbackOff'
    BY <1>7
<1>8. ASSUME NEW a \in Actors,
             Unlock(a) \/ Execute(a) \/ Assign(a) \/ Look(a) \/ Take(a) \/ Finish(a)
      PROVE SpeedFallbackOff'
    BY <1>7, <1>8 DEF Unlock, Execute, Assign, Look, Take, Finish
<1>9. ASSUME NEW a \in Actors, Panic(a) PROVE SpeedFallbackOff'
    BY <1>5, <1>7, <1>9 DEF Panic
<1>10. ASSUME NEW h \in Handlers, NEW b \in Batches, NEW lag \in 0..MaxLag, Receive(h, b, lag)
      PROVE SpeedFallbackOff'
    BY <1>7, <1>10 DEF Receive
<1>11. ASSUME NEW r \in Reconcilers, Reconcile(r) PROVE SpeedFallbackOff'
    BY <1>7, <1>11 DEF Reconcile
<1>12. ASSUME NEW c \in Cleaners, Collect(c) PROVE SpeedFallbackOff'
    BY <1>7, <1>12 DEF Collect
<1>13. ASSUME Tick \/ UNCHANGED vars PROVE SpeedFallbackOff'
    BY <1>7, <1>13 DEF Tick, vars
<1> QED
    BY <1>1, <1>2, <1>4, <1>5, <1>6, <1>8, <1>9, <1>10, <1>11, <1>12, <1>13
    DEF Next, Step, Restart

LEMMA InvStep == IInv /\ [Next]_vars => IInv'
BY TypeStep, LockStep, SpeedStep DEF IInv

\* In every reachable state every variable has a value of its type, and the
\* mutex of the machine is held only inside a call (lock and unlock of mu in
\* every locking method of VehicleFSM).
THEOREM TypeCorrect == Spec => []TypeOK
<1>1. IInv => TypeOK
    BY DEF IInv
<1> QED
    BY InitInv, InvStep, <1>1, PTL DEF Spec

\* However many goroutines handle messages of a vehicle, a speed trigger is
\* never tried once the vehicle has sent its gear (DetectTriggers).
THEOREM SpeedFallbackStaysOff == Spec => []SpeedFallbackOff
<1>1. IInv => SpeedFallbackOff
    BY DEF IInv
<1> QED
    BY InitInv, InvStep, <1>1, PTL DEF Spec

-----------------------------------------------------------------------------
\* However many goroutines commit transitions, with or without the mutex, a
\* drive and a charge sub-FSM are never registered together (manageSubFSMs).
THEOREM NeverTwoSessions == Spec => []OneSession
<1>1. Init => OneSession
    BY DEF Init, OneSession
<1>2. OneSession /\ [Next]_vars => OneSession'
  <2> SUFFICES ASSUME OneSession, [Next]_vars PROVE OneSession'
    OBVIOUS
  <2>1. ASSUME NEW a \in Actors, Execute(a) PROVE OneSession'
    <3>1. ~(Opens(edge[a], "driving") /\ Opens(edge[a], "charging"))
      BY DEF Opens
    <3> QED
      BY <2>1, <3>1 DEF Execute, OneSession
  <2>2. ASSUME NewProcess PROVE OneSession'
    BY <2>2 DEF NewProcess, OneSession
  <2>3. ASSUME UNCHANGED subFsms PROVE OneSession'
    BY <2>3 DEF subFsms, OneSession
  <2>4. ASSUME NEW a \in Actors, Panic(a) PROVE OneSession'
    BY <2>2, <2>3, <2>4 DEF Panic
  <2>5. ASSUME NEW a \in Actors,
               \/ Wake(a) \/ Begin(a) \/ NoTransition(a) \/ Debounce(a) \/ Fire(a)
               \/ Unlock(a) \/ Assign(a) \/ Look(a) \/ Take(a) \/ Finish(a)
        PROVE OneSession'
    BY <2>3, <2>5
    DEF Wake, Begin, NoTransition, Debounce, Fire, Unlock, Assign, Look, Take, Finish
  <2>6. ASSUME NEW h \in Handlers, NEW b \in Batches, NEW lag \in 0..MaxLag, Receive(h, b, lag)
        PROVE OneSession'
    BY <2>3, <2>6 DEF Receive
  <2>7. ASSUME NEW r \in Reconcilers, Reconcile(r) PROVE OneSession'
    BY <2>3, <2>7 DEF Reconcile
  <2>8. ASSUME NEW c \in Cleaners, Collect(c) \/ TimeOut(c) PROVE OneSession'
    BY <2>3, <2>8 DEF Collect, TimeOut
  <2>9. ASSUME Tick \/ UNCHANGED vars PROVE OneSession'
    BY <2>3, <2>9 DEF Tick, vars
  <2> QED
    BY <2>1, <2>2, <2>4, <2>5, <2>6, <2>7, <2>8, <2>9 DEF Next, Step, Restart
<1> QED
    BY <1>1, <1>2, PTL DEF Spec

-----------------------------------------------------------------------------
(* One message at a time. MQTT's fan-out is what lets a session survive its   *)
(* state (the run MCVehicleFanout): without it, and without the reconciler,   *)
(* CheckPending can only interleave with the clean-up, and the two theorems   *)
(* below hold.                                                                *)
Sequential ==
    /\ Reconcilers = {}
    /\ \A g, h \in Handlers : g = h

InCommit(a) == pc[a] \in {"execute", "assign"}

\* A clean-up only ever times out, under the mutex. A handler commits without
\* the mutex only a confirmed Park, and with it an edge that leaves the current
\* state.
Roles ==
    /\ \A c \in Cleaners :
          /\ pc[c] \in {"idle", "timeout", "fire", "execute", "assign"}
          /\ resume[c] = "idle"
          /\ todo[c] = <<>> \/ todo[c] = <<"Timeout">>
          /\ InCommit(c) => mu = c /\ edge[c][2] \in {"asleep", "offline"}
    /\ \A h \in Handlers : InCommit(h) =>
          /\ mu = h => /\ edge[h][1] = current
                       /\ edge[h][1] # edge[h][2]
                       /\ edge[h][2] = "parked" => edge[h][1] = "charging"
          /\ mu # h => edge[h][2] = "parked"

\* A sub-FSM, registered or not, and the state it belongs to.
Follows(sub, s) ==
    /\ (sub <=> current = s) \/ \E a \in Actors : pc[a] = "assign"
    /\ \A a \in Actors : /\ pc[a] = "assign" => (sub <=> edge[a][2] = s)
                         /\ pc[a] = "execute" /\ edge[a][1] # s => ~sub

SeqInv == IInv /\ Roles /\ Follows(drive, "driving") /\ Follows(charge, "charging")

LEMMA EdgesShape ==
    \A t \in Triggers : \A e \in Edges(t) :
        /\ e[1] # e[2]
        /\ t \notin Debounced /\ e[2] = "parked" => e[1] = "charging"
        /\ t = "Timeout" => e[2] \in {"asleep", "offline"}
BY DEF Edges, Triggers, Targets, Debounced

LEMMA RolesStep == Sequential /\ SeqInv /\ [Next]_vars => Roles'
<1> SUFFICES ASSUME Sequential, SeqInv, [Next]_vars PROVE Roles'
    OBVIOUS
<1> USE VehicleAssumption
    DEF SeqInv, Roles, InCommit, Sequential, IInv, TypeOK, LockHeld, Actors, machine, subFsms, job,
        Goto, Idle, Free, NextTrigger
<1>1. ASSUME NEW h \in Handlers, NEW b \in Batches, NEW lag \in 0..MaxLag, Receive(h, b, lag)
      PROVE Roles'
    BY <1>1 DEF Receive
<1>2. ASSUME NEW a \in Actors, Wake(a) PROVE Roles'
    BY <1>2 DEF Wake
<1>3. ASSUME NEW a \in Actors, Begin(a) PROVE Roles'
    BY <1>3 DEF Begin
<1>4. ASSUME NEW a \in Actors, NoTransition(a) \/ Debounce(a) PROVE Roles'
  <2>1. todo[a] = <<"Timeout">> => Tail(todo[a]) = <<>>
    OBVIOUS
  <2> QED
    BY <1>4, <2>1 DEF NoTransition, Debounce
<1>5. ASSUME NEW a \in Actors, Fire(a) PROVE Roles'
  <2>1. PICK e \in Found(a) : edge' = [edge EXCEPT ![a] = e]
    BY <1>5 DEF Fire
  <2>2. /\ Head(todo[a]) \in Triggers \ Debounced
        /\ todo[a] = <<"Timeout">> => Head(todo[a]) = "Timeout"
    BY <1>5 DEF Fire
  <2>3. /\ e[1] = current /\ e[1] # e[2]
        /\ e[2] = "parked" => e[1] = "charging"
        /\ todo[a] = <<"Timeout">> => e[2] \in {"asleep", "offline"}
    BY <2>1, <2>2, EdgesShape DEF Found
  <2>4. mu = a /\ pc[a] = "fire" /\ pc' = [pc EXCEPT ![a] = "execute"] /\ todo[a] # <<>>
    BY <1>5 DEF Fire
  <2>5. todo[a] = <<"Timeout">> => Tail(todo[a]) = <<>>
    OBVIOUS
  <2>6. todo' = [todo EXCEPT ![a] = Tail(@)]
    BY <1>5 DEF Fire
  <2>7. UNCHANGED <<mu, current, resume>>
    BY <1>5 DEF Fire
  <2> QED
    BY <2>1, <2>3, <2>4, <2>5, <2>6, <2>7
<1>6. ASSUME NEW a \in Actors, Unlock(a) PROVE Roles'
    BY <1>6 DEF Unlock
<1>7. ASSUME NEW a \in Actors, Execute(a) PROVE Roles'
    BY <1>7 DEF Execute
<1>8. ASSUME NEW a \in Actors, Assign(a) PROVE Roles'
    BY <1>8 DEF Assign
<1>9. ASSUME NEW a \in Actors, Look(a) \/ Finish(a) PROVE Roles'
    BY <1>9 DEF Look, Finish
<1>10. ASSUME NEW a \in Actors, Take(a) PROVE Roles'
  <2>1. mu # a /\ a \in Handlers
    BY <1>10 DEF Take
  <2>2. \/ edge' = [edge EXCEPT ![a] = <<current, "parked">>]
        \/ edge' = edge /\ pc' = [pc EXCEPT ![a] = "finish"]
    BY <1>10 DEF Take
  <2>3. /\ \E l \in {"execute", "finish"} : pc' = [pc EXCEPT ![a] = l]
        /\ UNCHANGED <<current, mu, todo, resume>>
    BY <1>10 DEF Take
  <2> QED
    BY <2>1, <2>2, <2>3
<1>11. ASSUME NewProcess PROVE Roles'
    BY <1>11 DEF NewProcess
<1>12. ASSUME NEW a \in Actors, Panic(a) PROVE Roles'
    BY <1>11, <1>12 DEF Panic
<1>13. ASSUME NEW c \in Cleaners, Collect(c) \/ TimeOut(c) PROVE Roles'
    BY <1>13 DEF Collect, TimeOut
<1>14. ASSUME Tick \/ UNCHANGED vars PROVE Roles'
    BY <1>14 DEF Tick, vars
<1> QED
    BY <1>1, <1>2, <1>3, <1>4, <1>5, <1>6, <1>7, <1>8, <1>9, <1>10, <1>11, <1>12, <1>13, <1>14
    DEF Next, Step, Restart

BothFollow == Follows(drive, "driving") /\ Follows(charge, "charging")

\* Only a handler that holds the mutex opens a sub-FSM, so nobody else is then
\* in the middle of a commit.
LEMMA OpenersAreAlone ==
    ASSUME Sequential, SeqInv, NEW a \in Actors, InCommit(a), edge[a][2] \in {"driving", "charging"}
    PROVE  /\ edge[a][1] = current /\ edge[a][1] # edge[a][2]
           /\ mu = a /\ a \in Handlers
           /\ \A b \in Actors : InCommit(b) => b = a
BY VehicleAssumption DEF Sequential, SeqInv, Roles, InCommit, Actors

\* Nothing Follows speaks of has changed, but for moves outside a commit.
LEMMA FollowsFrame ==
    /\ BothFollow
    /\ UNCHANGED <<drive, charge, current, edge>>
    /\ \A a \in Actors : InCommit(a)' <=> InCommit(a)
    /\ \A a \in Actors : InCommit(a) => pc'[a] = pc[a]
    => BothFollow'
BY DEF BothFollow, Follows, InCommit

LEMMA FollowStep == Sequential /\ SeqInv /\ [Next]_vars => BothFollow'
<1> SUFFICES ASSUME Sequential, SeqInv, [Next]_vars PROVE BothFollow'
    OBVIOUS
<1> USE VehicleAssumption
<1>0. TypeOK /\ BothFollow /\ LockHeld
    BY DEF SeqInv, BothFollow, IInv
<1>1. ASSUME NEW a \in Actors, NEW l \in Labels \ {"execute", "assign"},
             ~InCommit(a), pc' = [pc EXCEPT ![a] = l], UNCHANGED <<drive, charge, current, edge>>
      PROVE BothFollow'
    BY <1>0, <1>1, FollowsFrame DEF InCommit, TypeOK
<1>2. ASSUME UNCHANGED <<drive, charge, current, edge, pc>> PROVE BothFollow'
    BY <1>0, <1>2, FollowsFrame DEF InCommit
<1>3. ASSUME NEW a \in Actors,
             Wake(a) \/ Begin(a) \/ NoTransition(a) \/ Debounce(a) \/ Unlock(a) \/ Look(a) \/ Finish(a)
      PROVE BothFollow'
    BY <1>0, <1>1, <1>2, <1>3
    DEF Wake, Begin, NoTransition, Debounce, Unlock, Look, Finish, Idle, Goto, InCommit, Labels,
        machine, subFsms, job, LockHeld
<1>4. ASSUME NEW h \in Handlers, NEW b \in Batches, NEW lag \in 0..MaxLag, Receive(h, b, lag)
      PROVE BothFollow'
    BY <1>1, <1>4 DEF Receive, Goto, InCommit, Labels, Actors, machine, subFsms
<1>5. ASSUME NEW c \in Cleaners, Collect(c) \/ TimeOut(c) PROVE BothFollow'
    BY <1>1, <1>2, <1>5
    DEF Collect, TimeOut, Goto, InCommit, Labels, Actors, machine, subFsms, job
<1>6. ASSUME Tick \/ UNCHANGED vars PROVE BothFollow'
    BY <1>2, <1>6 DEF Tick, vars, machine, subFsms, job
<1>7. ASSUME NewProcess PROVE BothFollow'
    BY <1>7 DEF NewProcess, BothFollow, Follows
<1>8. ASSUME NEW a \in Actors, Panic(a) PROVE BothFollow'
    BY <1>1, <1>7, <1>8 DEF Panic, Idle, Goto, InCommit, Labels, machine, subFsms
<1>9. ASSUME NEW a \in Actors, Fire(a) \/ Take(a) PROVE BothFollow'
  <2>1. CASE pc' = [pc EXCEPT ![a] = "finish"] /\ edge' = edge
    BY <1>1, <1>9, <2>1 DEF Fire, Take, InCommit, Labels, machine, subFsms
  <2>2. ASSUME NEW e, e[1] = current, edge' = [edge EXCEPT ![a] = e], pc' = [pc EXCEPT ![a] = "execute"]
        PROVE  BothFollow'
    <3>1. \A b \in Actors : InCommit(b) => edge[b][2] \notin {"driving", "charging"}
      <4> SUFFICES ASSUME NEW b \in Actors, InCommit(b), edge[b][2] \in {"driving", "charging"}
                   PROVE  FALSE
        OBVIOUS
      <4>1. mu = b /\ b \in Handlers /\ b # a
        BY <1>9, OpenersAreAlone DEF Fire, Take, InCommit
      <4>2. CASE Fire(a)
        BY <1>0, <4>1, <4>2 DEF Fire, LockHeld
      <4>3. CASE Take(a)
        BY <4>1, <4>3 DEF Take, SeqInv, Roles, Sequential, Actors
      <4> QED
        BY <1>9, <4>2, <4>3
    <3>2. (drive => current = "driving") /\ (charge => current = "charging")
      BY <1>0, <3>1 DEF BothFollow, Follows, InCommit
    <3>3. pc[a] \in {"fire", "take"} /\ UNCHANGED <<drive, charge, current>>
      BY <1>9 DEF Fire, Take, machine, subFsms
    <3> QED
      BY <1>0, <2>2, <3>2, <3>3 DEF BothFollow, Follows, TypeOK
  <2>3. CASE Fire(a)
    <3>1. PICK e \in Found(a) : edge' = [edge EXCEPT ![a] = e]
      BY <2>3 DEF Fire
    <3> QED
      BY <2>2, <2>3, <3>1 DEF Fire, Goto, Found
  <2>4. CASE Take(a)
    BY <2>1, <2>2, <2>4 DEF Take, Goto
  <2> QED
    BY <1>9, <2>3, <2>4
<1>10. ASSUME NEW a \in Actors, Execute(a) PROVE BothFollow'
  <2> DEFINE e == edge[a]
  <2>1. /\ pc[a] = "execute" /\ pc' = [pc EXCEPT ![a] = "assign"]
        /\ UNCHANGED <<current, edge>>
    BY <1>10 DEF Execute, Goto, machine, job
  <2>2. e[2] \in {"driving", "charging"} => e[1] # e[2]
    BY <2>1, OpenersAreAlone DEF InCommit
  <2>3. (e[1] # "driving" => ~drive) /\ (e[1] # "charging" => ~charge)
    BY <1>0, <2>1 DEF BothFollow, Follows
  <2>4. (drive' <=> e[2] = "driving") /\ (charge' <=> e[2] = "charging")
    BY <1>10, <2>2, <2>3 DEF Execute, Opens, Closes
  <2>5. \A b \in Actors \ {a} : InCommit(b) => /\ edge[b][2] \notin {"driving", "charging"}
                                              /\ e[2] \notin {"driving", "charging"}
    BY <2>1, OpenersAreAlone DEF InCommit
  <2> HIDE DEF e
  <2>6. \A b \in Actors : /\ b # a => pc'[b] = pc[b]
                          /\ pc'[a] = "assign"
    BY <1>0, <2>1 DEF TypeOK
  <2>7. \A b \in Actors : /\ pc'[b] = "assign" => (drive' <=> edge'[b][2] = "driving")
                          /\ pc'[b] = "assign" => (charge' <=> edge'[b][2] = "charging")
    BY <2>1, <2>4, <2>5, <2>6 DEF InCommit, e
  <2>8. \A b \in Actors : pc'[b] = "execute" => ~drive' /\ ~charge'
    BY <2>4, <2>5, <2>6 DEF InCommit
  <2> QED
    BY <2>6, <2>7, <2>8 DEF BothFollow, Follows
<1>11. ASSUME NEW a \in Actors, Assign(a) PROVE BothFollow'
    BY <1>0, <1>11 DEF Assign, Goto, BothFollow, Follows, TypeOK, subFsms
<1> QED
    BY <1>3, <1>4, <1>5, <1>6, <1>7, <1>8, <1>9, <1>10, <1>11
    DEF Next, Step, Restart, Sequential

LEMMA SeqInit == Init => SeqInv
<1>1. Init => IInv
    BY InitInv
<1>2. Init => Roles /\ Follows(drive, "driving") /\ Follows(charge, "charging")
    BY VehicleAssumption DEF Init, Roles, InCommit, Follows, Actors
<1> QED
    BY <1>1, <1>2 DEF SeqInv

LEMMA SeqStep == Sequential /\ SeqInv /\ [Next]_vars => SeqInv'
<1> SUFFICES ASSUME Sequential, SeqInv, [Next]_vars PROVE SeqInv'
    OBVIOUS
<1>1. IInv'
    BY InvStep DEF SeqInv
<1>2. Roles'
    BY RolesStep
<1>3. BothFollow'
    BY FollowStep
<1> QED
    BY <1>1, <1>2, <1>3 DEF SeqInv, BothFollow

\* When messages are handled one at a time and nothing reconciles, the clean-up
\* may interleave with CheckPending as it likes: at rest the sub-FSMs are those
\* of the state.
THEOREM SequentialFollows == ASSUME Sequential PROVE Spec => []SubFsmsFollowState
<1>1. SeqInv => SubFsmsFollowState
  <2> SUFFICES ASSUME SeqInv PROVE SubFsmsFollowState
    OBVIOUS
  <2> QED
    BY DEF SeqInv, Follows, SubFsmsFollowState, Quiet
<1>2. SeqInv /\ [Next]_vars => SeqInv'
    BY SeqStep
<1> QED
    BY SeqInit, <1>1, <1>2, PTL DEF Spec

-----------------------------------------------------------------------------
(* The debounce, with payloads that arrive up to MaxLag late.                 *)

\* A pending Park is no older than the newest evidence of driving, but for the lag of a
\* payload and beyond the confirmation time; nor is the batch that may arm it.
EvidenceIsOlder ==
    /\ pending # NoPending => moved + MaxLag >= MinOf(pending, Confirm)
    /\ \A h \in Handlers : /\ pc[h] # "idle" => moved + MaxLag >= MinOf(age[h], Confirm)
                           /\ InCommit(h) /\ mu # h => moved + MaxLag >= Confirm

ParkInv == SeqInv /\ EvidenceIsOlder

\* Every step of a sequential handler keeps it.
LEMMA EvidenceStep == Sequential /\ ParkInv /\ [Next]_vars => EvidenceIsOlder'
<1> SUFFICES ASSUME Sequential, ParkInv, [Next]_vars PROVE EvidenceIsOlder'
    OBVIOUS
<1> USE VehicleAssumption
    DEF ParkInv, EvidenceIsOlder, InCommit, SeqInv, IInv, TypeOK, MinOf, NoPending,
        machine, subFsms, job, Goto
<1>0. ASSUME NEW a \in Actors, Idle(a), UNCHANGED <<pending, moved, mu>> PROVE EvidenceIsOlder'
  <2>1. pc' = [pc EXCEPT ![a] = "idle"] /\ age' = [age EXCEPT ![a] = 0]
    BY <1>0 DEF Idle
  <2>2. \A h \in Handlers : /\ pc'[h] # "idle" => pc'[h] = pc[h] /\ age'[h] = age[h]
                            /\ InCommit(h)' => InCommit(h)
    BY <2>1 DEF Actors
  <2> QED
    BY <1>0, <2>2
<1>1. ASSUME NEW h \in Handlers, NEW b \in Batches, NEW lag \in 0..MaxLag, Receive(h, b, lag)
      PROVE EvidenceIsOlder'
  <2>1. lag \in 0..MaxLag /\ pending' = pending /\ moved' = moved /\ mu' = mu
    BY <1>1 DEF Receive
  <2>2. \A g \in Handlers : g = h
    BY DEF Sequential
  <2>3. h \in Actors /\ pc' = [pc EXCEPT ![h] = "wake"] /\ age' = [age EXCEPT ![h] = lag]
    BY <1>1 DEF Receive, Actors
  <2>4. pc'[h] = "wake" /\ age'[h] = lag
    BY <2>1, <2>3
  <2>5. moved + MaxLag >= lag
    OBVIOUS
  <2> QED
    BY <2>1, <2>2, <2>4, <2>5
<1>2. ASSUME NEW a \in Actors, Wake(a) PROVE EvidenceIsOlder'
  <2>1. UNCHANGED <<pending, moved, age>> /\ pc[a] = "wake"
    BY <1>2 DEF Wake
  <2>2. \A h \in Handlers : /\ pc'[h] # "idle" => pc[h] # "idle"
                            /\ InCommit(h)' => InCommit(h) /\ mu # h
    BY <1>2 DEF Wake, Free, Actors
  <2> QED
    BY <2>1, <2>2
<1>3. ASSUME NEW a \in Actors, Begin(a) PROVE EvidenceIsOlder'
  <2>1. a \in Handlers /\ AgeOf(a) = age[a] /\ \A h \in Handlers : h = a
    BY <1>3 DEF Begin, AgeOf, Sequential, Roles, Actors
  <2> QED
    BY <1>3, <2>1 DEF Begin, CancelPark, Free
<1>4. ASSUME NEW a \in Actors, NoTransition(a) PROVE EvidenceIsOlder'
    BY <1>4 DEF NoTransition
<1>5. ASSUME NEW a \in Actors, Debounce(a) PROVE EvidenceIsOlder'
  <2>1. Head(todo[a]) = "GearParked"
    BY <1>5 DEF Debounce, Debounced
  <2>2. a \in Handlers
    BY <1>5, <2>1 DEF Debounce, Roles, Sequential, Actors
  <2>3. AgeOf(a) = age[a]
    BY <2>2 DEF AgeOf, Sequential
  <2> QED
    BY <1>5, <2>2, <2>3 DEF Debounce
<1>6. ASSUME NEW a \in Actors, Fire(a) PROVE EvidenceIsOlder'
    BY <1>6 DEF Fire, LockHeld
<1>7. ASSUME NEW a \in Actors, Unlock(a) PROVE EvidenceIsOlder'
  <2>1. pc[a] = "fire" /\ mu = a /\ mu' = NoActor
    BY <1>7 DEF Unlock, LockHeld
  <2>2. pc' = [pc EXCEPT ![a] = resume[a]] /\ resume[a] \notin {"execute", "assign"}
    BY <1>7 DEF Unlock, LockHeld
  <2>3. UNCHANGED <<pending, moved, age>>
    BY <1>7 DEF Unlock
  <2>4. \A h \in Handlers : /\ pc'[h] # "idle" => pc[h] # "idle"
                            /\ InCommit(h)' => InCommit(h) /\ mu # h
    BY <2>1, <2>2 DEF Actors
  <2> QED
    BY <2>3, <2>4
<1>8. ASSUME NEW a \in Actors, Execute(a) PROVE EvidenceIsOlder'
    BY <1>8 DEF Execute
<1>9. ASSUME NEW a \in Actors, Assign(a) PROVE EvidenceIsOlder'
    BY <1>9 DEF Assign
<1>10. ASSUME NEW a \in Actors, Look(a) PROVE EvidenceIsOlder'
    BY <1>10 DEF Look
<1>11. ASSUME NEW a \in Actors, Take(a) PROVE EvidenceIsOlder'
  <2>1. a \in Handlers /\ AgeOf(a) = age[a]
    BY <1>11 DEF Take, AgeOf, Sequential, Roles, Actors
  <2>2. Confirmed(a) => moved + MaxLag >= Confirm
    BY <1>11, <2>1 DEF Take, Confirmed
  <2>3. UNCHANGED <<moved, mu, age>> /\ (pending' = pending \/ pending' = -1) /\ pc[a] = "take"
    BY <1>11 DEF Take
  <2>4. \/ pc' = [pc EXCEPT ![a] = "finish"]
        \/ Confirmed(a) /\ pc' = [pc EXCEPT ![a] = "execute"]
    BY <1>11 DEF Take
  <2>5. \A h \in Handlers : /\ pc'[h] # "idle" => pc[h] # "idle"
                            /\ InCommit(h)' => InCommit(h) \/ Confirmed(a)
    BY <2>3, <2>4 DEF Actors
  <2> QED
    BY <2>2, <2>3, <2>5
<1>12. ASSUME NewProcess PROVE EvidenceIsOlder'
  <2>1. pending' = -1 /\ moved' = Confirm
    BY <1>12 DEF NewProcess
  <2>2. \A h \in Handlers : pc'[h] = "idle"
    BY <1>12 DEF NewProcess, Actors
  <2> QED
    BY <2>1, <2>2
<1>13. ASSUME NEW a \in Actors, Panic(a) PROVE EvidenceIsOlder'
    BY <1>0, <1>12, <1>13 DEF Panic
<1>14. ASSUME NEW a \in Actors, Finish(a) PROVE EvidenceIsOlder'
    BY <1>0, <1>14 DEF Finish
<1>15. ASSUME NEW c \in Cleaners, Collect(c) PROVE EvidenceIsOlder'
    BY <1>15 DEF Collect, Actors
<1>16. ASSUME NEW c \in Cleaners, TimeOut(c) PROVE EvidenceIsOlder'
    BY <1>16 DEF TimeOut, Free, Actors
<1>17. ASSUME Tick PROVE EvidenceIsOlder'
    BY <1>17 DEF Tick, AgeUp, Actors, MaxSince
<1>18. ASSUME UNCHANGED vars PROVE EvidenceIsOlder'
    BY <1>18 DEF vars
<1> QED
    BY <1>1, <1>2, <1>3, <1>4, <1>5, <1>6, <1>7, <1>8, <1>9, <1>10, <1>11, <1>12, <1>13,
       <1>14, <1>15, <1>16, <1>17, <1>18 DEF Next, Step, Restart, Sequential

\* When messages are handled one at a time, a drive ends in Parked only after
\* StateConfirmDuration without evidence of driving, less what a payload may be late (handleDebounced, CheckPending, and the cancellation of a
\* contradicted Park in ProcessSignalsAt).
THEOREM SequentialParkIsConfirmed == ASSUME Sequential PROVE Spec => ParkIsConfirmed
<1>1. Init => ParkInv
    BY SeqInit, VehicleAssumption DEF ParkInv, Init, EvidenceIsOlder, InCommit, Actors
<1>2. ParkInv /\ [Next]_vars => ParkInv'
    BY SeqStep, EvidenceStep DEF ParkInv
<1>3. ParkInv /\ [Next]_vars => [current = "driving" /\ current' = "parked" => moved + MaxLag >= Confirm]_vars
  <2> SUFFICES ASSUME ParkInv, Next, current = "driving", current' = "parked"
               PROVE  moved + MaxLag >= Confirm
    OBVIOUS
  <2>1. PICK a \in Actors : Assign(a)
    <3>1. ~NewProcess
      BY DEF NewProcess
    <3>2. ~UNCHANGED current
      OBVIOUS
    <3>3. ~ \E a \in Actors : \/ Wake(a) \/ Begin(a) \/ NoTransition(a) \/ Debounce(a)
                              \/ Fire(a) \/ Unlock(a) \/ Execute(a) \/ Look(a) \/ Take(a)
                              \/ Panic(a) \/ Finish(a)
      BY <3>1, <3>2
      DEF Wake, Begin, NoTransition, Debounce, Fire, Unlock, Execute, Look, Take, Panic, Finish,
          machine
    <3>4. /\ ~ \E h \in Handlers, b \in Batches, lag \in 0..MaxLag : Receive(h, b, lag)
          /\ ~ \E r \in Reconcilers : Reconcile(r)
          /\ ~ \E c \in Cleaners : Collect(c) \/ TimeOut(c)
          /\ ~Restart /\ ~Tick
      BY <3>1, <3>2 DEF Receive, Reconcile, Collect, TimeOut, Restart, Tick, machine
    <3> QED
      BY <3>3, <3>4 DEF Next, Step
  <2>2. pc[a] = "assign" /\ edge[a][2] = "parked"
    BY <2>1 DEF Assign
  <2>3. a \in Handlers /\ mu # a
    BY <2>2, VehicleAssumption
    DEF ParkInv, SeqInv, Roles, InCommit, Sequential, Actors
  <2> QED
    BY <2>2, <2>3 DEF ParkInv, EvidenceIsOlder, InCommit
<1> QED
    BY <1>1, <1>2, <1>3, PTL DEF Spec, ParkIsConfirmed
-----------------------------------------------------------------------------
(* The table of transitions, for any number of goroutines. The state can be   *)
(* changed under a commit only by a commit without the mutex, which writes    *)
(* Parked.                                                                    *)

TableEdges == UNION {Edges(t) : t \in Triggers}

\* A commit under the mutex has a row of the table that leaves the current state,
\* or left it until Parked was written; one without the mutex enters Parked.
EdgesOrPark ==
    \A a \in Actors : InCommit(a) =>
        /\ mu = a => edge[a] \in TableEdges /\ current \in {edge[a][1], "parked"}
        /\ mu # a => edge[a][2] = "parked"

TableInv == IInv /\ EdgesOrPark

\* Every step keeps EdgesOrPark.
LEMMA EdgesStep == TableInv /\ [Next]_vars => EdgesOrPark'
<1> SUFFICES ASSUME TableInv, [Next]_vars PROVE EdgesOrPark'
    OBVIOUS
<1> USE VehicleAssumption
    DEF TableInv, IInv, TypeOK, LockHeld, EdgesOrPark, InCommit, machine, subFsms, job, Goto, Idle, Free
<1>1. ASSUME NEW h \in Handlers, NEW b \in Batches, NEW lag \in 0..MaxLag, Receive(h, b, lag)
      PROVE EdgesOrPark'
    BY <1>1 DEF Receive, Actors
<1>2. ASSUME NEW a \in Actors, Wake(a) PROVE EdgesOrPark'
    BY <1>2 DEF Wake
<1>3. ASSUME NEW a \in Actors, Begin(a) PROVE EdgesOrPark'
    BY <1>3 DEF Begin
<1>4. ASSUME NEW a \in Actors, NoTransition(a) \/ Debounce(a) PROVE EdgesOrPark'
    BY <1>4 DEF NoTransition, Debounce
<1>5. ASSUME NEW a \in Actors, Fire(a) PROVE EdgesOrPark'
  <2>1. PICK e \in Found(a) : edge' = [edge EXCEPT ![a] = e]
    BY <1>5 DEF Fire
  <2>2. e \in TableEdges /\ e[1] = current
    <3>1. Head(todo[a]) \in Triggers
      BY <1>5 DEF Fire
    <3> QED
      BY <2>1, <3>1 DEF Found, TableEdges
  <2>3. mu = a
    BY <1>5 DEF Fire
  <2> QED
    BY <1>5, <2>1, <2>2, <2>3 DEF Fire
<1>6. ASSUME NEW a \in Actors, Unlock(a) PROVE EdgesOrPark'
    BY <1>6 DEF Unlock
<1>7. ASSUME NEW a \in Actors, Execute(a) PROVE EdgesOrPark'
    BY <1>7 DEF Execute
<1>8. ASSUME NEW a \in Actors, Assign(a) PROVE EdgesOrPark'
  <2>1. CASE mu = a
    BY <1>8, <2>1 DEF Assign
  <2>2. CASE mu # a
    BY <1>8, <2>2 DEF Assign
  <2> QED
    BY <2>1, <2>2
<1>9. ASSUME NEW a \in Actors, Look(a) \/ Finish(a) PROVE EdgesOrPark'
    BY <1>9 DEF Look, Finish
<1>10. ASSUME NEW a \in Actors, Take(a) PROVE EdgesOrPark'
  <2>1. mu # a /\ mu' = mu /\ current' = current
    BY <1>10 DEF Take
  <2>2. CASE pc' = [pc EXCEPT ![a] = "execute"] /\ edge' = [edge EXCEPT ![a] = <<current, "parked">>]
    BY <2>1, <2>2
  <2>3. CASE pc' = [pc EXCEPT ![a] = "finish"] /\ edge' = edge
    BY <2>1, <2>3
  <2> QED
    BY <1>10, <2>2, <2>3 DEF Take
<1>11. ASSUME NewProcess PROVE EdgesOrPark'
    BY <1>11 DEF NewProcess
<1>12. ASSUME NEW a \in Actors, Panic(a) PROVE EdgesOrPark'
    BY <1>11, <1>12 DEF Panic
<1>13. ASSUME NEW r \in Reconcilers, Reconcile(r) PROVE EdgesOrPark'
    BY <1>13 DEF Reconcile, Actors
<1>14. ASSUME NEW c \in Cleaners, Collect(c) \/ TimeOut(c) PROVE EdgesOrPark'
    BY <1>14 DEF Collect, TimeOut, Actors
<1>15. ASSUME Tick \/ UNCHANGED vars PROVE EdgesOrPark'
    BY <1>15 DEF Tick, vars
<1> QED
    BY <1>1, <1>2, <1>3, <1>4, <1>5, <1>6, <1>7, <1>8, <1>9, <1>10, <1>11, <1>12, <1>13,
       <1>14, <1>15 DEF Next, Step, Restart

\* Every edge of the table is a row, and Parked has a row to each state an edge enters.
LEMMA ParkedHasRows ==
    \A e \in TableEdges : /\ <<e[1], e[2]>> \in TableRows
                          /\ e[2] = "parked" \/ <<"parked", e[2]>> \in TableRows
<1>1. TableEdges \subseteq TableRows /\ {<<"parked", "online">>, <<"parked", "offline">>} \subseteq TableRows
    BY DEF TableEdges, TableRows
<1>2. \A t \in Triggers : \A e \in Edges(t) :
          /\ e = <<e[1], e[2]>>
          /\ e[2] \in {"driving", "charging", "parked", "online", "asleep", "offline"}
    BY DEF Triggers, Targets, Edges
<1>3. /\ <<"parked", "driving">> \in TableEdges
      /\ <<"parked", "charging">> \in TableEdges
      /\ <<"parked", "asleep">> \in TableEdges
  <2>1. /\ <<"parked", "driving">> \in Edges("GearDriving") /\ "GearDriving" \in Triggers
        /\ <<"parked", "charging">> \in Edges("ChargeStarted") /\ "ChargeStarted" \in Triggers
        /\ <<"parked", "asleep">> \in Edges("Timeout") /\ "Timeout" \in Triggers
    BY DEF Triggers, Targets, Edges
  <2> QED
    BY <2>1 DEF TableEdges
<1> QED
    BY <1>1, <1>2, <1>3 DEF TableEdges

\* Of the step that changes the state: it is the end of a commit, or a new process.
LEMMA OnlyAssign ==
    ASSUME Next, current' # current
    PROVE  ~exists' \/ \E a \in Actors : Assign(a)
<1>1. NewProcess => ~exists'
    BY DEF NewProcess
<1>2. ASSUME NEW a \in Actors, Panic(a) PROVE ~exists'
    BY <1>1, <1>2 DEF Panic, machine
<1>3. ~ \E a \in Actors : \/ Wake(a) \/ Begin(a) \/ NoTransition(a) \/ Debounce(a)
                          \/ Fire(a) \/ Unlock(a) \/ Execute(a) \/ Look(a) \/ Take(a) \/ Finish(a)
    BY DEF Wake, Begin, NoTransition, Debounce, Fire, Unlock, Execute, Look, Take, Finish, machine
<1>4. /\ ~ \E h \in Handlers, b \in Batches, lag \in 0..MaxLag : Receive(h, b, lag)
      /\ ~ \E r \in Reconcilers : Reconcile(r)
      /\ ~ \E c \in Cleaners : Collect(c) \/ TimeOut(c)
      /\ ~Tick
    BY DEF Receive, Reconcile, Collect, TimeOut, Tick, machine
<1> QED
    BY <1>1, <1>2, <1>3, <1>4 DEF Next, Step, Restart

\* However the goroutines of a vehicle interleave, its state changes by a row of
\* TransitionTable or to Parked: the commit of CheckPending, without the mutex and without a
\* lookup, can overwrite any state, but what it overtakes still makes a step of the table.
THEOREM TableStaysKept == Spec => TableIsKept
<1>1. Init => TableInv
    BY InitInv, VehicleAssumption DEF TableInv, Init, EdgesOrPark, InCommit
<1>2. TableInv /\ [Next]_vars => TableInv'
    BY InvStep, EdgesStep DEF TableInv
<1>3. TableInv /\ [Next]_vars =>
          [current' \in {current, "parked"} \/ ~exists' \/ <<current, current'>> \in TableRows]_vars
  <2> SUFFICES ASSUME TableInv, Next, exists', current' # current, current' # "parked"
               PROVE  <<current, current'>> \in TableRows
    OBVIOUS
  <2>1. PICK a \in Actors : Assign(a)
    BY OnlyAssign
  <2>2. pc[a] = "assign" /\ current' = edge[a][2]
    BY <2>1 DEF Assign
  <2>3. edge[a] \in TableEdges /\ current \in {edge[a][1], "parked"}
    BY <2>2 DEF TableInv, EdgesOrPark, InCommit
  <2> QED
    BY <2>2, <2>3, ParkedHasRows
<1> QED
    BY <1>1, <1>2, <1>3, PTL DEF Spec, TableIsKept
=============================================================================
