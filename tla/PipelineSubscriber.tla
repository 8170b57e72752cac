------------------------- MODULE PipelineSubscriber -------------------------
(***************************************************************************)
(* The fleet-telemetry consumer of internal/mqtt (PipelineSubscriber, its  *)
(* RedeliveryTracker and the paho client of dlq_production.go), with the   *)
(* broker it talks to.                                                     *)
(*                                                                         *)
(* Delivery is at QoS 1 with manual acknowledgement: the broker gives a    *)
(* message a packet id, sends it and keeps it until the id is acknowledged.*)
(* A broker of MQTT 3.1.1 sends it again only on the next connection; some *)
(* also do so within a connection after a while. Init chooses which.       *)
(* paho runs every delivery in a goroutine of its own (OrderMatters is     *)
(* false), and an acknowledgement counts only on the connection that the   *)
(* message came in on.                                                     *)
(***************************************************************************)
EXTENDS Integers, Sequences, FiniteSets

CONSTANTS Messages,        \* what the telemetry server publishes
          Cases,           \* how the bodies decode, and whether the broker resends a
                           \* message within a connection
          Handlers,        \* bound: how many deliveries are handled at once
          Ids,             \* packet ids
          MaxRedeliveries, \* PipelineSubscriberConfig
          Capacity,        \* TrackerCapacity
          MaxBreaks,       \* bound: lost connections and dead processes
          NoMessage, NoId

Bodies == {"atomics", "nothing", "malformed", "foreign"}

ASSUME SubscriberAssumption ==
    /\ Cases \subseteq [body : [Messages -> Bodies], resends : BOOLEAN]
    /\ MaxRedeliveries \in Nat \ {0}
    /\ Capacity \in Nat \ {0}
    /\ MaxBreaks \in Nat
    /\ NoMessage \notin Messages
    /\ NoId \notin Ids

VARIABLES
    \* the broker
    body,        \* how the body of a message decodes
    resends,     \* it resends within a connection
    subscribed,  \* the session has the pipeline's subscription
    status,      \* of every message
    packet,      \* the packet id of a message in flight
    due,         \* messages in flight that it is about to send again
    \* the connection and the process
    connected,
    process,     \* "up", "stopping", "down"
    routed,      \* AddRoute has been called
    callback,    \* where OnBrokerReconnect is
    breaks,      \* connections and processes lost so far
    tracker,     \* RedeliveryTracker, most recently used first
    since,       \* history: the ids counted since an id was counted
    \* one goroutine per delivery
    pc, msg, mid,
    live,        \* its connection is the current one
    \* history
    handled,     \* messages processed, dropped on purpose or dead-lettered
    drops        \* codec drops of a message by this process (bound: counted
                 \* only with a broker that resends on a new connection alone)

broker     == <<body, resends, subscribed, status, packet, due>>
counts     == <<tracker, since>>
link       == <<connected, process, routed, callback, breaks>>
goroutines == <<pc, msg, mid, live>>
history    == <<handled, drops>>
vars       == <<broker, link, counts, goroutines, history>>

Init ==
    /\ \E case \in Cases : body = case.body /\ resends = case.resends
    /\ subscribed = TRUE
    /\ status = [m \in Messages |-> "new"]
    /\ packet = [m \in Messages |-> NoId]
    /\ due = {}
    /\ connected = TRUE /\ process = "up" /\ routed = TRUE /\ callback = "idle"
    /\ breaks = 0
    /\ tracker = <<>> /\ since = [i \in Ids |-> {}]
    /\ pc = [h \in Handlers |-> "idle"]
    /\ msg = [h \in Handlers |-> NoMessage]
    /\ mid = [h \in Handlers |-> NoId]
    /\ live = [h \in Handlers |-> FALSE]
    /\ handled = {}
    /\ drops = [m \in Messages |-> 0]

-----------------------------------------------------------------------------
\* RedeliveryTracker: the list of counts by packet id, oldest last. The map beside it
\* leads to the element of an id.
\* Seeded fault: the old entry of an id stays in the list.
OthersKeepFault(i) == tracker

Counted(i) == \E k \in DOMAIN tracker : tracker[k].id = i
Place(i)   == CHOOSE k \in DOMAIN tracker : tracker[k].id = i
Others(i)  == IF Counted(i)
              THEN SubSeq(tracker, 1, Place(i) - 1) \o SubSeq(tracker, Place(i) + 1, Len(tracker))
              ELSE tracker
CountOf(i) == IF Counted(i) THEN tracker[Place(i)].count ELSE 0

\* Seeded fault: a message that comes again is counted as a new one.
NextCountFreshFault(i) == 1

\* (Bound: nothing depends on how far past MaxRedeliveries a count goes.)
NextCount(i) == IF CountOf(i) < MaxRedeliveries THEN CountOf(i) + 1 ELSE MaxRedeliveries

Evict(s) == IF Len(s) >= Capacity THEN SubSeq(s, 1, Len(s) - 1) ELSE s

Increment(i) ==
    LET rest == IF Counted(i) THEN Others(i) ELSE Evict(tracker)
    IN  /\ tracker' = <<[id |-> i, count |-> NextCount(i)]>> \o rest
        /\ since' = [j \in Ids |-> IF j = i THEN {} ELSE since[j] \cup {i}]

\* Seeded fault: forgetting an id clears the list.
ForgetAllFault(i) == tracker' = <<>> /\ UNCHANGED since

Forget(i) == tracker' = Others(i) /\ UNCHANGED since
Reset == tracker' = <<>> /\ since' = [i \in Ids |-> {}]

-----------------------------------------------------------------------------
\* The broker.
InFlight == {m \in Messages : status[m] = "inflight"}

Publish(m) ==
    /\ status[m] = "new"
    /\ status' = [status EXCEPT ![m] = IF subscribed THEN "queued" ELSE "missed"]
    /\ UNCHANGED <<body, resends, subscribed, packet, due, link, counts, goroutines, history>>

\* A message goes out with packet id i: for the first time, or again. Without a
\* route paho has no handler for it and does not acknowledge it.
Outgoing(m, i) ==
    \/ status[m] = "queued" /\ \A n \in Messages : packet[n] # i
    \/ m \in due /\ packet[m] = i

Deliver(h, m, i) ==
    /\ connected /\ Outgoing(m, i)
    /\ pc[h] = "idle"
    /\ status' = [status EXCEPT ![m] = "inflight"]
    /\ packet' = [packet EXCEPT ![m] = i]
    /\ due' = due \ {m}
    /\ IF routed
       THEN /\ pc' = [pc EXCEPT ![h] = "received"]
            /\ msg' = [msg EXCEPT ![h] = m]
            /\ mid' = [mid EXCEPT ![h] = i]
            /\ live' = [live EXCEPT ![h] = TRUE]
       ELSE UNCHANGED goroutines
    /\ UNCHANGED <<body, resends, subscribed, link, counts, history>>

\* Within a connection, after its retry interval.
Resend(m) ==
    /\ resends /\ connected
    /\ m \in InFlight \ due
    /\ due' = due \cup {m}
    /\ UNCHANGED <<body, resends, subscribed, status, packet, link, counts, goroutines, history>>

\* A connection ends; what still comes from its goroutines is not sent.
Hangup ==
    /\ connected' = FALSE
    /\ live' = [h \in Handlers |-> FALSE]
    /\ due' = {}

\* The client connects again. If the broker has kept the session it sends what is
\* in flight again, else everything it had for the client is gone.
Attach(kept) ==
    /\ connected' = TRUE
    /\ IF kept
       THEN /\ due' = InFlight
            /\ UNCHANGED <<status, packet>>
       ELSE /\ due' = {}
            /\ status' = [m \in Messages |->
                            IF status[m] \in {"queued", "inflight"} THEN "missed" ELSE status[m]]
            /\ packet' = [m \in Messages |-> NoId]

-----------------------------------------------------------------------------
\* The connection is lost and comes back; OnConnect runs in a goroutine. (Bound:
\* the callbacks of two connections do not overlap.)
Break ==
    /\ connected /\ breaks < MaxBreaks
    /\ breaks' = breaks + 1
    /\ Hangup
    /\ UNCHANGED <<body, resends, subscribed, status, packet, process, routed, callback, counts,
                   pc, msg, mid, history>>

Reconnect(kept) ==
    /\ ~connected /\ process # "down" /\ callback = "idle"
    /\ Attach(kept)
    /\ subscribed' = (subscribed /\ kept)
    /\ callback' = IF process = "up" /\ routed THEN "subscribe" ELSE "idle"
    /\ UNCHANGED <<body, resends, process, routed, breaks, counts, goroutines, history>>

\* OnBrokerReconnect: the SUBACK arrives, or the call fails or times out.
Resubscribed ==
    /\ callback = "subscribe" /\ connected
    /\ subscribed' = TRUE
    /\ callback' = "reset"
    /\ UNCHANGED <<body, resends, status, packet, due, connected, process, routed, breaks, counts,
                   goroutines, history>>

ResubscribeFailed ==
    /\ callback = "subscribe"
    /\ subscribed' \in {subscribed, subscribed \/ connected}
    /\ callback' = "idle"
    /\ UNCHANGED <<body, resends, status, packet, due, connected, process, routed, breaks, counts,
                   goroutines, history>>

ResetTracker ==
    /\ callback = "reset"
    /\ Reset
    /\ callback' = "idle"
    /\ UNCHANGED <<broker, connected, process, routed, breaks, goroutines, history>>

\* Stop, on a graceful shutdown: Unsubscribe, which also takes the route away.
Stop ==
    /\ process = "up" /\ routed /\ breaks < MaxBreaks
    /\ breaks' = breaks + 1
    /\ process' = "stopping"
    /\ subscribed' = (subscribed /\ ~connected)
    /\ routed' = ~connected
    /\ Reset
    /\ UNCHANGED <<body, resends, status, packet, due, connected, callback, goroutines, history>>

\* The process ends, after Stop or without it.
Die ==
    /\ \/ process = "up" /\ breaks < MaxBreaks /\ breaks' = breaks + 1
       \/ process = "stopping" /\ UNCHANGED breaks
    /\ process' = "down" /\ routed' = FALSE /\ callback' = "idle"
    /\ Hangup
    /\ Reset
    /\ pc' = [h \in Handlers |-> "idle"]
    /\ msg' = [h \in Handlers |-> NoMessage]
    /\ mid' = [h \in Handlers |-> NoId]
    /\ drops' = [m \in Messages |-> 0]
    /\ UNCHANGED <<body, resends, subscribed, status, packet, handled>>

\* The next process connects (NewProductionPipelineMQTT), and only after its VIN
\* cache has been loaded adds the route and subscribes (Start).
Boot(kept) ==
    /\ process = "down"
    /\ process' = "up"
    /\ Attach(kept)
    /\ subscribed' = (subscribed /\ kept)
    /\ UNCHANGED <<body, resends, routed, callback, breaks, counts, goroutines, history>>

Start ==
    /\ process = "up" /\ ~routed
    /\ routed' = TRUE
    /\ subscribed' \in {subscribed, connected}
    /\ UNCHANGED <<body, resends, status, packet, due, connected, process, callback, breaks, counts,
                   goroutines, history>>

-----------------------------------------------------------------------------
\* handlePayload.
Goto(h, label) == pc' = [pc EXCEPT ![h] = label]
Return(h) ==
    /\ Goto(h, "idle")
    /\ msg' = [msg EXCEPT ![h] = NoMessage]
    /\ mid' = [mid EXCEPT ![h] = NoId]
    /\ live' = [live EXCEPT ![h] = FALSE]

\* A topic of another shape, or an unknown VIN: acknowledged, tracker untouched.
DropUnroutable(h) ==
    /\ pc[h] = "received"
    /\ handled' = handled \cup {msg[h]}
    /\ Goto(h, "ack")
    /\ UNCHANGED <<broker, link, counts, msg, mid, live, drops>>

\* Seeded fault: a failed VIN lookup is treated as an unknown VIN.
GiveUpAcksFault(h) ==
    /\ pc[h] = "received" /\ body[msg[h]] # "foreign"
    /\ Goto(h, "ack")
    /\ UNCHANGED <<broker, link, counts, msg, mid, live, history>>

\* The resolver or the pipeline fails, the context is cancelled or the handler
\* panics: no acknowledgement.
GiveUp(h) ==
    /\ pc[h] = "received" /\ body[msg[h]] # "foreign"
    /\ Return(h)
    /\ UNCHANGED <<broker, link, counts, history>>

\* The pipeline takes the atomics, or the codec finds nothing in the body.
Accept(h) ==
    /\ pc[h] = "received" /\ body[msg[h]] \in {"atomics", "nothing"}
    /\ handled' = handled \cup {msg[h]}
    /\ Goto(h, "forget")
    /\ UNCHANGED <<broker, link, counts, msg, mid, live, drops>>

\* A codec drop: handlePipelineError counts it, and dead-letters the message when
\* it has been counted often enough.
CountDrop(h) ==
    /\ pc[h] = "received" /\ body[msg[h]] = "malformed"
    /\ Increment(mid[h])
    /\ drops' = [drops EXCEPT ![msg[h]] =
                                IF resends \/ @ > MaxRedeliveries THEN @ ELSE @ + 1]
    /\ IF NextCount(mid[h]) >= MaxRedeliveries
       THEN Goto(h, "publish") /\ UNCHANGED <<msg, mid, live>>
       ELSE Return(h)
    /\ UNCHANGED <<broker, link, handled>>

\* dlqPublishAndMaybeAck. A publish that fails or times out may have reached the
\* dead-letter topic all the same.
DeadLetter(h) ==
    /\ pc[h] = "publish"
    /\ handled' = handled \cup {msg[h]}
    /\ Goto(h, "forget")
    /\ UNCHANGED <<broker, link, counts, msg, mid, live, drops>>

\* Seeded fault: a failed publish is acknowledged all the same.
DeadLetterFailsAcksFault(h) ==
    /\ pc[h] = "publish"
    /\ Goto(h, "forget")
    /\ UNCHANGED <<broker, link, counts, msg, mid, live, history>>

DeadLetterFails(h) ==
    /\ pc[h] = "publish"
    /\ handled' \in {handled, handled \cup {msg[h]}}
    /\ drops' = [drops EXCEPT ![msg[h]] = 0]
    /\ Return(h)
    /\ UNCHANGED <<broker, link, counts>>

ForgetCount(h) ==
    /\ pc[h] = "forget"
    /\ Forget(mid[h])
    /\ Goto(h, "ack")
    /\ UNCHANGED <<broker, link, msg, mid, live, history>>

\* Ack names a packet id, not a message.
Ack(h) ==
    /\ pc[h] = "ack"
    /\ IF live[h] /\ connected
       THEN LET acked == {m \in InFlight : packet[m] = mid[h]} IN
            /\ status' = [m \in Messages |-> IF m \in acked THEN "settled" ELSE status[m]]
            /\ packet' = [m \in Messages |-> IF m \in acked THEN NoId ELSE packet[m]]
            /\ due' = due \ acked
       ELSE UNCHANGED <<status, packet, due>>
    /\ Return(h)
    /\ UNCHANGED <<body, resends, subscribed, link, counts, history>>

-----------------------------------------------------------------------------
Handle(h) ==
    \/ DropUnroutable(h) \/ GiveUp(h) \/ Accept(h) \/ CountDrop(h)
    \/ DeadLetter(h) \/ DeadLetterFails(h) \/ ForgetCount(h) \/ Ack(h)

Next ==
    \/ \E m \in Messages : Publish(m) \/ Resend(m)
    \/ \E h \in Handlers, m \in Messages, i \in Ids : Deliver(h, m, i)
    \/ \E h \in Handlers : Handle(h)
    \/ Break \/ Resubscribed \/ ResubscribeFailed \/ ResetTracker
    \/ Stop \/ Die \/ Start
    \/ \E kept \in BOOLEAN : Reconnect(kept) \/ Boot(kept)

Spec == Init /\ [][Next]_vars

\* Goroutines run, timers fire, the client and the pods come back. No failure
\* lasts: of the attempts to look a VIN up, to process and to dead-letter a
\* message one succeeds if they are repeated for ever, and of the messages that
\* wait none is passed over for ever.
Settle(m, h) == msg[h] = m /\ (DropUnroutable(h) \/ Accept(h) \/ CountDrop(h))

Fairness ==
    /\ \A m \in Messages :
          /\ WF_vars(Resend(m))
          /\ SF_vars(\E h \in Handlers, i \in Ids : Deliver(h, m, i))
          /\ SF_vars(\E h \in Handlers : Settle(m, h))
          /\ SF_vars(\E h \in Handlers : msg[h] = m /\ DeadLetter(h))
    /\ \A h \in Handlers : WF_vars(Handle(h))
    /\ WF_vars(Resubscribed \/ ResubscribeFailed \/ ResetTracker)
    /\ WF_vars(\E kept \in BOOLEAN : Reconnect(kept) \/ Boot(kept))
    /\ WF_vars(Start) /\ WF_vars(process = "stopping" /\ Die)

FairSpec == Spec /\ Fairness

-----------------------------------------------------------------------------
Statuses == {"new", "queued", "inflight", "settled", "missed"}
Labels == {"idle", "received", "publish", "forget", "ack"}

\* The values of every variable; the tracker is bounded and has one entry per id.
TypeOK ==
    /\ body \in [Messages -> Bodies]
    /\ resends \in BOOLEAN /\ subscribed \in BOOLEAN /\ connected \in BOOLEAN
    /\ routed \in BOOLEAN
    /\ status \in [Messages -> Statuses]
    /\ packet \in [Messages -> Ids \cup {NoId}]
    /\ due \subseteq InFlight
    /\ process \in {"up", "stopping", "down"}
    /\ callback \in {"idle", "subscribe", "reset"}
    /\ breaks \in 0..MaxBreaks
    /\ pc \in [Handlers -> Labels]
    /\ msg \in [Handlers -> Messages \cup {NoMessage}]
    /\ mid \in [Handlers -> Ids \cup {NoId}]
    /\ live \in [Handlers -> BOOLEAN]
    /\ handled \subseteq Messages
    /\ drops \in [Messages -> 0..MaxRedeliveries + 1]
    /\ since \in [Ids -> SUBSET Ids]
    /\ tracker \in Seq([id : Ids, count : 1..MaxRedeliveries]) /\ Len(tracker) <= Capacity
    /\ \A j, k \in DOMAIN tracker : tracker[j].id = tracker[k].id => j = k

\* A message that the broker counts as delivered was processed, dropped on
\* purpose or dead-lettered ("messages are acked only AFTER pipeline.Process
\* returns", "a transient DB outage during VIN lookup MUST NOT lose data"),
\* although an acknowledgement names only a packet id, which is used again, and
\* handlers of an earlier connection may still be running. With a broker that
\* resends within a connection it is not so: the second acknowledgement of one
\* message may settle the next one that gets its id.
AckedWasHandled ==
    ~resends => \A m \in Messages : status[m] = "settled" => m \in handled

\* Every message the broker has taken for the subscriber is settled in the end,
\* poison included, unless the broker loses the session. That needs a tracker with a
\* place for every poison message: of more than that, each may evict the count of the
\* next before it comes again, and none is ever dead-lettered.
PoisonFits == Cardinality({m \in Messages : body[m] = "malformed"}) <= Capacity
EveryMessageSettles ==
    \A m \in Messages :
        resends /\ PoisonFits /\ status[m] = "queued" ~> status[m] \in {"settled", "missed"}

\* MaxRedeliveries "caps how many times the broker may re-deliver a single
\* payload before the subscriber writes it to the DLQ and acks": when a process
\* has dropped a message more often, that has at least begun.
PoisonIsCapped ==
    \A m \in Messages :
        drops[m] > MaxRedeliveries =>
            m \in handled \/ \E h \in Handlers : msg[h] = m /\ pc[h] = "publish"

\* With more packet ids about than the tracker has places a count may be evicted, and the
\* message under its id starts anew. It is kept until then: unless the message that came in
\* under its id was handled, or the counts are all thrown away on a reconnect or with the
\* process, a count goes down only after Capacity other ids have been counted since, by
\* whichever handlers, however often the others are counted, forgotten and used again.
ForgetsCount(i) ==
    \/ \E h \in Handlers : ForgetCount(h) /\ mid[h] = i
    \/ ResetTracker \/ Stop \/ Die
EvictedIsOldest ==
    [][\A i \in Ids :
          CountOf(i)' < CountOf(i) => ForgetsCount(i) \/ Cardinality(since'[i]) >= Capacity]_vars

\* Packet ids, connections, goroutines and the tracker implement the contract: of each
\* message the session owes nothing, or the message, or settles it for good.
Standing == [new |-> "unknown", queued |-> "owed", inflight |-> "owed",
             settled |-> "settled", missed |-> "missed"]
Contract == INSTANCE SubscriberContract WITH
                strict <- ~resends,
                state  <- [m \in Messages |-> Standing[status[m]]]
ContractSpec == Contract!Spec
=============================================================================
