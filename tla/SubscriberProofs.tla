--------------------------- MODULE SubscriberProofs ---------------------------
(***************************************************************************)
(* Theorems about PipelineSubscriber, for every set of messages, handlers  *)
(* and packet ids: that an acknowledgement, which names only a packet id,  *)
(* settles the message that was handled and no other; that the tracker     *)
(* keeps one count per id and evicts only one after as many others have    *)
(* been counted since as it has places; and that the subscriber with its   *)
(* broker session implements SubscriberContract.                           *)
(***************************************************************************)
EXTENDS PipelineSubscriber, FiniteSets, FiniteSetTheorems, SequenceTheorems, TLAPS

\* A handler whose acknowledgement would count.
Owns(h) == live[h] /\ pc[h] # "idle"

Shape ==
    /\ resends \in BOOLEAN /\ connected \in BOOLEAN
    /\ status \in [Messages -> Statuses]
    /\ packet \in [Messages -> Ids \cup {NoId}]
    /\ due \subseteq InFlight
    /\ handled \subseteq Messages
    /\ pc \in [Handlers -> Labels]
    /\ msg \in [Handlers -> Messages \cup {NoMessage}]
    /\ mid \in [Handlers -> Ids \cup {NoId}]
    /\ live \in [Handlers -> BOOLEAN]
    /\ \A h \in Handlers : pc[h] # "idle" => msg[h] \in Messages

\* A handler of a connection that is over owns nothing.
LiveIsConnected == \A h \in Handlers : live[h] => connected

\* handlePayload acknowledges last.
AckComesLast == \A h \in Handlers : pc[h] \in {"forget", "ack"} => msg[h] \in handled

\* No packet id is in use twice.
IdsDistinct == \A m, n \in InFlight : packet[m] = packet[n] => m = n

\* An owned message is in flight under the id its handler was given.
Custody ==
    \A h \in Handlers :
        Owns(h) => msg[h] \in InFlight /\ packet[msg[h]] = mid[h] /\ msg[h] \notin due

OneOwner == \A g, h \in Handlers : Owns(g) /\ Owns(h) /\ msg[g] = msg[h] => g = h

Inv ==
    /\ Shape /\ LiveIsConnected /\ AckComesLast /\ IdsDistinct
    /\ ~resends => Custody /\ OneOwner
    /\ AckedWasHandled

\* The variables Inv depends on.
seen == <<resends, connected, status, packet, due, handled, pc, msg, mid, live>>

LEMMA InitInv == Init => Inv
  <1> SUFFICES ASSUME Init PROVE Inv
    OBVIOUS
  <1>1. InFlight = {} /\ \A h \in Handlers : pc[h] = "idle" /\ ~live[h]
    BY DEF Init, InFlight
  <1>2. /\ resends \in BOOLEAN /\ connected \in BOOLEAN
        /\ status \in [Messages -> Statuses]
        /\ packet \in [Messages -> Ids \cup {NoId}]
        /\ due \subseteq InFlight /\ handled \subseteq Messages
    BY SubscriberAssumption DEF Init, Statuses
  <1>3. /\ pc \in [Handlers -> Labels] /\ msg \in [Handlers -> Messages \cup {NoMessage}]
        /\ mid \in [Handlers -> Ids \cup {NoId}] /\ live \in [Handlers -> BOOLEAN]
    BY DEF Init, Labels
  <1>4. AckedWasHandled
    BY DEF Init, AckedWasHandled
  <1> QED BY <1>1, <1>2, <1>3, <1>4 DEF Inv, Shape, LiveIsConnected, AckComesLast, IdsDistinct,
                                        Custody, OneOwner, Owns

LEMMA SeenUnchanged == Inv /\ UNCHANGED seen => Inv'
  BY DEF seen, Inv, Shape, LiveIsConnected, AckComesLast, IdsDistinct, Custody, OneOwner,
         AckedWasHandled, Owns, InFlight

\* A message is published, or becomes due again.
LEMMA PublishInv == \A m \in Messages : Inv /\ Publish(m) => Inv'
  <1> SUFFICES ASSUME NEW m \in Messages, Inv, Publish(m) PROVE Inv'
    OBVIOUS
  <1> USE DEF Publish, link, goroutines, history, Inv, Shape, LiveIsConnected, AckComesLast, IdsDistinct,
              Custody, OneOwner, AckedWasHandled, Owns, InFlight, Statuses
  <1> QED OBVIOUS

LEMMA ResendInv == \A m \in Messages : Inv /\ Resend(m) => Inv'
  BY DEF Resend, link, goroutines, history, Inv, Shape, LiveIsConnected, AckComesLast, IdsDistinct,
         Custody, OneOwner, AckedWasHandled, Owns, InFlight

\* A delivery finds the message without an owner.
LEMMA DeliverInv ==
    \A h \in Handlers, m \in Messages, i \in Ids : Inv /\ Deliver(h, m, i) => Inv'
  <1> SUFFICES ASSUME NEW h \in Handlers, NEW m \in Messages, NEW i \in Ids,
                      Inv, Deliver(h, m, i)
               PROVE  Inv'
    OBVIOUS
  <1> USE DEF Deliver, Outgoing, link, goroutines, history
  <1>1. /\ resends' = resends /\ connected' = connected /\ handled' = handled
        /\ status' = [status EXCEPT ![m] = "inflight"]
        /\ packet' = [packet EXCEPT ![m] = i]
        /\ due' = due \ {m}
    OBVIOUS
  <1>2. Shape'
    <2>1. status' \in [Messages -> Statuses] /\ packet' \in [Messages -> Ids \cup {NoId}]
      BY <1>1 DEF Inv, Shape, Statuses
    <2>2. due' \subseteq InFlight'
      BY <1>1 DEF Inv, Shape, InFlight
    <2>3. /\ pc' \in [Handlers -> Labels] /\ msg' \in [Handlers -> Messages \cup {NoMessage}]
          /\ mid' \in [Handlers -> Ids \cup {NoId}] /\ live' \in [Handlers -> BOOLEAN]
      BY DEF Inv, Shape, Labels
    <2>4. \A g \in Handlers : pc'[g] # "idle" => msg'[g] \in Messages
      BY DEF Inv, Shape
    <2> QED BY <1>1, <2>1, <2>2, <2>3, <2>4 DEF Inv, Shape
  <1>3. LiveIsConnected' /\ AckComesLast' /\ AckedWasHandled'
    BY DEF Inv, Shape, LiveIsConnected, AckComesLast, AckedWasHandled
  <1>4. IdsDistinct'
    BY DEF Inv, Shape, IdsDistinct, InFlight
  <1>5. ASSUME ~resends PROVE \A g \in Handlers : Owns(g) => msg[g] # m
    BY <1>5 DEF Inv, Custody, InFlight
  <1>6. ~resends => Custody' /\ OneOwner'
    <2> SUFFICES ASSUME ~resends PROVE Custody' /\ OneOwner'
      OBVIOUS
    <2>1. \A g \in Handlers \ {h} : Owns(g)' => Owns(g) /\ msg'[g] = msg[g] /\ mid'[g] = mid[g]
      BY DEF Inv, Shape, Owns
    <2>2. Owns(h)' => msg'[h] = m /\ mid'[h] = i
      BY DEF Inv, Shape, Owns
    <2>3. Custody'
      BY <1>1, <1>5, <2>1, <2>2 DEF Inv, Shape, Custody, InFlight
    <2>4. OneOwner'
      BY <1>5, <2>1, <2>2 DEF Inv, OneOwner
    <2> QED BY <2>3, <2>4
  <1> QED BY <1>1, <1>2, <1>3, <1>4, <1>6 DEF Inv

\* When the connection ends nothing is owned, and nothing is due until the next.
LEMMA HangupInv ==
    Inv /\ Hangup /\ UNCHANGED <<resends, status, packet, handled, pc, msg, mid>> => Inv'
  <1> SUFFICES ASSUME Inv, Hangup, UNCHANGED <<resends, status, packet, handled, pc, msg, mid>>
               PROVE  Inv'
    OBVIOUS
  <1>1. \A h \in Handlers : ~live'[h]
    BY DEF Hangup
  <1>2. Shape'
    BY DEF Hangup, Inv, Shape, InFlight
  <1>3. LiveIsConnected' /\ Custody' /\ OneOwner'
    BY <1>1 DEF LiveIsConnected, Custody, OneOwner, Owns
  <1>4. AckComesLast' /\ IdsDistinct' /\ AckedWasHandled'
    BY DEF Inv, AckComesLast, IdsDistinct, AckedWasHandled, InFlight
  <1> QED BY <1>2, <1>3, <1>4 DEF Inv

LEMMA DieInv == Inv /\ Die => Inv'
  <1> SUFFICES ASSUME Inv, Die PROVE Inv'
    OBVIOUS
  <1>1. /\ UNCHANGED <<resends, status, packet, handled>>
        /\ connected' = FALSE /\ due' = {}
        /\ live' = [h \in Handlers |-> FALSE]
        /\ pc' = [h \in Handlers |-> "idle"]
        /\ msg' = [h \in Handlers |-> NoMessage]
        /\ mid' = [h \in Handlers |-> NoId]
    BY DEF Die, Hangup
  <1>2. Shape'
    BY <1>1 DEF Inv, Shape, InFlight, Labels
  <1>3. LiveIsConnected' /\ AckComesLast' /\ Custody' /\ OneOwner'
    BY <1>1 DEF LiveIsConnected, AckComesLast, Custody, OneOwner, Owns
  <1>4. IdsDistinct' /\ AckedWasHandled'
    BY <1>1 DEF Inv, IdsDistinct, AckedWasHandled, InFlight
  <1> QED BY <1>2, <1>3, <1>4 DEF Inv

LEMMA AttachInv ==
    \A kept \in BOOLEAN :
        Inv /\ ~connected /\ Attach(kept) /\ UNCHANGED <<resends, handled, goroutines>> => Inv'
  <1> SUFFICES ASSUME NEW kept \in BOOLEAN, Inv, ~connected, Attach(kept),
                      UNCHANGED <<resends, handled, goroutines>>
               PROVE  Inv'
    OBVIOUS
  <1>1. \A h \in Handlers : ~Owns(h)'
    BY DEF Inv, LiveIsConnected, Owns, goroutines
  <1>2. Custody' /\ OneOwner'
    BY <1>1 DEF Custody, OneOwner
  <1>3. Shape' /\ LiveIsConnected' /\ AckComesLast' /\ IdsDistinct' /\ AckedWasHandled'
    BY DEF Attach, goroutines, Inv, Shape, LiveIsConnected, AckComesLast, IdsDistinct,
           AckedWasHandled, InFlight, Statuses
  <1> QED BY <1>2, <1>3 DEF Inv

\* A step of a handler before its acknowledgement.
LEMMA HandlerInv ==
    \A h \in Handlers :
        Inv /\ (DropUnroutable(h) \/ GiveUp(h) \/ Accept(h) \/ CountDrop(h) \/ DeadLetter(h)
                  \/ DeadLetterFails(h) \/ ForgetCount(h)) => Inv'
  <1> SUFFICES ASSUME NEW h \in Handlers, Inv,
                      \/ DropUnroutable(h) \/ GiveUp(h) \/ Accept(h) \/ CountDrop(h)
                      \/ DeadLetter(h) \/ DeadLetterFails(h) \/ ForgetCount(h)
               PROVE  Inv'
    OBVIOUS
  <1>1. /\ UNCHANGED <<broker, link>> \/ UNCHANGED <<broker, connected>>
        /\ handled \subseteq handled' /\ handled' \subseteq Messages
        /\ \/ Goto(h, "publish") /\ UNCHANGED <<msg, mid, live>>
           \/ /\ Goto(h, "forget") \/ Goto(h, "ack")
              /\ msg[h] \in handled'
              /\ UNCHANGED <<msg, mid, live>>
           \/ Return(h)
    BY DEF DropUnroutable, GiveUp, Accept, CountDrop, DeadLetter, DeadLetterFails, ForgetCount,
           Inv, Shape, AckComesLast, history, link
  <1>2. /\ pc[h] # "idle" /\ msg[h] \in Messages
        /\ UNCHANGED <<resends, connected, status, packet, due>>
    BY <1>1 DEF DropUnroutable, GiveUp, Accept, CountDrop, DeadLetter, DeadLetterFails,
                ForgetCount, Inv, Shape, broker, link
  <1>3. Shape'
    BY <1>1, <1>2 DEF Goto, Return, Inv, Shape, InFlight, Labels
  <1>4. LiveIsConnected' /\ IdsDistinct' /\ AckedWasHandled'
    BY <1>1, <1>2 DEF Goto, Return, Inv, Shape, LiveIsConnected, IdsDistinct, AckedWasHandled,
                      InFlight
  <1>5. AckComesLast'
    BY <1>1, <1>2 DEF Goto, Return, Inv, Shape, AckComesLast
  <1>6. \A g \in Handlers : Owns(g)' => Owns(g) /\ msg'[g] = msg[g] /\ mid'[g] = mid[g]
    BY <1>1, <1>2 DEF Goto, Return, Inv, Shape, Owns
  <1>7. ~resends => Custody' /\ OneOwner'
    BY <1>2, <1>6 DEF Inv, Custody, OneOwner, InFlight
  <1> QED BY <1>2, <1>3, <1>4, <1>5, <1>7 DEF Inv

\* What an acknowledgement settles is the message its handler has handled.
LEMMA AckInv == \A h \in Handlers : Inv /\ Ack(h) => Inv'
  <1> SUFFICES ASSUME NEW h \in Handlers, Inv, Ack(h) PROVE Inv'
    OBVIOUS
  <1> DEFINE effective == live[h] /\ connected
             acked == IF effective THEN {m \in InFlight : packet[m] = mid[h]} ELSE {}
  <1>1. /\ status' = [m \in Messages |-> IF m \in acked THEN "settled" ELSE status[m]]
        /\ packet' = [m \in Messages |-> IF m \in acked THEN NoId ELSE packet[m]]
        /\ due' = due \ acked
    <2>1. CASE effective
      BY <2>1 DEF Ack
    <2>2. CASE ~effective
      <3>1. UNCHANGED <<status, packet, due>>
        BY <2>2 DEF Ack
      <3> QED BY <2>2, <3>1 DEF Inv, Shape
    <2> QED BY <2>1, <2>2
  <1>2. /\ pc[h] = "ack" /\ msg[h] \in handled /\ msg[h] \in Messages
        /\ Return(h)
        /\ UNCHANGED <<resends, connected, handled>>
    BY DEF Ack, Inv, Shape, AckComesLast, link, history
  <1>3. InFlight' = InFlight \ acked /\ acked \subseteq InFlight
    BY <1>1 DEF InFlight
  <1>4. Shape'
    <2>1. status' \in [Messages -> Statuses] /\ packet' \in [Messages -> Ids \cup {NoId}]
      BY <1>1 DEF Inv, Shape, Statuses
    <2>2. due' \subseteq InFlight'
      BY <1>1, <1>3 DEF Inv, Shape
    <2> HIDE DEF acked
    <2> QED BY <1>2, <2>1, <2>2 DEF Return, Goto, Inv, Shape, Labels
  <1>5. LiveIsConnected' /\ AckComesLast'
    BY <1>2 DEF Return, Goto, Inv, Shape, LiveIsConnected, AckComesLast
  <1>6. IdsDistinct'
    BY <1>1, <1>3 DEF IdsDistinct, Inv, InFlight
  <1>7. \A g \in Handlers : Owns(g)' => g # h /\ Owns(g) /\ msg'[g] = msg[g] /\ mid'[g] = mid[g]
    BY <1>2 DEF Return, Goto, Inv, Shape, Owns
  <1>8. ~resends /\ effective => acked = {msg[h]}
    <2> SUFFICES ASSUME ~resends, effective PROVE acked = {msg[h]}
      OBVIOUS
    <2>1. msg[h] \in InFlight /\ packet[msg[h]] = mid[h]
      BY <1>2 DEF Inv, Custody, Owns
    <2> QED BY <2>1 DEF Inv, IdsDistinct
  <1>9. ~resends => Custody' /\ OneOwner'
    <2> SUFFICES ASSUME ~resends PROVE Custody' /\ OneOwner'
      OBVIOUS
    <2>1. \A g \in Handlers : Owns(g)' => msg[g] \notin acked
      <3>1. effective => Owns(h)
        BY <1>2 DEF Owns
      <3>2. \A g \in Handlers : Owns(g)' /\ effective => msg[g] # msg[h]
        BY <1>7, <3>1 DEF Inv, OneOwner
      <3> QED BY <1>8, <3>2
    <2> HIDE DEF acked
    <2>2. Custody'
      <3> SUFFICES ASSUME NEW g \in Handlers, Owns(g)'
                   PROVE  msg'[g] \in InFlight' /\ packet'[msg'[g]] = mid'[g] /\ msg'[g] \notin due'
        BY DEF Custody
      <3>1. msg[g] \in InFlight /\ packet[msg[g]] = mid[g] /\ msg[g] \notin due
        BY <1>7 DEF Inv, Custody
      <3> QED BY <1>1, <1>3, <1>7, <2>1, <3>1 DEF InFlight
    <2>3. OneOwner'
      BY <1>7 DEF Inv, OneOwner
    <2> QED BY <2>2, <2>3
  <1>10. AckedWasHandled'
    BY <1>1, <1>2, <1>8 DEF Inv, AckedWasHandled
  <1> QED BY <1>2, <1>4, <1>5, <1>6, <1>9, <1>10 DEF Inv

\* A dead process has no connection.
DownIsOffline == process = "down" => ~connected

LEMMA DownInv == DownIsOffline /\ [Next]_vars => DownIsOffline'
  BY DEF DownIsOffline, Next, vars, broker, link, goroutines, history, Publish, Resend, Deliver,
         Handle, DropUnroutable, GiveUp, Accept, CountDrop, DeadLetter, DeadLetterFails,
         ForgetCount, Ack, Break, Hangup, Reconnect, Resubscribed, ResubscribeFailed,
         ResetTracker, Stop, Die, Boot, Start

LEMMA NextInv == Inv /\ DownIsOffline /\ [Next]_vars => Inv'
  <1> SUFFICES ASSUME Inv, DownIsOffline, [Next]_vars PROVE Inv'
    OBVIOUS
  <1> USE DEF broker, link, goroutines, history
  <1>1. CASE UNCHANGED vars \/ Resubscribed \/ ResubscribeFailed \/ ResetTracker \/ Stop \/ Start
    <2>1. UNCHANGED seen
      BY <1>1 DEF vars, seen, Resubscribed, ResubscribeFailed, ResetTracker, Stop, Start
    <2> QED BY <2>1, SeenUnchanged
  <1>2. CASE \E m \in Messages : Publish(m) \/ Resend(m)
    BY <1>2, PublishInv, ResendInv
  <1>3. CASE \E h \in Handlers, m \in Messages, i \in Ids : Deliver(h, m, i)
    BY <1>3, DeliverInv
  <1>4. CASE \E h \in Handlers : Handle(h)
    BY <1>4, HandlerInv, AckInv DEF Handle
  <1>5. CASE Break
    BY <1>5, HangupInv DEF Break
  <1>6. CASE Die
    BY <1>6, DieInv
  <1>7. CASE \E kept \in BOOLEAN : Reconnect(kept)
    BY <1>7, AttachInv DEF Reconnect
  <1>8. CASE \E kept \in BOOLEAN : Boot(kept)
    BY <1>8, AttachInv DEF Boot, DownIsOffline
  <1> QED BY <1>1, <1>2, <1>3, <1>4, <1>5, <1>6, <1>7, <1>8 DEF Next

\* With a broker that sends a message again on the next connection only, what it
\* counts as delivered has been processed, dropped on purpose or dead-lettered:
\* for every number of messages, concurrent handlers, packet ids and reconnects.
THEOREM AcksAreSafe == Spec => []AckedWasHandled
  <1>1. Inv => AckedWasHandled
    BY DEF Inv
  <1>2. Init => DownIsOffline
    BY DEF Init, DownIsOffline
  <1> QED BY <1>1, <1>2, InitInv, DownInv, NextInv, PTL DEF Spec

\* With such a broker no message is in the hands of two handlers whose acknowledgement would
\* count, and each has its message in flight under the id it would acknowledge, although
\* handlers of connections that are over go on and share the tracker.
THEOREM OneLiveHandler == Spec => [](~resends => Custody /\ OneOwner)
  <1>1. Inv => (~resends => Custody /\ OneOwner)
    BY DEF Inv
  <1>2. Init => DownIsOffline
    BY DEF Init, DownIsOffline
  <1> QED BY <1>1, <1>2, InitInv, DownInv, NextInv, PTL DEF Spec
-----------------------------------------------------------------------------
(* The tracker: what its operations do to the list of counts. *)

Entry == [id : Ids, count : 1..MaxRedeliveries]
OneEach(s) == \A j, k \in DOMAIN s : s[j].id = s[k].id => j = k
Lists == {s \in Seq(Entry) : Len(s) <= Capacity /\ OneEach(s)}

\* The count of an id in a list.
Listed(s, i)  == \E k \in DOMAIN s : s[k].id = i
CountIn(s, i) == IF Listed(s, i) THEN s[CHOOSE k \in DOMAIN s : s[k].id = i].count ELSE 0

\* A list is a function on its positions.
LEMMA ListShape ==
  ASSUME NEW s \in Seq(Entry)
  PROVE  /\ Len(s) \in Nat /\ DOMAIN s = 1..Len(s)
         /\ \A k \in 1..Len(s) : s[k] \in Entry
  BY LenProperties, ElementOfSeq

\* In a list with one entry per id the count of an id is that of its entry.
LEMMA CountOfEntry ==
  ASSUME NEW s \in Seq(Entry), OneEach(s), NEW k \in DOMAIN s
  PROVE  Listed(s, s[k].id) /\ CountIn(s, s[k].id) = s[k].count
  <1> DEFINE c == CHOOSE j \in DOMAIN s : s[j].id = s[k].id
  <1>1. c \in DOMAIN s /\ s[c].id = s[k].id
    OBVIOUS
  <1>2. c = k
    BY <1>1 DEF OneEach
  <1> QED BY <1>2 DEF Listed, CountIn

\* A count is a number, and not zero just for the ids that are listed.
LEMMA CountIsNumber ==
  ASSUME NEW s \in Seq(Entry), NEW i
  PROVE  /\ CountIn(s, i) \in 0..MaxRedeliveries
         /\ Listed(s, i) <=> CountIn(s, i) # 0
  <1>1. CASE Listed(s, i)
    <2> DEFINE c == CHOOSE j \in DOMAIN s : s[j].id = i
    <2>1. c \in DOMAIN s
      BY <1>1 DEF Listed
    <2>2. s[c].count \in 1..MaxRedeliveries
      BY <2>1, ListShape DEF Entry
    <2> QED BY <1>1, <2>2, SubscriberAssumption DEF CountIn
  <1>2. CASE ~Listed(s, i)
    BY <1>2, SubscriberAssumption DEF CountIn
  <1> QED BY <1>1, <1>2

\* Taking one element out of a list leaves the others, in their order.
Without(s, p) == SubSeq(s, 1, p - 1) \o SubSeq(s, p + 1, Len(s))

LEMMA WithoutShape ==
  ASSUME NEW s \in Seq(Entry), NEW p \in 1..Len(s)
  PROVE  /\ Without(s, p) \in Seq(Entry) /\ Len(Without(s, p)) = Len(s) - 1
         /\ \A k \in 1..Len(s) - 1 : Without(s, p)[k] = s[IF k < p THEN k ELSE k + 1]
  <1> DEFINE a == SubSeq(s, 1, p - 1)
             b == SubSeq(s, p + 1, Len(s))
  <1>1. Len(s) \in Nat /\ \A k \in 1..Len(s) : s[k] \in Entry
    BY ListShape
  <1>2. /\ a \in Seq(Entry) /\ Len(a) = p - 1
        /\ \A k \in 1..p - 1 : a[k] = s[k]
    <2>1. \A k \in 1..p - 1 : s[k] \in Entry
      BY <1>1
    <2>2. 1 \in Int /\ p - 1 \in Int
      BY <1>1
    <2>3. /\ a \in Seq(Entry) /\ Len(a) = (IF 1 <= p - 1 THEN (p - 1) - 1 + 1 ELSE 0)
          /\ \A k \in 1..(p - 1) - 1 + 1 : a[k] = s[1 + k - 1]
      BY <2>1, <2>2, SubSeqProperties
    <2> QED BY <1>1, <2>3
  <1>3. /\ b \in Seq(Entry) /\ Len(b) = Len(s) - p
        /\ \A k \in 1..Len(s) - p : b[k] = s[p + k]
    <2>1. \A k \in p + 1..Len(s) : s[k] \in Entry
      BY <1>1
    <2>2. p + 1 \in Int /\ Len(s) \in Int
      BY <1>1
    <2>3. /\ b \in Seq(Entry) /\ Len(b) = (IF p + 1 <= Len(s) THEN Len(s) - (p + 1) + 1 ELSE 0)
          /\ \A k \in 1..Len(s) - (p + 1) + 1 : b[k] = s[(p + 1) + k - 1]
      BY <2>1, <2>2, SubSeqProperties
    <2> QED BY <1>1, <2>3
  <1> HIDE DEF a, b
  <1>4. /\ a \o b \in Seq(Entry) /\ Len(a \o b) = Len(a) + Len(b)
        /\ \A k \in 1..Len(a) + Len(b) : (a \o b)[k] = IF k <= Len(a) THEN a[k] ELSE b[k - Len(a)]
    BY <1>2, <1>3, ConcatProperties
  <1>5. Without(s, p) = a \o b
    BY DEF Without, a, b
  <1>6. ASSUME NEW k \in 1..Len(s) - 1
        PROVE  Without(s, p)[k] = s[IF k < p THEN k ELSE k + 1]
    <2>1. CASE k < p
      BY <1>1, <1>2, <1>3, <1>4, <1>5, <2>1
    <2>2. CASE ~(k < p)
      <3>1. k - Len(a) \in 1..Len(s) - p /\ ~(k <= Len(a)) /\ k \in 1..Len(a) + Len(b)
        BY <1>1, <1>2, <1>3, <2>2
      <3>2. Without(s, p)[k] = b[k - Len(a)]
        BY <1>4, <1>5, <3>1
      <3>3. b[k - Len(a)] = s[p + (k - Len(a))]
        BY <1>3, <3>1
      <3>4. p + (k - Len(a)) = k + 1
        BY <1>1, <1>2
      <3> QED BY <2>2, <3>2, <3>3, <3>4
    <2> QED BY <2>1, <2>2
  <1>7. Without(s, p) \in Seq(Entry)
    BY <1>4, <1>5
  <1>8. Len(Without(s, p)) = Len(s) - 1
    <2>1. Len(a) + Len(b) = Len(s) - 1
      BY <1>1, <1>2, <1>3
    <2> QED BY <1>4, <1>5, <2>1
  <1> QED BY <1>6, <1>7, <1>8

\* So it keeps one entry per id, drops one id and keeps the counts of the others.
LEMMA WithoutCounts ==
  ASSUME NEW s \in Seq(Entry), OneEach(s), NEW p \in 1..Len(s)
  PROVE  /\ OneEach(Without(s, p)) /\ ~Listed(Without(s, p), s[p].id)
         /\ \A i : i # s[p].id => CountIn(Without(s, p), i) = CountIn(s, i)
  <1> DEFINE w == Without(s, p)
             at(k) == IF k < p THEN k ELSE k + 1
  <1>1. /\ w \in Seq(Entry) /\ Len(w) = Len(s) - 1
        /\ \A k \in 1..Len(s) - 1 : w[k] = s[at(k)]
    BY WithoutShape
  <1> HIDE DEF w
  <1>2. /\ Len(s) \in Nat /\ DOMAIN s = 1..Len(s)
        /\ DOMAIN w = 1..Len(s) - 1
    BY <1>1, ListShape
  <1>3. \A k \in DOMAIN w : at(k) \in DOMAIN s /\ at(k) # p /\ w[k] = s[at(k)]
    BY <1>1, <1>2
  <1>4. \A j, k \in DOMAIN w : at(j) = at(k) => j = k
    BY <1>2
  <1>5. OneEach(w)
    <2> SUFFICES ASSUME NEW j \in DOMAIN w, NEW k \in DOMAIN w, w[j].id = w[k].id PROVE j = k
      BY DEF OneEach
    <2>1. at(j) = at(k)
      BY <1>3 DEF OneEach
    <2> QED BY <1>4, <2>1
  <1>6. ~Listed(w, s[p].id)
    <2> SUFFICES ASSUME NEW k \in DOMAIN w, w[k].id = s[p].id PROVE FALSE
      BY DEF Listed
    <2>1. at(k) = p
      BY <1>2, <1>3 DEF OneEach
    <2> QED BY <1>3, <2>1
  <1>7. ASSUME NEW i, i # s[p].id PROVE CountIn(w, i) = CountIn(s, i)
    <2>1. CASE Listed(w, i)
      <3>1. PICK k \in DOMAIN w : w[k].id = i
        BY <2>1 DEF Listed
      <3>2. CountIn(w, i) = w[k].count
        BY <1>1, <1>5, <3>1, CountOfEntry
      <3>3. at(k) \in DOMAIN s /\ s[at(k)].id = i /\ s[at(k)].count = w[k].count
        BY <1>3, <3>1
      <3>4. CountIn(s, i) = s[at(k)].count
        BY <3>3, CountOfEntry
      <3> QED BY <3>2, <3>3, <3>4
    <2>2. CASE ~Listed(w, i)
      <3>1. ~Listed(s, i)
        <4> SUFFICES ASSUME NEW j \in DOMAIN s, s[j].id = i PROVE FALSE
          BY DEF Listed
        <4>1. j # p
          BY <1>7
        <4>2. PICK k \in DOMAIN w : at(k) = j
          <5>1. CASE j < p
            <6>1. j \in DOMAIN w /\ at(j) = j
              BY <1>2, <5>1
            <6> QED BY <6>1
          <5>2. CASE ~(j < p)
            <6>1. j - 1 \in DOMAIN w /\ at(j - 1) = j
              BY <1>2, <4>1, <5>2
            <6> QED BY <6>1
          <5> QED BY <5>1, <5>2
        <4>3. w[k].id = i
          BY <1>3, <4>2
        <4> QED BY <2>2, <4>3 DEF Listed
      <3> QED BY <2>2, <3>1 DEF CountIn
    <2> QED BY <2>1, <2>2
  <1> QED BY <1>5, <1>6, <1>7 DEF w

\* Putting an id that is not listed in front.
LEMMA InFront ==
  ASSUME NEW e \in Entry, NEW s \in Seq(Entry), OneEach(s), ~Listed(s, e.id)
  PROVE  /\ <<e>> \o s \in Seq(Entry) /\ Len(<<e>> \o s) = Len(s) + 1 /\ OneEach(<<e>> \o s)
         /\ CountIn(<<e>> \o s, e.id) = e.count
         /\ \A i : i # e.id => CountIn(<<e>> \o s, i) = CountIn(s, i)
  <1> DEFINE t == <<e>> \o s
  <1>1. <<e>> \in Seq(Entry) /\ Len(<<e>>) = 1 /\ <<e>>[1] = e
    OBVIOUS
  <1>2. /\ t \in Seq(Entry) /\ Len(t) = Len(<<e>>) + Len(s)
        /\ \A k \in 1..Len(<<e>>) + Len(s) :
              t[k] = IF k <= Len(<<e>>) THEN <<e>>[k] ELSE s[k - Len(<<e>>)]
    BY <1>1, ConcatProperties
  <1> HIDE DEF t
  <1>3. /\ Len(s) \in Nat /\ DOMAIN s = 1..Len(s) /\ DOMAIN t = 1..Len(s) + 1
        /\ t[1] = e /\ \A k \in 2..Len(s) + 1 : k - 1 \in DOMAIN s /\ t[k] = s[k - 1]
    BY <1>1, <1>2, ListShape
  <1>4. OneEach(t)
    <2> SUFFICES ASSUME NEW j \in DOMAIN t, NEW k \in DOMAIN t, t[j].id = t[k].id PROVE j = k
      BY DEF OneEach
    <2>1. CASE j = 1 /\ k # 1
      BY <1>3, <2>1 DEF Listed
    <2>2. CASE j # 1 /\ k = 1
      BY <1>3, <2>2 DEF Listed
    <2>3. CASE j # 1 /\ k # 1
      <3>1. /\ j - 1 \in DOMAIN s /\ t[j] = s[j - 1]
            /\ k - 1 \in DOMAIN s /\ t[k] = s[k - 1]
        BY <1>3, <2>3
      <3>2. s[j - 1].id = s[k - 1].id
        BY <3>1
      <3>3. j - 1 = k - 1
        BY <3>1, <3>2 DEF OneEach
      <3> QED BY <1>3, <3>3
    <2> QED BY <2>1, <2>2, <2>3
  <1>5. CountIn(t, e.id) = e.count
    <2>1. 1 \in DOMAIN t
      BY <1>3
    <2> QED BY <1>2, <1>3, <1>4, <2>1, CountOfEntry
  <1>6. ASSUME NEW i, i # e.id PROVE CountIn(t, i) = CountIn(s, i)
    <2>1. CASE Listed(s, i)
      <3>1. PICK k \in DOMAIN s : s[k].id = i
        BY <2>1 DEF Listed
      <3>2. CountIn(s, i) = s[k].count
        BY <3>1, CountOfEntry
      <3>3. k + 1 \in DOMAIN t /\ t[k + 1] = s[k]
        BY <1>3, <3>1
      <3>4. CountIn(t, i) = s[k].count
        BY <1>2, <1>4, <3>1, <3>3, CountOfEntry
      <3> QED BY <3>2, <3>4
    <2>2. CASE ~Listed(s, i)
      <3>1. ~Listed(t, i)
        <4> SUFFICES ASSUME NEW k \in DOMAIN t, t[k].id = i PROVE FALSE
          BY DEF Listed
        <4>1. k # 1
          BY <1>3, <1>6
        <4>2. k - 1 \in DOMAIN s /\ s[k - 1].id = i
          BY <1>3, <4>1
        <4> QED BY <2>2, <4>2 DEF Listed
      <3> QED BY <2>2, <3>1 DEF CountIn
    <2> QED BY <2>1, <2>2
  <1> QED BY <1>1, <1>2, <1>4, <1>5, <1>6 DEF t

-----------------------------------------------------------------------------
(* The operations of the tracker. *)

\* The module's operators are those of the list that the tracker is.
LEMMA TrackerIsList ==
  \A i : /\ Counted(i) <=> Listed(tracker, i)
         /\ CountOf(i) = CountIn(tracker, i)
         /\ Counted(i) => Place(i) \in DOMAIN tracker /\ tracker[Place(i)].id = i
                          /\ Others(i) = Without(tracker, Place(i))
         /\ ~Counted(i) => Others(i) = tracker
  <1> SUFFICES ASSUME NEW i
               PROVE  /\ Counted(i) <=> Listed(tracker, i)
                      /\ CountOf(i) = CountIn(tracker, i)
                      /\ Counted(i) => Place(i) \in DOMAIN tracker /\ tracker[Place(i)].id = i
                                       /\ Others(i) = Without(tracker, Place(i))
                      /\ ~Counted(i) => Others(i) = tracker
    OBVIOUS
  <1>1. Counted(i) <=> Listed(tracker, i)
    BY DEF Counted, Listed
  <1>2. CountOf(i) = CountIn(tracker, i)
    BY DEF CountOf, CountIn, Counted, Listed, Place
  <1>3. Counted(i) => Place(i) \in DOMAIN tracker /\ tracker[Place(i)].id = i
    BY DEF Counted, Place
  <1>4. /\ Counted(i) => Others(i) = Without(tracker, Place(i))
        /\ ~Counted(i) => Others(i) = tracker
    BY DEF Others, Without
  <1> QED BY <1>1, <1>2, <1>3, <1>4

LEMMA CountsAreThePrimedLists == \A i : CountOf(i)' = CountIn(tracker', i)
  BY DEF CountOf, CountIn, Counted, Listed, Place

\* Others drops one id.
LEMMA OthersList ==
  ASSUME tracker \in Lists, NEW i
  PROVE  /\ Others(i) \in Lists /\ ~Listed(Others(i), i)
         /\ Counted(i) => Len(Others(i)) = Len(tracker) - 1
         /\ \A q : q # i => CountIn(Others(i), q) = CountIn(tracker, q)
  <1>1. /\ tracker \in Seq(Entry) /\ OneEach(tracker) /\ Len(tracker) <= Capacity
        /\ Len(tracker) \in Nat /\ DOMAIN tracker = 1..Len(tracker) /\ Capacity \in Nat
    BY ListShape, SubscriberAssumption DEF Lists
  <1>2. CASE Counted(i)
    <2>1. /\ Place(i) \in 1..Len(tracker) /\ tracker[Place(i)].id = i
          /\ Others(i) = Without(tracker, Place(i))
      BY <1>1, <1>2, TrackerIsList
    <2>2. Without(tracker, Place(i)) \in Seq(Entry)
          /\ Len(Without(tracker, Place(i))) = Len(tracker) - 1
      BY <1>1, <2>1, WithoutShape
    <2>3. /\ OneEach(Without(tracker, Place(i)))
          /\ ~Listed(Without(tracker, Place(i)), i)
          /\ \A q : q # i => CountIn(Without(tracker, Place(i)), q) = CountIn(tracker, q)
      BY <1>1, <2>1, WithoutCounts
    <2> QED BY <1>1, <1>2, <2>1, <2>2, <2>3 DEF Lists
  <1>3. CASE ~Counted(i)
    BY <1>3, TrackerIsList
  <1> QED BY <1>2, <1>3

\* An eviction makes room for one.
LEMMA EvictList ==
  ASSUME tracker \in Lists
  PROVE  /\ Evict(tracker) \in Seq(Entry) /\ OneEach(Evict(tracker))
         /\ Len(Evict(tracker)) + 1 <= Capacity
         /\ \A i : Listed(Evict(tracker), i) => Listed(tracker, i)
         /\ Len(tracker) < Capacity => Evict(tracker) = tracker
  <1>1. /\ tracker \in Seq(Entry) /\ OneEach(tracker) /\ Len(tracker) <= Capacity
        /\ Len(tracker) \in Nat /\ DOMAIN tracker = 1..Len(tracker)
        /\ Capacity \in Nat \ {0} /\ \A k \in 1..Len(tracker) : tracker[k] \in Entry
    BY ListShape, SubscriberAssumption DEF Lists
  <1>2. CASE Len(tracker) < Capacity
    <2>1. Evict(tracker) = tracker
      <3>1. ~(Len(tracker) >= Capacity)
        BY <1>1, <1>2
      <3> QED BY <3>1, Zenon DEF Evict
    <2>2. Len(tracker) + 1 <= Capacity
      BY <1>1, <1>2
    <2>3. \A i : Listed(Evict(tracker), i) => Listed(tracker, i)
      BY <2>1
    <2>4. Evict(tracker) \in Seq(Entry) /\ OneEach(Evict(tracker)) /\ Len(Evict(tracker)) + 1 <= Capacity
      BY <1>1, <2>1, <2>2
    <2> QED BY <2>1, <2>3, <2>4
  <1>3. CASE ~(Len(tracker) < Capacity)
    <2> DEFINE n == Len(tracker)
               v == SubSeq(tracker, 1, n - 1)
    <2>1. n \in Nat \ {0} /\ Evict(tracker) = v
      BY <1>1, <1>3 DEF Evict
    <2>2. /\ v \in Seq(Entry) /\ Len(v) = n - 1
          /\ \A k \in 1..n - 1 : v[k] = tracker[k]
      <3>1. 1 \in Int /\ n - 1 \in Int /\ \A k \in 1..n - 1 : tracker[k] \in Entry
        BY <1>1, <2>1
      <3>2. /\ v \in Seq(Entry) /\ Len(v) = (IF 1 <= n - 1 THEN (n - 1) - 1 + 1 ELSE 0)
            /\ \A k \in 1..(n - 1) - 1 + 1 : v[k] = tracker[1 + k - 1]
        BY <3>1, SubSeqProperties
      <3> HIDE DEF n, v
      <3>3. (IF 1 <= n - 1 THEN (n - 1) - 1 + 1 ELSE 0) = n - 1 /\ (n - 1) - 1 + 1 = n - 1
        BY <2>1
      <3>4. \A k \in 1..n - 1 : 1 + k - 1 = k
        BY <2>1
      <3> QED BY <3>2, <3>3, <3>4
    <2> HIDE DEF v
    <2>3. DOMAIN v = 1..n - 1 /\ \A k \in DOMAIN v : k \in DOMAIN tracker /\ v[k] = tracker[k]
      BY <1>1, <2>1, <2>2, ListShape
    <2>4. OneEach(v) /\ \A i : Listed(v, i) => Listed(tracker, i)
      BY <1>1, <2>3 DEF OneEach, Listed
    <2> QED BY <1>1, <1>3, <2>1, <2>2, <2>4
  <1> QED BY <1>2, <1>3

\* An increment raises the count of one id. It lowers none unless it evicts one.
LEMMA IncrementList ==
  ASSUME tracker \in Lists, NEW i \in Ids, Increment(i)
  PROVE  /\ tracker' \in Lists
         /\ CountIn(tracker', i) >= CountIn(tracker, i)
         /\ Counted(i) \/ Len(tracker) < Capacity =>
                \A q : q # i => CountIn(tracker', q) = CountIn(tracker, q)
  <1> DEFINE rest == IF Counted(i) THEN Others(i) ELSE Evict(tracker)
             e == [id |-> i, count |-> NextCount(i)]
  <1>1. CountIn(tracker, i) \in 0..MaxRedeliveries /\ MaxRedeliveries \in Nat \ {0}
        /\ CountOf(i) = CountIn(tracker, i)
    BY CountIsNumber, TrackerIsList, SubscriberAssumption DEF Lists
  <1>2. NextCount(i) \in 1..MaxRedeliveries /\ NextCount(i) >= CountIn(tracker, i)
    BY <1>1 DEF NextCount
  <1>3. e \in Entry
    BY <1>2 DEF Entry
  <1>4. /\ rest \in Seq(Entry) /\ OneEach(rest) /\ ~Listed(rest, i) /\ Len(rest) + 1 <= Capacity
        /\ Counted(i) \/ Len(tracker) < Capacity =>
               \A q : q # i => CountIn(rest, q) = CountIn(tracker, q)
    <2>1. CASE Counted(i)
      <3>1. Len(Others(i)) = Len(tracker) - 1 /\ Len(tracker) \in Nat /\ Len(tracker) <= Capacity
            /\ Capacity \in Nat
        BY <2>1, OthersList, ListShape, SubscriberAssumption DEF Lists
      <3> QED BY <2>1, <3>1, OthersList DEF Lists
    <2>2. CASE ~Counted(i)
      BY <2>2, EvictList, TrackerIsList
    <2> QED BY <2>1, <2>2
  <1>5. tracker' = <<e>> \o rest
    BY DEF Increment
  <1>6. e.id = i /\ e.count = NextCount(i)
    OBVIOUS
  <1> HIDE DEF rest, e
  <1>7. /\ <<e>> \o rest \in Seq(Entry) /\ Len(<<e>> \o rest) = Len(rest) + 1
        /\ OneEach(<<e>> \o rest) /\ CountIn(<<e>> \o rest, i) = NextCount(i)
        /\ \A q : q # i => CountIn(<<e>> \o rest, q) = CountIn(rest, q)
    BY <1>3, <1>4, <1>6, InFront
  <1>8. tracker' \in Lists
    BY <1>4, <1>5, <1>7 DEF Lists
  <1>9. CountIn(tracker', i) >= CountIn(tracker, i)
    BY <1>2, <1>5, <1>7
  <1> QED BY <1>4, <1>5, <1>7, <1>8, <1>9
-----------------------------------------------------------------------------
(* The types. *)

\* A handler at work has a message and the id it came in under.
Busy == \A h \in Handlers : pc[h] # "idle" => msg[h] \in Messages /\ mid[h] \in Ids

TypesInv == TypeOK /\ Busy

\* TypeOK says of the tracker that it is one of the lists.
LEMMA TrackerType ==
  (tracker \in Lists) <=>
    /\ tracker \in Seq([id : Ids, count : 1..MaxRedeliveries]) /\ Len(tracker) <= Capacity
    /\ \A j, k \in DOMAIN tracker : tracker[j].id = tracker[k].id => j = k
  BY DEF Lists, Entry, OneEach

\* The same of the next state.
LEMMA NextTrackerType ==
  (tracker' \in Lists) <=>
    /\ tracker' \in Seq([id : Ids, count : 1..MaxRedeliveries]) /\ Len(tracker') <= Capacity
    /\ \A j, k \in DOMAIN tracker' : tracker'[j].id = tracker'[k].id => j = k
  BY DEF Lists, Entry, OneEach

LEMMA EmptyTracker == <<>> \in Lists
  BY SubscriberAssumption DEF Lists, OneEach

\* What Shape leaves out of the types but for the tracker.
RestTyped ==
    /\ subscribed \in BOOLEAN /\ routed \in BOOLEAN
    /\ process \in {"up", "stopping", "down"}
    /\ callback \in {"idle", "subscribe", "reset"}
    /\ breaks \in 0..MaxBreaks
    /\ drops \in [Messages -> 0..MaxRedeliveries + 1]
    /\ \A h \in Handlers : pc[h] # "idle" => mid[h] \in Ids

LEMMA InitTypes == Init => RestTyped /\ tracker \in Lists
  BY EmptyTracker, SubscriberAssumption DEF Init, RestTyped

\* The broker, the connection and the process.
LEMMA LinkTypes ==
  ASSUME Shape, RestTyped,
         \/ \E m \in Messages : Publish(m) \/ Resend(m)
         \/ \E h \in Handlers, m \in Messages, i \in Ids : Deliver(h, m, i)
         \/ Break \/ Resubscribed \/ ResubscribeFailed \/ ResetTracker \/ Stop \/ Die \/ Start
         \/ \E kept \in BOOLEAN : Reconnect(kept) \/ Boot(kept)
  PROVE  RestTyped'
  <1> USE DEF link, broker, goroutines, history
  <1>1. CASE \E m \in Messages : Publish(m) \/ Resend(m)
    BY <1>1 DEF Publish, Resend, RestTyped
  <1>2. CASE \E h \in Handlers, m \in Messages, i \in Ids : Deliver(h, m, i)
    <2>1. PICK h \in Handlers, m \in Messages, i \in Ids : Deliver(h, m, i)
      BY <1>2
    <2>2. \/ UNCHANGED <<pc, mid>>
          \/ pc' = [pc EXCEPT ![h] = "received"] /\ mid' = [mid EXCEPT ![h] = i]
      BY <2>1 DEF Deliver
    <2>3. \A g \in Handlers : pc'[g] # "idle" => mid'[g] \in Ids
      BY <2>2 DEF Shape, RestTyped
    <2> QED BY <2>1, <2>3 DEF Deliver, RestTyped
  <1>3. CASE Resubscribed \/ ResubscribeFailed \/ ResetTracker \/ Start
    BY <1>3 DEF Resubscribed, ResubscribeFailed, ResetTracker, Start, Shape, RestTyped
  <1>4. CASE Break \/ Stop
    <2>1. breaks' \in 0..MaxBreaks
      BY <1>4, SubscriberAssumption DEF Break, Stop, RestTyped
    <2> QED BY <1>4, <2>1 DEF Break, Stop, Shape, RestTyped
  <1>5. CASE Die
    <2>1. breaks' \in 0..MaxBreaks
      BY <1>5, SubscriberAssumption DEF Die, RestTyped
    <2>2. drops' \in [Messages -> 0..MaxRedeliveries + 1]
      BY <1>5, SubscriberAssumption DEF Die
    <2> QED BY <1>5, <2>1, <2>2 DEF Die, RestTyped
  <1>6. CASE \E kept \in BOOLEAN : Reconnect(kept) \/ Boot(kept)
    BY <1>6 DEF Reconnect, Boot, Shape, RestTyped
  <1> QED BY <1>1, <1>2, <1>3, <1>4, <1>5, <1>6

\* A handler moves on, or is done.
LEMMA HandlerTypes ==
  ASSUME Shape, RestTyped, NEW h \in Handlers, Handle(h)
  PROVE  RestTyped'
  <1> USE DEF link, broker, goroutines, history
  <1>1. UNCHANGED <<subscribed, routed, process, callback, breaks>>
    BY DEF Handle, DropUnroutable, GiveUp, Accept, CountDrop, DeadLetter, DeadLetterFails,
           ForgetCount, Ack
  <1>2. drops' \in [Messages -> 0..MaxRedeliveries + 1]
    <2>1. CASE CountDrop(h)
      <3> DEFINE n == IF resends \/ drops[msg[h]] > MaxRedeliveries THEN drops[msg[h]]
                      ELSE drops[msg[h]] + 1
      <3>1. drops' = [drops EXCEPT ![msg[h]] = n]
        BY <2>1 DEF CountDrop
      <3>2. msg[h] \in Messages
        BY <2>1 DEF CountDrop, Shape
      <3>3. n \in 0..MaxRedeliveries + 1
        BY <3>2, SubscriberAssumption DEF RestTyped
      <3> HIDE DEF n
      <3> QED BY <3>1, <3>3 DEF RestTyped
    <2>2. CASE DeadLetterFails(h)
      <3>1. 0 \in 0..MaxRedeliveries + 1
        BY SubscriberAssumption
      <3> QED BY <2>2, <3>1 DEF DeadLetterFails, RestTyped
    <2>3. CASE ~CountDrop(h) /\ ~DeadLetterFails(h)
      BY <2>3 DEF Handle, DropUnroutable, GiveUp, Accept, DeadLetter, ForgetCount, Ack, RestTyped
    <2> QED BY <2>1, <2>2, <2>3
  <1>3. pc[h] # "idle" /\ ((UNCHANGED mid /\ (\E label : Goto(h, label))) \/ Return(h))
    BY DEF Handle, DropUnroutable, GiveUp, Accept, CountDrop, DeadLetter, DeadLetterFails,
           ForgetCount, Ack
  <1>4. \A g \in Handlers : pc'[g] # "idle" => mid'[g] \in Ids
    BY <1>3 DEF Goto, Return, Shape, RestTyped
  <1> QED BY <1>1, <1>2, <1>4 DEF RestTyped

\* Every step leaves the tracker a list.
LEMMA ListStays ==
  ASSUME RestTyped, tracker \in Lists, [Next]_vars
  PROVE  tracker' \in Lists
  <1>1. CASE \E h \in Handlers : CountDrop(h)
    <2>1. PICK h \in Handlers : CountDrop(h)
      BY <1>1
    <2>2. mid[h] \in Ids /\ Increment(mid[h])
      BY <2>1 DEF CountDrop, RestTyped
    <2> QED BY <2>2, IncrementList
  <1>2. CASE \E h \in Handlers : ForgetCount(h)
    BY <1>2, OthersList DEF ForgetCount, Forget
  <1>3. CASE ResetTracker \/ Stop \/ Die
    BY <1>3, EmptyTracker DEF ResetTracker, Stop, Die, Reset
  <1>4. CASE ~(\E h \in Handlers : CountDrop(h) \/ ForgetCount(h)) /\ ~(ResetTracker \/ Stop \/ Die)
    <2>1. tracker' = tracker
      BY <1>4 DEF Next, Handle, vars, counts, Publish, Resend, Deliver, DropUnroutable, GiveUp, Accept,
                  DeadLetter, DeadLetterFails, Ack, Break, Reconnect, Resubscribed,
                  ResubscribeFailed, Boot, Start
    <2> QED BY <2>1
  <1> QED BY <1>1, <1>2, <1>3, <1>4

LEMMA NextTypes ==
  ASSUME Inv, RestTyped, tracker \in Lists, [Next]_vars
  PROVE  RestTyped' /\ tracker' \in Lists
  <1>1. Shape
    BY DEF Inv
  <1>2. CASE Next
    BY <1>1, <1>2, LinkTypes, HandlerTypes, ListStays DEF Next
  <1>3. CASE UNCHANGED vars
    BY <1>3 DEF vars, counts, link, goroutines, broker, history, RestTyped
  <1> QED BY <1>2, <1>3

-----------------------------------------------------------------------------
(* What an eviction takes. *)

\* An id has been counted since every id behind it in the list was.
AgedIn(s, f) == \A k \in DOMAIN s : \A j \in 1..k - 1 : s[j].id \in f[s[k].id]

Aged ==
    /\ since \in [Ids -> SUBSET Ids] /\ \A i \in Ids : IsFiniteSet(since[i])
    /\ AgedIn(tracker, since)

\* Taking one element out keeps the order.
LEMMA WithoutAged ==
  ASSUME NEW s \in Seq(Entry), NEW p \in 1..Len(s), NEW f, AgedIn(s, f)
  PROVE  AgedIn(Without(s, p), f)
  <1> DEFINE at(k) == IF k < p THEN k ELSE k + 1
  <1>1. /\ Without(s, p) \in Seq(Entry) /\ Len(Without(s, p)) = Len(s) - 1
        /\ \A k \in 1..Len(s) - 1 : Without(s, p)[k] = s[at(k)]
    BY WithoutShape
  <1>2. /\ Len(s) \in Nat /\ DOMAIN s = 1..Len(s)
        /\ DOMAIN Without(s, p) = 1..Len(s) - 1
    BY <1>1, ListShape
  <1> SUFFICES ASSUME NEW k \in 1..Len(s) - 1, NEW j \in 1..k - 1
               PROVE  Without(s, p)[j].id \in f[Without(s, p)[k].id]
    BY <1>2 DEF AgedIn
  <1>3. at(k) \in DOMAIN s /\ at(j) \in 1..at(k) - 1 /\ j \in 1..Len(s) - 1
    BY <1>2
  <1>4. s[at(j)].id \in f[s[at(k)].id]
    BY <1>3 DEF AgedIn
  <1> QED BY <1>1, <1>3, <1>4

\* An eviction takes the last entry, if the list is full.
LEMMA EvictShape ==
  ASSUME tracker \in Lists
  PROVE  /\ DOMAIN Evict(tracker) =
                1..(IF Len(tracker) < Capacity THEN Len(tracker) ELSE Capacity - 1)
         /\ \A k \in DOMAIN Evict(tracker) : k \in DOMAIN tracker /\ Evict(tracker)[k] = tracker[k]
         /\ Len(tracker) < Capacity \/ Len(tracker) = Capacity
  <1>0. Len(tracker) < Capacity \/ Len(tracker) = Capacity
    <2>1. Len(tracker) \in Nat /\ Len(tracker) <= Capacity /\ Capacity \in Nat
      BY ListShape, SubscriberAssumption DEF Lists
    <2> HIDE DEF Lists
    <2> QED BY <2>1
  <1>1. /\ tracker \in Seq(Entry) /\ Len(tracker) <= Capacity
        /\ Len(tracker) \in Nat /\ DOMAIN tracker = 1..Len(tracker)
        /\ Capacity \in Nat \ {0} /\ \A k \in 1..Len(tracker) : tracker[k] \in Entry
    BY ListShape, SubscriberAssumption DEF Lists
  <1>2. CASE Len(tracker) < Capacity
    <2>1. Evict(tracker) = tracker
      BY <1>2, EvictList
    <2> QED BY <1>1, <1>2, <2>1
  <1>3. CASE ~(Len(tracker) < Capacity)
    <2>1. Len(tracker) = Capacity
      BY <1>0, <1>3
    <2>2. Evict(tracker) = SubSeq(tracker, 1, Capacity - 1)
      BY <1>1, <2>1 DEF Evict
    <2> DEFINE v == SubSeq(tracker, 1, Capacity - 1)
    <2>3. 1 \in Int /\ Capacity - 1 \in Int /\ \A k \in 1..Capacity - 1 : tracker[k] \in Entry
      BY <1>1, <2>1
    <2>4. /\ v \in Seq(Entry)
          /\ Len(v) = (IF 1 <= Capacity - 1 THEN (Capacity - 1) - 1 + 1 ELSE 0)
          /\ \A k \in 1..(Capacity - 1) - 1 + 1 : v[k] = tracker[1 + k - 1]
      BY <2>3, SubSeqProperties
    <2> HIDE DEF v
    <2>5. (IF 1 <= Capacity - 1 THEN (Capacity - 1) - 1 + 1 ELSE 0) = Capacity - 1
          /\ (Capacity - 1) - 1 + 1 = Capacity - 1
          /\ \A k \in 1..Capacity - 1 : 1 + k - 1 = k
      BY <1>1
    <2>6. DOMAIN v = 1..Capacity - 1 /\ \A k \in 1..Capacity - 1 : v[k] = tracker[k]
      BY <2>4, <2>5, ListShape
    <2> QED BY <1>1, <2>1, <2>2, <2>6 DEF v
  <1> QED BY <1>2, <1>3

\* An id that is counted goes in front of all the others.
LEMMA FrontAged ==
  ASSUME NEW e \in Entry, NEW s \in Seq(Entry), NEW f, AgedIn(s, f), ~Listed(s, e.id),
         NEW g, g = [j \in Ids |-> IF j = e.id THEN {} ELSE f[j] \cup {e.id}]
  PROVE  AgedIn(<<e>> \o s, g)
  <1> DEFINE t == <<e>> \o s
  <1>1. <<e>> \in Seq(Entry) /\ Len(<<e>>) = 1 /\ <<e>>[1] = e
    OBVIOUS
  <1>2. /\ t \in Seq(Entry) /\ Len(t) = Len(<<e>>) + Len(s)
        /\ \A k \in 1..Len(<<e>>) + Len(s) :
              t[k] = IF k <= Len(<<e>>) THEN <<e>>[k] ELSE s[k - Len(<<e>>)]
    BY <1>1, ConcatProperties
  <1> HIDE DEF t
  <1>3. /\ Len(s) \in Nat /\ DOMAIN s = 1..Len(s) /\ DOMAIN t = 1..Len(s) + 1
        /\ t[1] = e /\ \A k \in 2..Len(s) + 1 : k - 1 \in DOMAIN s /\ t[k] = s[k - 1]
        /\ \A k \in DOMAIN s : s[k] \in Entry
    BY <1>1, <1>2, ListShape
  <1> SUFFICES ASSUME NEW k \in DOMAIN t, NEW j \in 1..k - 1 PROVE t[j].id \in g[t[k].id]
    BY DEF AgedIn, t
  <1>4. k \in 2..Len(s) + 1 /\ k - 1 \in DOMAIN s /\ t[k] = s[k - 1]
    BY <1>3
  <1>5. s[k - 1].id \in Ids /\ s[k - 1].id # e.id
    BY <1>3, <1>4 DEF Entry, Listed
  <1>6. g[t[k].id] = f[s[k - 1].id] \cup {e.id}
    BY <1>4, <1>5
  <1>7. CASE j = 1
    BY <1>3, <1>6, <1>7
  <1>8. CASE j # 1
    <2>1. j \in 2..Len(s) + 1 /\ t[j] = s[j - 1] /\ j - 1 \in 1..(k - 1) - 1
      BY <1>3, <1>8
    <2>2. s[j - 1].id \in f[s[k - 1].id]
      BY <1>4, <2>1 DEF AgedIn
    <2> QED BY <1>6, <2>1, <2>2
  <1> QED BY <1>7, <1>8

LEMMA IncrementAged ==
  ASSUME tracker \in Lists, Aged, NEW i \in Ids, Increment(i)
  PROVE  Aged'
  <1> DEFINE rest == IF Counted(i) THEN Others(i) ELSE Evict(tracker)
             e == [id |-> i, count |-> NextCount(i)]
  <1>1. /\ tracker \in Seq(Entry) /\ OneEach(tracker) /\ Len(tracker) <= Capacity
        /\ Len(tracker) \in Nat /\ DOMAIN tracker = 1..Len(tracker)
    BY ListShape DEF Lists
  <1>2. rest \in Seq(Entry) /\ ~Listed(rest, i) /\ AgedIn(rest, since)
    <2>1. CASE Counted(i)
      <3>1. Others(i) \in Seq(Entry) /\ ~Listed(Others(i), i)
        BY OthersList DEF Lists
      <3>2. Place(i) \in 1..Len(tracker) /\ Others(i) = Without(tracker, Place(i))
        BY <1>1, <2>1, TrackerIsList
      <3>3. AgedIn(Others(i), since)
        BY <1>1, <3>2, WithoutAged DEF Aged
      <3> QED BY <2>1, <3>1, <3>3
    <2>2. CASE ~Counted(i)
      <3>1. Evict(tracker) \in Seq(Entry) /\ ~Listed(Evict(tracker), i)
        BY <2>2, EvictList, TrackerIsList
      <3>2. \A k \in DOMAIN Evict(tracker) :
                k \in DOMAIN tracker /\ Evict(tracker)[k] = tracker[k]
                /\ \A j \in 1..k - 1 : j \in DOMAIN Evict(tracker)
        <4> DEFINE n == IF Len(tracker) < Capacity THEN Len(tracker) ELSE Capacity - 1
        <4>1. n \in Int
          BY <1>1, SubscriberAssumption
        <4>2. DOMAIN Evict(tracker) = 1..n
          BY EvictShape
        <4> HIDE DEF n
        <4>3. \A k \in 1..n : \A j \in 1..k - 1 : j \in 1..n
          BY <4>1
        <4> QED BY <4>2, <4>3, EvictShape
      <3>3. AgedIn(Evict(tracker), since)
        BY <3>2 DEF AgedIn, Aged
      <3> QED BY <2>2, <3>1, <3>3
    <2> QED BY <2>1, <2>2
  <1>3. NextCount(i) \in 1..MaxRedeliveries
    <2>1. CountOf(i) \in 0..MaxRedeliveries /\ MaxRedeliveries \in Nat \ {0}
      BY <1>1, CountIsNumber, TrackerIsList, SubscriberAssumption
    <2> QED BY <2>1 DEF NextCount
  <1>4. e \in Entry /\ e.id = i
    BY <1>3 DEF Entry
  <1>5. /\ tracker' = <<e>> \o rest
        /\ since' = [j \in Ids |-> IF j = i THEN {} ELSE since[j] \cup {i}]
    BY DEF Increment
  <1> HIDE DEF e, rest
  <1>6. AgedIn(tracker', since')
    BY <1>2, <1>4, <1>5, FrontAged
  <1>7. ASSUME NEW j \in Ids PROVE IsFiniteSet(since'[j])
    <2>1. IsFiniteSet(since[j] \cup {i}) /\ IsFiniteSet({})
      BY FS_AddElement, FS_EmptySet DEF Aged
    <2> QED BY <1>5, <2>1
  <1>8. since' \in [Ids -> SUBSET Ids]
    BY <1>5 DEF Aged
  <1> QED BY <1>6, <1>7, <1>8 DEF Aged

\* What an increment takes away is the count of the id at the end of a full list, and all
\* the ids in front of it and the new one have been counted since.
LEMMA EvictedStep ==
  ASSUME tracker \in Lists, Aged, NEW i \in Ids, Increment(i),
         NEW q \in Ids, CountIn(tracker', q) < CountIn(tracker, q)
  PROVE  Cardinality(since'[q]) >= Capacity
  <1>1. /\ tracker \in Seq(Entry) /\ OneEach(tracker)
        /\ Len(tracker) \in Nat /\ DOMAIN tracker = 1..Len(tracker)
        /\ CountIn(tracker, q) \in 0..MaxRedeliveries
        /\ MaxRedeliveries \in Nat /\ Capacity \in Nat \ {0}
        /\ \A k \in DOMAIN tracker : tracker[k] \in Entry
    BY ListShape, CountIsNumber, SubscriberAssumption DEF Lists
  <1>2. /\ tracker' \in Lists /\ CountIn(tracker', i) >= CountIn(tracker, i)
        /\ Counted(i) \/ Len(tracker) < Capacity =>
               \A p : p # i => CountIn(tracker', p) = CountIn(tracker, p)
    BY IncrementList
  <1>3. CountIn(tracker', q) \in 0..MaxRedeliveries
    BY <1>2, CountIsNumber DEF Lists
  <1>4. q # i
    BY <1>1, <1>2, <1>3
  <1>5. ~Counted(i) /\ Len(tracker) = Capacity
    <2>1. CountIn(tracker', q) # CountIn(tracker, q)
      BY <1>1, <1>3
    <2>2. ~Counted(i) /\ ~(Len(tracker) < Capacity)
      BY <1>2, <1>4, <2>1
    <2> QED BY <2>2, EvictShape
  <1>6. tracker[Capacity].id = q
    <2>1. Listed(tracker, q)
      BY <1>1, <1>3, CountIsNumber
    <2>2. PICK k \in DOMAIN tracker : tracker[k].id = q
      BY <2>1 DEF Listed
    <2>3. CASE k = Capacity
      BY <2>2, <2>3
    <2>4. CASE k # Capacity
      <3>1. Evict(tracker) \in Seq(Entry) /\ OneEach(Evict(tracker)) /\ ~Listed(Evict(tracker), i)
        BY <1>5, EvictList, TrackerIsList
      <3>2. k \in 1..Capacity - 1
        BY <1>1, <1>5, <2>4
      <3>3. k \in DOMAIN Evict(tracker) /\ Evict(tracker)[k] = tracker[k]
        BY <1>1, <1>5, <3>2, EvictShape
      <3>4. CountIn(Evict(tracker), q) = CountIn(tracker, q)
        BY <1>1, <2>2, <3>1, <3>3, CountOfEntry
      <3> DEFINE e == [id |-> i, count |-> NextCount(i)]
      <3>5. e \in Entry /\ e.id = i
        <4>1. CountOf(i) \in 0..MaxRedeliveries /\ MaxRedeliveries \in Nat \ {0}
          BY <1>1, CountIsNumber, TrackerIsList, SubscriberAssumption
        <4> QED BY <4>1 DEF NextCount, Entry
      <3>6. tracker' = <<e>> \o Evict(tracker)
        BY <1>5 DEF Increment
      <3> HIDE DEF e
      <3>7. CountIn(tracker', q) = CountIn(Evict(tracker), q)
        BY <1>4, <3>1, <3>5, <3>6, InFront
      <3> QED BY <1>1, <3>4, <3>7
    <2> QED BY <2>3, <2>4
  <1>7. since'[q] = since[q] \cup {i} /\ IsFiniteSet(since'[q])
    <2>1. since'[q] = since[q] \cup {i}
      BY <1>4 DEF Increment
    <2> QED BY <2>1, FS_AddElement DEF Aged
  <1> DEFINE f == [k \in 1..Capacity |-> IF k = Capacity THEN i ELSE tracker[k].id]
  <1>8. \A k \in 1..Capacity - 1 : tracker[k].id \in since[q] /\ tracker[k].id # i
    <2>1. Capacity \in DOMAIN tracker
      BY <1>1, <1>5
    <2>2. \A k \in 1..Capacity - 1 : tracker[k].id \in since[q]
      BY <1>6, <2>1 DEF Aged, AgedIn
    <2>3. \A k \in 1..Capacity - 1 : k \in DOMAIN tracker
      BY <1>1, <1>5
    <2> QED BY <1>5, <2>2, <2>3 DEF Counted
  <1>9. f \in Injection(1..Capacity, since'[q])
    <2>1. \A k \in 1..Capacity : f[k] \in since'[q]
      BY <1>1, <1>7, <1>8
    <2>2. ASSUME NEW a \in 1..Capacity, NEW b \in 1..Capacity, f[a] = f[b] PROVE a = b
      <3>1. CASE a = Capacity \/ b = Capacity
        BY <1>1, <1>8, <2>2, <3>1
      <3>2. CASE a # Capacity /\ b # Capacity
        <4>1. a \in DOMAIN tracker /\ b \in DOMAIN tracker /\ tracker[a].id = tracker[b].id
          BY <1>1, <1>5, <2>2, <3>2
        <4> QED BY <1>1, <4>1 DEF OneEach
      <3> QED BY <3>1, <3>2
    <2> QED BY <2>1, <2>2 DEF Injection, IsInjective
  <1>10. Cardinality(1..Capacity) <= Cardinality(since'[q])
    BY <1>7, <1>9, FS_Injection
  <1>11. Cardinality(1..Capacity) = Capacity
    <2>1. Cardinality(1..Capacity) = IF 1 > Capacity THEN 0 ELSE Capacity - 1 + 1
      BY <1>1, FS_Interval
    <2> QED BY <1>1, <2>1
  <1>12. Cardinality(since'[q]) \in Nat
    BY <1>7, FS_CardinalityType
  <1> QED BY <1>1, <1>10, <1>11, <1>12

\* How a body decodes never changes.
LEMMA BodyStays == [Next]_vars => body' = body
  BY DEF Next, Handle, vars, broker, Publish, Resend, Deliver, DropUnroutable, GiveUp, Accept,
         CountDrop, DeadLetter, DeadLetterFails, ForgetCount, Ack, Break, Reconnect, Resubscribed,
         ResubscribeFailed, ResetTracker, Stop, Die, Boot, Start

\* What a step does to the counts: nothing, or one of the operations of the tracker.
LEMMA CountsStep ==
  ASSUME RestTyped, [Next]_vars
  PROVE  \/ \E i \in Ids : Increment(i)
         \/ \E h \in Handlers : ForgetCount(h)
         \/ (ResetTracker \/ Stop \/ Die) /\ Reset
         \/ UNCHANGED <<tracker, since>>
  <1>1. CASE \E h \in Handlers : CountDrop(h)
    BY <1>1 DEF CountDrop, RestTyped
  <1>2. CASE ResetTracker \/ Stop \/ Die
    BY <1>2 DEF ResetTracker, Stop, Die
  <1>3. CASE ~(\E h \in Handlers : CountDrop(h) \/ ForgetCount(h)) /\ ~(ResetTracker \/ Stop \/ Die)
    BY <1>3 DEF Next, Handle, vars, counts, Publish, Resend, Deliver, DropUnroutable, GiveUp,
                Accept, DeadLetter, DeadLetterFails, Ack, Break, Reconnect, Resubscribed,
                ResubscribeFailed, Boot, Start
  <1> QED BY <1>1, <1>2, <1>3

LEMMA NextAged ==
  ASSUME RestTyped, tracker \in Lists, Aged, [Next]_vars
  PROVE  Aged'
  <1>2. CASE \E i \in Ids : Increment(i)
    BY <1>2, IncrementAged
  <1>3. CASE \E h \in Handlers : ForgetCount(h)
    <2>1. PICK h \in Handlers : ForgetCount(h)
      BY <1>3
    <2>2. tracker' = Others(mid[h]) /\ since' = since
      BY <2>1 DEF ForgetCount, Forget
    <2>3. AgedIn(Others(mid[h]), since)
      <3>1. CASE Counted(mid[h])
        <4>1. tracker \in Seq(Entry) /\ DOMAIN tracker = 1..Len(tracker)
          BY ListShape DEF Lists
        <4>2. /\ Place(mid[h]) \in 1..Len(tracker)
              /\ Others(mid[h]) = Without(tracker, Place(mid[h]))
          BY <3>1, <4>1, TrackerIsList
        <4> QED BY <4>1, <4>2, WithoutAged DEF Aged
      <3>2. CASE ~Counted(mid[h])
        BY <3>2, TrackerIsList DEF Aged
      <3> QED BY <3>1, <3>2
    <2> QED BY <2>2, <2>3 DEF Aged
  <1>4. CASE Reset
    <2>1. since' = [i \in Ids |-> {}] /\ tracker' = <<>>
      BY <1>4 DEF Reset
    <2> QED BY <2>1, FS_EmptySet DEF Aged, AgedIn
  <1>5. CASE UNCHANGED <<tracker, since>>
    BY <1>5 DEF Aged, AgedIn
  <1> QED BY <1>2, <1>3, <1>4, <1>5, CountsStep

LEMMA CountStep ==
  ASSUME RestTyped, tracker \in Lists, Aged, Next, NEW q \in Ids, ~ForgetsCount(q),
         CountOf(q)' < CountOf(q)
  PROVE  Cardinality(since'[q]) >= Capacity
  <1>1. CountOf(q) = CountIn(tracker, q) /\ CountOf(q)' = CountIn(tracker', q)
    BY TrackerIsList, CountsAreThePrimedLists
  <1>2. CountIn(tracker, q) \in 0..MaxRedeliveries /\ MaxRedeliveries \in Nat
    BY CountIsNumber, SubscriberAssumption DEF Lists
  <1>3. CASE \E i \in Ids : Increment(i)
    BY <1>1, <1>3, EvictedStep
  <1>4. CASE \E h \in Handlers : ForgetCount(h)
    <2>1. PICK h \in Handlers : ForgetCount(h)
      BY <1>4
    <2>2. mid[h] # q /\ tracker' = Others(mid[h])
      BY <2>1 DEF ForgetsCount, ForgetCount, Forget
    <2>3. CountIn(tracker', q) = CountIn(tracker, q)
      BY <2>2, OthersList
    <2> QED BY <1>1, <1>2, <2>3
  <1>5. CASE UNCHANGED <<tracker, since>>
    BY <1>1, <1>2, <1>5
  <1> QED BY <1>3, <1>4, <1>5, CountsStep DEF ForgetsCount
-----------------------------------------------------------------------------
(* The theorems about types and counts. *)

\* All that the steps keep.
Kept == Inv /\ DownIsOffline /\ RestTyped /\ tracker \in Lists /\ Aged /\ body \in [Messages -> Bodies]

LEMMA TypesInvariant == Spec => []Kept
  <1>1. Init => Kept
    <2>1. Init => Aged
      BY FS_EmptySet DEF Init, Aged, AgedIn
    <2>2. Init => body \in [Messages -> Bodies]
      BY SubscriberAssumption DEF Init
    <2> QED BY <2>1, <2>2, InitInv, InitTypes DEF Init, DownIsOffline, Kept
  <1>2. Kept /\ [Next]_vars => Kept'
    BY NextInv, DownInv, NextTypes, NextAged, BodyStays DEF Kept
  <1> QED BY <1>1, <1>2, PTL DEF Spec

\* The types, for every number of messages, handlers, ids and breaks; the tracker is never
\* longer than its capacity and never counts one id twice, whatever the order in which
\* handlers of old and new connections increment and forget.
THEOREM Types == Spec => []TypeOK
  <1>1. Kept => TypeOK
    BY TrackerType DEF Kept, Inv, Shape, RestTyped, Aged, TypeOK
  <1> QED BY <1>1, TypesInvariant, PTL

\* A count that is neither forgotten nor thrown away with all the others is lost only after
\* Capacity other ids have been counted since its own was: for any number of packet ids,
\* more than the tracker has places for included, and whatever the handlers that share it do.
THEOREM EvictsOldest == Spec => EvictedIsOldest
  <1>1. Kept /\ [Next]_vars
          => [\A i \in Ids : CountOf(i)' < CountOf(i)
                 => ForgetsCount(i) \/ Cardinality(since'[i]) >= Capacity]_vars
    <2> SUFFICES ASSUME Kept, Next, NEW i \in Ids, CountOf(i)' < CountOf(i), ~ForgetsCount(i)
                 PROVE  Cardinality(since'[i]) >= Capacity
      OBVIOUS
    <2> QED BY CountStep DEF Kept
  <1> QED BY <1>1, TypesInvariant, PTL DEF Spec, EvictedIsOldest
-----------------------------------------------------------------------------
(* The contract: what the steps do to where the session stands with a message. *)

\* What a handler works on was published.
Known == \A h \in Handlers : pc[h] # "idle" => status[msg[h]] # "new"

\* A status never goes back to "new".
LEMMA StatusMoves ==
    Inv /\ [Next]_vars => \A m \in Messages : status[m] # "new" => status'[m] # "new"
  <1> SUFFICES ASSUME Inv, [Next]_vars, NEW m \in Messages, status[m] # "new"
               PROVE  status'[m] # "new"
    OBVIOUS
  <1>1. status \in [Messages -> Statuses]
    BY DEF Inv, Shape
  <1>2. ASSUME NEW n \in Messages, Publish(n) \/ Resend(n) PROVE status'[m] # "new"
    BY <1>1, <1>2 DEF Publish, Resend
  <1>3. ASSUME NEW h \in Handlers, NEW n \in Messages, NEW i \in Ids, Deliver(h, n, i)
        PROVE  status'[m] # "new"
    BY <1>1, <1>3 DEF Deliver
  <1>4. ASSUME NEW h \in Handlers, Handle(h) PROVE status'[m] # "new"
    <2>1. CASE Ack(h)
      BY <1>1, <2>1 DEF Ack
    <2>2. CASE ~Ack(h)
      <3>1. status' = status
        BY <1>4, <2>2 DEF Handle, DropUnroutable, GiveUp, Accept, CountDrop, DeadLetter,
                          DeadLetterFails, ForgetCount, broker
      <3> QED BY <3>1
    <2> QED BY <2>1, <2>2
  <1>5. ASSUME NEW kept \in BOOLEAN, Reconnect(kept) \/ Boot(kept) PROVE status'[m] # "new"
    <2>1. Attach(kept)
      BY <1>5 DEF Reconnect, Boot
    <2> QED BY <1>1, <2>1 DEF Attach
  <1>6. ASSUME \/ Break \/ Resubscribed \/ ResubscribeFailed \/ ResetTracker \/ Stop \/ Die \/ Start
               \/ UNCHANGED vars
        PROVE  status' = status
    BY <1>6 DEF Break, Resubscribed, ResubscribeFailed, ResetTracker, Stop, Die, Start, vars, broker
  <1> QED BY <1>2, <1>3, <1>4, <1>5, <1>6 DEF Next

LEMMA KnownStep == Inv /\ Known /\ [Next]_vars => Known'
  <1> SUFFICES ASSUME Inv, Known, [Next]_vars, NEW h \in Handlers, pc'[h] # "idle"
               PROVE  status'[msg'[h]] # "new"
    BY DEF Known
  <1>1. CASE pc[h] # "idle" /\ msg'[h] = msg[h]
    <2>1. msg[h] \in Messages /\ status[msg[h]] # "new"
      BY <1>1 DEF Inv, Shape, Known
    <2> QED BY <1>1, <2>1, StatusMoves
  <1>2. CASE \E m \in Messages, i \in Ids : Deliver(h, m, i)
    <2>1. PICK m \in Messages, i \in Ids : Deliver(h, m, i)
      BY <1>2
    <2>2. status'[m] = "inflight"
      BY <2>1 DEF Deliver, Inv, Shape
    <2>3. CASE routed
      BY <2>1, <2>2, <2>3 DEF Deliver, Inv, Shape
    <2>4. CASE ~routed
      <3>1. UNCHANGED <<pc, msg>>
        BY <2>1, <2>4 DEF Deliver, goroutines
      <3> QED BY <1>1, <3>1
    <2> QED BY <2>3, <2>4
  <1>3. ASSUME NEW g \in Handlers, NEW m \in Messages, NEW i \in Ids, Deliver(g, m, i), g # h
        PROVE  pc'[h] = pc[h] /\ msg'[h] = msg[h]
    BY <1>3 DEF Deliver, goroutines, Inv, Shape
  <1>4. ASSUME NEW g \in Handlers, Handle(g) PROVE pc[h] # "idle" /\ msg'[h] = msg[h]
    <2>1. /\ pc[g] # "idle"
          /\ \/ Return(g)
             \/ (\E label \in Labels : Goto(g, label)) /\ UNCHANGED msg
      BY <1>4 DEF Handle, DropUnroutable, GiveUp, Accept, CountDrop, DeadLetter, DeadLetterFails,
                  ForgetCount, Ack, Labels
    <2>2. CASE g = h
      BY <2>1, <2>2 DEF Return, Goto, Inv, Shape
    <2>3. CASE g # h
      BY <2>1, <2>3 DEF Return, Goto, Inv, Shape
    <2> QED BY <2>2, <2>3
  <1>5. ASSUME Die PROVE FALSE
    BY <1>5 DEF Die
  <1>6. ASSUME \/ \E m \in Messages : Publish(m) \/ Resend(m)
               \/ Break \/ Resubscribed \/ ResubscribeFailed \/ ResetTracker \/ Stop \/ Start
               \/ \E kept \in BOOLEAN : Reconnect(kept) \/ Boot(kept)
               \/ UNCHANGED vars
        PROVE  pc' = pc /\ msg' = msg
    BY <1>6 DEF Publish, Resend, Break, Resubscribed, ResubscribeFailed, ResetTracker, Stop, Start,
                Reconnect, Boot, vars, goroutines
  <1> QED BY <1>1, <1>2, <1>3, <1>4, <1>5, <1>6 DEF Next

\* How the session stands with one message, and with all of them.
LEMMA StandingOf ==
    /\ \A s \in Statuses : /\ (Standing[s] = "unknown") <=> (s = "new")
                           /\ (Standing[s] = "owed") <=> (s \in {"queued", "inflight"})
    /\ Standing["settled"] = "settled" /\ Standing["missed"] = "missed"
  BY DEF Standing, Statuses

LEMMA StandingKept ==
    ASSUME \A m \in Messages : Standing[status'[m]] = Standing[status[m]],
           resends' = resends, handled' = handled
    PROVE  UNCHANGED Contract!contractVars
  <1>1. [m \in Messages |-> Standing[status[m]]]' = [m \in Messages |-> Standing[status[m]]]
    OBVIOUS
  <1> QED BY <1>1 DEF Contract!contractVars

LEMMA StandingUpdate ==
    ASSUME status \in [Messages -> Statuses], NEW n \in Messages, NEW s \in Statuses,
           \A m \in Messages : status'[m] = IF m = n THEN s ELSE status[m]
    PROVE  [m \in Messages |-> Standing[status[m]]]'
             = [[m \in Messages |-> Standing[status[m]]] EXCEPT ![n] = Standing[s]]
  OBVIOUS

\* Every step of the broker, the connection, the process and the goroutines is a step of
\* the contract or changes nothing in it.
LEMMA ContractStep == Inv /\ Known /\ [Next]_vars => [Contract!Next]_(Contract!contractVars)
  <1> SUFFICES ASSUME Inv, Known, [Next]_vars
               PROVE  Contract!Next \/ UNCHANGED Contract!contractVars
    OBVIOUS
  <1> DEFINE state == [m \in Messages |-> Standing[status[m]]]
  <1>0. status \in [Messages -> Statuses]
    BY DEF Inv, Shape
  <1>1. ASSUME UNCHANGED <<resends, status, handled>> PROVE UNCHANGED Contract!contractVars
    BY <1>1, StandingKept
  <1>2. ASSUME NEW m \in Messages, Publish(m) PROVE Contract!Publish(m)
    <2>1. PICK s \in {"queued", "missed"} : status' = [status EXCEPT ![m] = s]
      BY <1>2 DEF Publish
    <2>2. status[m] = "new" /\ resends' = resends /\ handled' = handled
      BY <1>2 DEF Publish, history
    <2>3. state' = [state EXCEPT ![m] = Standing[s]]
      <3>1. s \in Statuses
        BY DEF Statuses
      <3>2. \A n \in Messages : status'[n] = IF n = m THEN s ELSE status[n]
        BY <1>0, <2>1
      <3> QED BY <1>0, <3>1, <3>2, StandingUpdate
    <2>4. Standing[s] \in {"owed", "missed"} /\ state[m] = "unknown"
      BY <2>2, StandingOf DEF Statuses
    <2> QED BY <2>2, <2>3, <2>4 DEF Contract!Publish
  <1>3. ASSUME NEW h \in Handlers, NEW m \in Messages, NEW i \in Ids, Deliver(h, m, i)
        PROVE  UNCHANGED Contract!contractVars
    <2>1. status[m] \in {"queued", "inflight"} /\ status' = [status EXCEPT ![m] = "inflight"]
      BY <1>3 DEF Deliver, Outgoing, Inv, Shape, InFlight
    <2>2. \A n \in Messages : Standing[status'[n]] = Standing[status[n]]
      BY <1>0, <2>1, StandingOf DEF Statuses
    <2>3. resends' = resends /\ handled' = handled
      BY <1>3 DEF Deliver, history
    <2> QED BY <2>2, <2>3, StandingKept
  <1>4. ASSUME NEW h \in Handlers,
               \/ DropUnroutable(h) \/ GiveUp(h) \/ Accept(h) \/ CountDrop(h)
               \/ DeadLetter(h) \/ DeadLetterFails(h) \/ ForgetCount(h)
        PROVE  Contract!Next \/ UNCHANGED Contract!contractVars
    <2>1. /\ pc[h] # "idle"
          /\ handled' \in {handled, handled \cup {msg[h]}}
          /\ status' = status /\ resends' = resends
      BY <1>4 DEF DropUnroutable, GiveUp, Accept, CountDrop, DeadLetter, DeadLetterFails,
                  ForgetCount, broker, history
    <2>2. CASE handled' = handled
      BY <1>1, <2>1, <2>2
    <2>3. CASE handled' = handled \cup {msg[h]}
      <3>1. msg[h] \in Messages /\ status[msg[h]] # "new"
        BY <2>1 DEF Inv, Shape, Known
      <3>2. state[msg[h]] # "unknown"
        BY <1>0, <3>1, StandingOf
      <3>3. state' = state
        BY <2>1
      <3>4. Contract!Handle(msg[h])
        BY <2>1, <2>3, <3>2, <3>3 DEF Contract!Handle
      <3> QED BY <3>1, <3>4 DEF Contract!Next
    <2> QED BY <2>1, <2>2, <2>3
  <1>5. ASSUME NEW h \in Handlers, Ack(h)
        PROVE  Contract!Next \/ UNCHANGED Contract!contractVars
    <2> DEFINE acked == {m \in InFlight : packet[m] = mid[h]}
    <2>1. resends' = resends /\ handled' = handled
      BY <1>5 DEF Ack, history
    <2>2. CASE status' = status
      BY <1>1, <2>1, <2>2
    <2>3. CASE status' # status
      <3>1. /\ live[h] /\ connected /\ pc[h] = "ack"
            /\ status' = [m \in Messages |-> IF m \in acked THEN "settled" ELSE status[m]]
        BY <1>5, <2>3 DEF Ack
      <3>2. PICK m \in acked : TRUE
        <4>1. ASSUME acked = {} PROVE status' = status
          BY <1>0, <3>1, <4>1
        <4> QED BY <2>3, <4>1
      <3>3. m \in Messages /\ acked = {m} /\ status[m] = "inflight"
        BY <3>2 DEF Inv, IdsDistinct, InFlight
      <3>4. state' = [state EXCEPT ![m] = "settled"]
        <4>1. \A n \in Messages : status'[n] = IF n = m THEN "settled" ELSE status[n]
          BY <3>1, <3>3
        <4>2. "settled" \in Statuses
          BY DEF Statuses
        <4> QED BY <1>0, <3>3, <4>1, <4>2, StandingUpdate, StandingOf
      <3>5. state[m] = "owed"
        BY <3>3, StandingOf DEF Statuses
      <3>6. ~resends => m \in handled
        <4>1. ~resends => msg[h] \in acked
          BY <3>1 DEF Inv, Custody, Owns, InFlight
        <4>2. msg[h] \in handled
          BY <3>1 DEF Inv, AckComesLast
        <4> QED BY <3>3, <4>1, <4>2
      <3>7. Contract!Settle(m)
        BY <2>1, <3>4, <3>5, <3>6 DEF Contract!Settle
      <3> QED BY <3>3, <3>7 DEF Contract!Next
    <2> QED BY <2>2, <2>3
  <1>6. ASSUME NEW kept \in BOOLEAN, Reconnect(kept) \/ Boot(kept)
        PROVE  Contract!Next \/ UNCHANGED Contract!contractVars
    <2>1. Attach(kept) /\ resends' = resends /\ handled' = handled
      BY <1>6 DEF Reconnect, Boot, history
    <2>2. CASE kept
      BY <1>1, <2>1, <2>2 DEF Attach
    <2>3. CASE ~kept
      <3>1. status' = [m \in Messages |->
                         IF status[m] \in {"queued", "inflight"} THEN "missed" ELSE status[m]]
        BY <2>1, <2>3 DEF Attach
      <3>2. \A m \in Messages :
              state'[m] = IF state[m] = "owed" THEN "missed" ELSE state[m]
        BY <1>0, <3>1, StandingOf
      <3>3. state' = [m \in Messages |-> IF state[m] = "owed" THEN "missed" ELSE state[m]]
        BY <3>2
      <3>4. Contract!Lose
        BY <2>1, <3>3 DEF Contract!Lose
      <3> QED BY <3>4 DEF Contract!Next
    <2> QED BY <2>2, <2>3
  <1>7. ASSUME \/ \E m \in Messages : Resend(m)
               \/ Break \/ Resubscribed \/ ResubscribeFailed \/ ResetTracker \/ Stop \/ Die \/ Start
               \/ UNCHANGED vars
        PROVE  UNCHANGED <<resends, status, handled>>
    BY <1>7 DEF Resend, Break, Resubscribed, ResubscribeFailed, ResetTracker, Stop, Die, Start,
                vars, broker, history
  <1> QED BY <1>1, <1>2, <1>3, <1>4, <1>5, <1>6, <1>7 DEF Next, Handle, Contract!Next

\* The subscriber with its broker session implements SubscriberContract: a message is
\* settled by an acknowledgement of its own, with a strict broker only after it was
\* handled, and what is settled or missed stays so, for every number of messages,
\* concurrent handlers, packet ids and reconnects.
THEOREM KeepsContract == Spec => ContractSpec
  <1>1. Init => Contract!Init
    <2>1. ASSUME Init
          PROVE  [m \in Messages |-> Standing[status[m]]] = [m \in Messages |-> "unknown"]
      BY <2>1, StandingOf DEF Init, Statuses
    <2>2. ASSUME Init PROVE (~resends) \in BOOLEAN /\ handled = {}
      <3>1. resends \in BOOLEAN /\ handled = {}
        BY <2>2, SubscriberAssumption DEF Init
      <3> QED BY <3>1
    <2> QED BY <2>1, <2>2 DEF Contract!Init
  <1>2. Init => DownIsOffline /\ Known
    BY DEF Init, DownIsOffline, Known
  <1> QED BY <1>1, <1>2, InitInv, DownInv, NextInv, KnownStep, ContractStep, PTL
             DEF Spec, ContractSpec, Contract!Spec
=============================================================================
