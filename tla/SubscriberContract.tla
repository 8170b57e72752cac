------------------------- MODULE SubscriberContract -------------------------
(***************************************************************************)
(* What the subscriber and its broker session promise for each message     *)
(* that is published (doc comments of internal/mqtt, "messages are acked   *)
(* only AFTER pipeline.Process returns"): the broker owes it until it is   *)
(* settled, one acknowledgement settles one message, and with a strict     *)
(* broker only a message that was handled. A message that was not taken,   *)
(* or whose session is lost, is missed. Settled and missed are for good.   *)
(***************************************************************************)
CONSTANT Messages

VARIABLES strict,   \* the broker sends a message once in a connection
          state,    \* where the session stands with a message
          handled   \* messages processed, dropped on purpose or dead-lettered

contractVars == <<strict, state, handled>>

Init ==
    /\ strict \in BOOLEAN
    /\ state = [m \in Messages |-> "unknown"]
    /\ handled = {}

Publish(m) ==
    /\ state[m] = "unknown"
    /\ \E answer \in {"owed", "missed"} : state' = [state EXCEPT ![m] = answer]
    /\ UNCHANGED <<strict, handled>>

\* Never before it is published; possibly again, and after the session is lost.
Handle(m) ==
    /\ state[m] # "unknown"
    /\ handled' = handled \cup {m}
    /\ UNCHANGED <<strict, state>>

Settle(m) ==
    /\ state[m] = "owed"
    /\ strict => m \in handled
    /\ state' = [state EXCEPT ![m] = "settled"]
    /\ UNCHANGED <<strict, handled>>

\* The session goes, with everything in it.
Lose ==
    /\ state' = [m \in Messages |-> IF state[m] = "owed" THEN "missed" ELSE state[m]]
    /\ UNCHANGED <<strict, handled>>

Next == Lose \/ \E m \in Messages : Publish(m) \/ Handle(m) \/ Settle(m)

Spec == Init /\ [][Next]_contractVars
=============================================================================
