--------------------------- MODULE OutboxContract ---------------------------
(***************************************************************************)
(* What internal/outbox promises for each event handed to Store.Append     *)
(* (doc.go, "Two-phase delivery contract" and "Idempotency"): it is        *)
(* delivered, once the broker has it, or abandoned, for good, by the       *)
(* failed attempt that exhausts MaxAttempts. No broker client is given an  *)
(* event that already counts as delivered or abandoned. What a client was  *)
(* given before may still reach the broker then, since the client keeps a  *)
(* message whose acknowledgement the outbox no longer waits for.           *)
(***************************************************************************)
EXTENDS Naturals

CONSTANTS Rows, MaxAttempts

VARIABLES state,     \* where the outbox stands with an event
          tries,     \* failed attempts counted against it
          sent,      \* how often it was given to a broker client
          accepted   \* events the broker has taken at least once

contractVars == <<state, tries, sent, accepted>>

Init ==
    /\ state = [r \in Rows |-> "unknown"]
    /\ tries = [r \in Rows |-> 0]
    /\ sent = [r \in Rows |-> 0]
    /\ accepted = {}

Promise(r) ==
    /\ state[r] = "unknown"
    /\ state' = [state EXCEPT ![r] = "owed"]
    /\ UNCHANGED <<tries, sent, accepted>>

Send(r) ==
    /\ state[r] = "owed"
    /\ sent' = [sent EXCEPT ![r] = @ + 1]
    /\ UNCHANGED <<state, tries, accepted>>

\* The broker takes the bytes, whatever the outbox thinks of the event by then.
Transmit(r) ==
    /\ sent[r] > 0
    /\ accepted' = accepted \cup {r}
    /\ UNCHANGED <<state, tries, sent>>

Deliver(r) ==
    /\ state[r] = "owed"
    /\ r \in accepted
    /\ state' = [state EXCEPT ![r] = "delivered"]
    /\ UNCHANGED <<tries, sent, accepted>>

Retry(r) ==
    /\ state[r] = "owed"
    /\ tries[r] + 1 < MaxAttempts
    /\ tries' = [tries EXCEPT ![r] = @ + 1]
    /\ UNCHANGED <<state, sent, accepted>>

GiveUp(r) ==
    /\ state[r] = "owed"
    /\ tries[r] + 1 = MaxAttempts
    /\ tries' = [tries EXCEPT ![r] = @ + 1]
    /\ state' = [state EXCEPT ![r] = "abandoned"]
    /\ UNCHANGED <<sent, accepted>>

Next == \E r \in Rows :
            \/ Promise(r) \/ Send(r) \/ Transmit(r)
            \/ Deliver(r) \/ Retry(r) \/ GiveUp(r)

Spec == Init /\ [][Next]_contractVars
=============================================================================
