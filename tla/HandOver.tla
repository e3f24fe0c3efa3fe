------------------------------ MODULE HandOver --------------------------------
(***************************************************************************)
(* What the orchestrator's intake promises about messages, with no timers  *)
(* and no buffers: a message that was accepted for the agent is handed to  *)
(* it once at most, in a batch of one conversation and of bounded size.    *)
(* Messages may get lost before that; nothing is handed over twice.        *)
(***************************************************************************)
EXTENDS Naturals, FiniteSets

CONSTANTS Delivery,      \* message deliveries
          Conversation,
          ChatOf,        \* the conversation of a delivery
          MaxBuffered    \* whatsapp.max_buffered_messages

VARIABLES accepted,      \* deliveries that passed every filter
          handed         \* handed[d]: how often the agent was given d

Init == /\ accepted = {}
        /\ handed = [d \in Delivery |-> 0]

Accept == /\ \E d \in Delivery \ accepted : accepted' = accepted \cup {d}
          /\ UNCHANGED handed

Give(batch) ==
  /\ batch # {}
  /\ Cardinality(batch) <= MaxBuffered
  /\ \E c \in Conversation : \A d \in batch : ChatOf[d] = c
  /\ \A d \in batch : handed[d] = 0
  /\ handed' = [d \in Delivery |-> IF d \in batch THEN 1 ELSE handed[d]]

\* The delivery that fills a buffer is accepted and handed over at once.
Next ==
  \/ Accept
  \/ \E batch \in SUBSET accepted : Give(batch) /\ UNCHANGED accepted
  \/ \E d \in Delivery \ accepted : \E batch \in SUBSET accepted :
       Give(batch \cup {d}) /\ accepted' = accepted \cup {d}

Spec == Init /\ [][Next]_<<accepted, handed>>
=============================================================================
