------------------------------- MODULE MCIntake -------------------------------
(***************************************************************************)
(* Intake on a small instance. Ratios of the times follow the seeds of      *)
(* migration 004: quiet < debounce < max_debounce_total.                   *)
(***************************************************************************)
EXTENDS Intake

\* Three deliveries of two messages of one chat: 1 and 2 are one message. Both
\* messages are also copied. Message 1 carries an id, 2 does not.
TwiceDelivered == <<1, 1, 2>>
Copies == <<1, 2>>
OneChat == [m \in Message |-> CHOOSE c \in Conversation : TRUE]
=============================================================================
