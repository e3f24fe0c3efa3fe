--------------------------- MODULE AgentBatch_proofs ---------------------------
(***************************************************************************)
(* Theorems about the batches of a conversation, for any number of them,   *)
(* any answers of the AI, any policies, commands and faults; and about the *)
(* answer to a wish for a day (Scheduling) that a batch may get instead of *)
(* one of the AI, for any calendars, masters, wishes and edits.            *)
(***************************************************************************)
EXTENDS AgentBatch, Scheduling, FiniteSetTheorems, TLAPS

-----------------------------------------------------------------------------
(* Type correctness *)

\* Only a RESPOND answer leads to the tool calls, so that reading its fields
\* there is safe.
TypeInv ==
  /\ TypeOK
  /\ \A b \in Batch : pc[b] = "call" => Responding(b)

LEMMA AnswerType ==
  ASSUME NEW a \in Answer
  PROVE  /\ a # NoAnswer
         /\ a.text \in Message \ Forwarded
         /\ a.calls \in Seq(Tool)
<1>1. a \in AiOutput /\ NoAnswer \notin AiOutput
  BY BatchAssumption
<1>2. QED
  BY <1>1 DEF AiOutput, Message, Forwarded

LEMMA DefaultType == DefaultPolicy \in ScenarioPolicy
BY DEF DefaultPolicy, ScenarioPolicy

LEMMA TypeInit == Init => TypeInv
<1> SUFFICES ASSUME Init PROVE TypeInv
  OBVIOUS
<1>1. /\ aiKey \in BOOLEAN
      /\ state \in ConversationState /\ writer \in Batch \cup {Admin}
      /\ ignored \in BOOLEAN /\ forced \in BOOLEAN /\ policy \in Policy
  BY DEF Init, ConversationState
<1>2. /\ pc \in [Batch -> Location]
      /\ text \in [Batch -> Message]
      /\ then \in [Batch -> {"end", "case", "tell"}]
      /\ closing \in [Batch -> Message]
  BY DEF Init, Location, Message
<1>3. /\ seen \in [Batch -> ScenarioPolicy]
      /\ answer \in [Batch -> Answer \cup {NoAnswer}]
  BY DefaultType DEF Init
<1>4. todo \in [Batch -> Seq(Tool)]
  BY DEF Init
<1>5. /\ booking \in [Batch -> SUBSET {"failed", "ok"}]
      /\ said \in [Batch -> Said]
      /\ cases \subseteq Batch /\ pendings \subseteq Batch
      /\ booked \subseteq Batch
  BY DEF Init, Said
<1>6. TypeOK
  BY <1>1, <1>2, <1>3, <1>4, <1>5 DEF TypeOK
<1>7. QED
  BY <1>6 DEF TypeInv, Init

\* What GoSay leaves of the types of what it writes.
LEMMA GoSayType ==
  ASSUME TypeInv, NEW b \in Batch, NEW message \in Message,
         NEW next \in {"end", "case", "tell"}, GoSay(b, message, next)
  PROVE  /\ pc' \in [Batch -> Location]
         /\ text' \in [Batch -> Message]
         /\ then' \in [Batch -> {"end", "case", "tell"}]
         /\ pc'[b] = "say" /\ text'[b] = message /\ then'[b] = next
         /\ \A c \in Batch \ {b} : pc'[c] = pc[c] /\ text'[c] = text[c]
BY DEF TypeInv, TypeOK, GoSay, Goto, Location

LEMMA GotoType ==
  ASSUME TypeInv, NEW b \in Batch, NEW next \in Location, Goto(b, next)
  PROVE  /\ pc' \in [Batch -> Location] /\ pc'[b] = next
         /\ \A c \in Batch \ {b} : pc'[c] = pc[c]
BY DEF TypeInv, TypeOK, Goto

\* The actions that write nothing but pc, and do not lead to the calls.
Moves(b) ==
  \/ Load(b) \/ Override(b) \/ LegacyHandOver(b) \/ ReadContext(b)
  \/ Log(b) \/ Throws(b)

LEMMA MoveType ==
  ASSUME TypeInv, NEW b \in Batch, Moves(b)
  PROVE  /\ \E next \in Location \ {"call", "say"} : Goto(b, next)
         /\ UNCHANGED <<shared, mind, speech, rows>>
BY DEF TypeInv, TypeOK, Moves, Load, Override, LegacyHandOver, ReadContext,
       Log, Throws, Location, Goto

LEMMA MoveTypeOK ==
  ASSUME TypeInv, NEW b \in Batch, Moves(b)
  PROVE  TypeInv'
<1>1. PICK next \in Location \ {"call", "say"} : Goto(b, next)
  BY MoveType
<1>2. UNCHANGED <<shared, mind, speech, rows>>
  BY MoveType
<1>3. /\ pc' \in [Batch -> Location] /\ pc'[b] = next
      /\ \A c \in Batch \ {b} : pc'[c] = pc[c]
  BY <1>1, GotoType
<1>4. QED
  BY <1>1, <1>2, <1>3
     DEF TypeInv, TypeOK, Responding, shared, mind, speech, rows

\* The actions that start a message from a plain place.
Speaks(b) ==
  LegacyReply(b) \/ SchedulingReply(b) \/ Settle(b) \/ PauseBot(b) \/ Tell(b)

LEMMA SpeakTypeOK ==
  ASSUME TypeInv, NEW b \in Batch, Speaks(b)
  PROVE  TypeInv'
<1> USE DEF TypeInv, TypeOK, Responding
<1>1. CASE LegacyReply(b)
  BY <1>1, GoSayType DEF LegacyReply, shared, mind, rows, Message
<1>2. CASE SchedulingReply(b)
  BY <1>2, GoSayType DEF SchedulingReply, shared, mind, rows, Message
<1>3. CASE Settle(b)
  <2>1. answer[b] \in Answer
    BY <1>3 DEF Settle
  <2>2. Replies(b) \subseteq Message
    BY <2>1, AnswerType DEF Replies, Message
  <2>3. PICK m \in Message, n \in {"end", "case"} : GoSay(b, m, n)
    <3>1. CASE "failed" \in booking[b]
      BY <1>3, <3>1 DEF Settle, Message
    <3>2. CASE "failed" \notin booking[b] /\ FakeConfirmation(b)
      BY <1>3, <3>2 DEF Settle, Message
    <3>3. CASE "failed" \notin booking[b] /\ ~FakeConfirmation(b)
      BY <1>3, <2>2, <3>3 DEF Settle
    <3>4. QED
      BY <3>1, <3>2, <3>3
  <2>4. QED
    BY <1>3, <2>3, GoSayType DEF Settle, shared, mind, rows
<1>4. CASE PauseBot(b)
  <2>1. /\ state' = "AWAITING_ADMIN" /\ writer' = b
        /\ GoSay(b, "handoff_ack", "tell")
        /\ UNCHANGED <<aiKey, ignored, forced, policy, mind, closing, said, rows>>
    BY <1>4 DEF PauseBot
  <2>2. QED
    BY <2>1, GoSayType DEF mind, rows, Message, ConversationState
<1>5. CASE Tell(b)
  <2>1. CASE closing[b] = "none"
    BY <1>5, <2>1, GotoType DEF Tell, shared, mind, rows, Location
  <2>2. CASE closing[b] # "none"
    <3>1. GoSay(b, closing[b], "end") /\ closing[b] \in Message
      BY <1>5, <2>2 DEF Tell
    <3>2. UNCHANGED <<shared, mind, closing, said, rows>>
      BY <1>5 DEF Tell
    <3>3. QED
      BY <3>1, <3>2, GoSayType DEF shared, mind, rows
  <2>3. QED
    BY <2>1, <2>2
<1>6. QED
  BY <1>1, <1>2, <1>3, <1>4, <1>5 DEF Speaks

LEMMA AskTypeOK ==
  ASSUME TypeInv, NEW b \in Batch, AskAi(b)
  PROVE  TypeInv'
<1> USE DEF TypeInv, TypeOK
<1>1. PICK a \in Answer \cup {NoAnswer} :
        /\ answer' = [answer EXCEPT ![b] = a]
        /\ Escalate(b, a) \/ Delegate(b, a) \/ Respond(b, a)
  BY DEF AskAi
<1>2. /\ UNCHANGED <<shared, seen, booking, rows>>
      /\ answer' \in [Batch -> Answer \cup {NoAnswer}]
      /\ answer'[b] = a /\ \A c \in Batch \ {b} : answer'[c] = answer[c]
  BY <1>1 DEF AskAi
<1>3. CASE Escalate(b, a)
  <2>1. Goto(b, "case") /\ UNCHANGED <<todo, speech>>
    BY <1>3 DEF Escalate
  <2>2. /\ pc' \in [Batch -> Location] /\ pc'[b] = "case"
        /\ \A c \in Batch \ {b} : pc'[c] = pc[c]
    BY <2>1, GotoType DEF Location
  <2>3. QED
    BY <1>2, <2>1, <2>2 DEF Responding, shared, speech, rows
<1>4. CASE Delegate(b, a)
  <2>1. a \in Answer
    BY <1>4 DEF Delegate
  <2>2. CASE seen[b].handoff
    <3>1. /\ Goto(b, "case") /\ UNCHANGED <<text, then, todo, said>>
          /\ closing' = [closing EXCEPT ![b] = a.text]
      BY <1>4, <2>2 DEF Delegate
    <3>2. closing' \in [Batch -> Message]
      BY <2>1, <3>1, AnswerType
    <3>3. QED
      BY <1>2, <3>1, <3>2, GotoType, ZenonT(40) DEF Responding, shared, rows, Location
  <2>3. CASE ~seen[b].handoff
    <3> DEFINE m == IF ReplyAllowed(b, a) THEN a.text ELSE "generic"
    <3>1. m \in Message
      BY <2>1, AnswerType DEF Message
    <3>2. GoSay(b, m, "end") /\ UNCHANGED <<closing, todo, said>>
      BY <1>4, <2>3 DEF Delegate
    <3> HIDE DEF m
    <3>3. QED
      BY <1>2, <3>1, <3>2, GoSayType, SMTT(30) DEF Responding, shared, rows
  <2>4. QED
    BY <2>2, <2>3
<1>5. CASE Respond(b, a)
  <2>1. a \in Answer /\ a.sure /\ a.decision = "RESPOND"
    BY <1>5 DEF Respond
  <2>2. Goto(b, "call") /\ todo' = [todo EXCEPT ![b] = a.calls]
          /\ UNCHANGED speech
    BY <1>5 DEF Respond
  <2>3. todo' \in [Batch -> Seq(Tool)] /\ a # NoAnswer
    BY <2>1, <2>2, AnswerType
  <2>4. QED
    <3>1. /\ pc' \in [Batch -> Location] /\ pc'[b] = "call"
          /\ \A c \in Batch \ {b} : pc'[c] = pc[c]
      BY <2>2, GotoType DEF Location
    <3>2. Responding(b)'
      BY <1>2, <2>1, <2>3 DEF Responding
    <3>3. TypeOK'
      BY <1>2, <2>2, <2>3, <3>1 DEF shared, speech, rows
    <3>4. QED
      BY <1>2, <3>1, <3>2, <3>3 DEF Responding
<1>6. QED
  BY <1>1, <1>3, <1>4, <1>5

\* A tool call, whatever comes of it.
LEMMA CallIsNext ==
  ASSUME NEW b \in Batch, SkipCall(b) \/ CallAnswered(b) \/ CallThrows(b)
  PROVE  /\ pc[b] = "call" /\ todo[b] # <<>>
         /\ \E flag \in {"failed", "ok"}, isBooked \in BOOLEAN :
              /\ NextCall(b, flag, isBooked)
              /\ flag = "ok" => ~Skipped(b)
BY DEF SkipCall, CallAnswered, CallThrows

LEMMA CallTypeOK ==
  ASSUME TypeInv, NEW b \in Batch,
         SkipCall(b) \/ CallAnswered(b) \/ CallThrows(b)
  PROVE  TypeInv'
<1> USE DEF TypeInv, TypeOK
<1>1. PICK flag \in {"failed", "ok"}, isBooked \in BOOLEAN :
        NextCall(b, flag, isBooked)
  BY CallIsNext
<1>2. todo[b] # <<>>
  BY CallIsNext
<1>3. todo' \in [Batch -> Seq(Tool)]
  BY <1>1, <1>2 DEF NextCall
<1>4. booking' \in [Batch -> SUBSET {"failed", "ok"}] /\ booked' \subseteq Batch
  BY <1>1 DEF NextCall
<1>5. UNCHANGED <<shared, pc, seen, answer, speech, cases, pendings>>
  BY <1>1 DEF NextCall
<1>6. QED
  BY <1>3, <1>4, <1>5 DEF Responding, shared, speech

LEMMA TypeStep == TypeInv /\ [Next]_vars => TypeInv'
<1> SUFFICES ASSUME TypeInv, [Next]_vars PROVE TypeInv'
  OBVIOUS
<1>1. ASSUME NEW b \in Batch, Step(b) \/ Fault(b) PROVE TypeInv'
  <2> USE DEF TypeInv, TypeOK
  <2>1. CASE Moves(b)
    BY <2>1, MoveTypeOK
  <2>2. CASE Speaks(b)
    BY <2>2, SpeakTypeOK
  <2>3. CASE ReadPolicy(b)
    <3>1. PICK p \in Readable : seen' = [seen EXCEPT ![b] = p]
      BY <2>3 DEF ReadPolicy
    <3>2. p \in ScenarioPolicy
      BY <3>1, DefaultType, BatchAssumption DEF Readable
    <3>3. seen' \in [Batch -> ScenarioPolicy]
      BY <3>1, <3>2
    <3>4. QED
      BY <2>3, <3>3, GotoType
         DEF ReadPolicy, Responding, shared, speech, rows, Location
  <2>4. CASE AskAi(b)
    BY <2>4, AskTypeOK
  <2>5. CASE SkipCall(b) \/ CallAnswered(b) \/ CallThrows(b)
    BY <2>5, CallTypeOK
  <2>6. CASE Say(b)
    <3>1. said' \in [Batch -> Said]
      BY <2>6 DEF Say, Said
    <3>2. QED
      BY <2>6, <3>1, GotoType DEF Say, Responding, shared, mind, rows, Location
  <2>7. CASE CreateCase(b)
    BY <2>7, GotoType DEF CreateCase, Responding, shared, mind, speech, Location
  <2>8. CASE AddPending(b)
    BY <2>8, GotoType DEF AddPending, Responding, shared, mind, speech, Location
  <2>9. CASE SayRefused(b)
    <3>1. said' \in [Batch -> Said]
      BY <2>9 DEF SayRefused, Said
    <3>2. Goto(b, then[b]) /\ then[b] \in Location \ {"call", "say"}
      BY <2>9 DEF SayRefused, Location
    <3>3. QED
      BY <2>9, <3>1, <3>2, GotoType DEF SayRefused, Responding, shared, mind, rows
  <2>10. QED
    BY <1>1, <2>1, <2>2, <2>3, <2>4, <2>5, <2>6, <2>7, <2>8, <2>9
       DEF Step, Fault, Moves, Speaks
<1>2. CASE Crash
  BY <1>2 DEF Crash, TypeInv, TypeOK, Responding, shared, mind, speech, rows,
              Location, Over
<1>3. CASE Command
  BY <1>3 DEF Command, SetState, SetIgnore, SetRule, SetPolicy, TypeInv, TypeOK,
              Responding, mind, speech, rows, ConversationState
<1>4. CASE UNCHANGED vars
  BY <1>4 DEF vars, shared, mind, speech, rows, TypeInv, TypeOK, Responding
<1>5. QED
  BY <1>1, <1>2, <1>3, <1>4 DEF Next

\* Every reachable state is well typed.
THEOREM TypeCorrect == Spec => []TypeOK
<1>1. TypeInv => TypeOK
  BY DEF TypeInv
<1>2. QED
  BY <1>1, TypeInit, TypeStep, PTL DEF Spec

-----------------------------------------------------------------------------
(* Handoffs are open before the acknowledgement, and after what is said in place
   of an appointment *)

\* On the way to the case, or cut short.
Forwarding(b) ==
  \/ pc[b] \in {"case", "pending", "failed", "lost"}
  \/ pc[b] \in {"say", "log"} /\ then[b] = "case"

\* Where createHandoffAndPauseWithSummary stands, the rows it has written are
\* there; nothing ever removes them. A text of the AI tells of no forwarding;
\* the code's own texts do, and those before the case lead to it.
HandOffAt(b) ==
  /\ pc[b] = "pending" => b \in cases
  /\ pc[b] \in {"pause", "tell"} => Open(b)
  /\ pc[b] \in {"say", "log"} /\ then[b] = "tell" => Open(b)
  /\ pc[b] = "say" /\ text[b] = "handoff_ack" => Open(b)
  /\ pc[b] = "say" /\ text[b] \in Forwarded => Open(b) \/ then[b] = "case"
  /\ closing[b] \notin Forwarded
  /\ "handoff_ack" \in said[b] => Open(b)
  /\ said[b] \cap Forwarded # {} => Open(b) \/ Forwarding(b)

HandOffInv ==
  /\ TypeInv
  /\ AwaitingIsOpen
  /\ \A b \in Batch : HandOffAt(b)

LEMMA HandOffInit == Init => HandOffInv
<1> SUFFICES ASSUME Init PROVE HandOffInv
  OBVIOUS
<1>1. \A b \in Batch : HandOffAt(b)
  BY DEF Init, HandOffAt, Forwarded
<1>2. QED
  BY <1>1, TypeInit DEF Init, HandOffInv, AwaitingIsOpen

\* What a batch writes of its own, no step of another batch touches; rows stay.
LEMMA OthersKept ==
  ASSUME TypeOK, NEW b \in Batch, Step(b) \/ Fault(b), NEW c \in Batch \ {b}
  PROVE  /\ pc'[c] = pc[c] /\ text'[c] = text[c] /\ then'[c] = then[c]
         /\ closing'[c] = closing[c] /\ said'[c] = said[c]
         /\ answer'[c] = answer[c] /\ booking'[c] = booking[c] /\ todo'[c] = todo[c]
<1>1. pc'[c] = pc[c]
  BY SMTT(30)
     DEF TypeOK, Step, Fault, Load, Override, LegacyHandOver, LegacyReply,
         ReadPolicy, SchedulingReply, ReadContext, AskAi, Escalate, Delegate,
         Respond, SkipCall, CallAnswered, NextCall, Settle, Say, Log, CreateCase,
         AddPending, PauseBot, Tell, CallThrows, SayRefused, Throws, GoSay, Goto
<1>2. text'[c] = text[c] /\ then'[c] = then[c]
  BY SMTT(30)
     DEF TypeOK, Step, Fault, Load, Override, LegacyHandOver, LegacyReply,
         ReadPolicy, SchedulingReply, ReadContext, AskAi, Escalate, Delegate,
         Respond, SkipCall, CallAnswered, NextCall, Settle, Say, Log, CreateCase,
         AddPending, PauseBot, Tell, CallThrows, SayRefused, Throws, GoSay, speech
<1>3. closing'[c] = closing[c] /\ said'[c] = said[c]
  BY SMTT(30)
     DEF TypeOK, Step, Fault, Load, Override, LegacyHandOver, LegacyReply,
         ReadPolicy, SchedulingReply, ReadContext, AskAi, Escalate, Delegate,
         Respond, SkipCall, CallAnswered, NextCall, Settle, Say, Log, CreateCase,
         AddPending, PauseBot, Tell, CallThrows, SayRefused, Throws, speech
<1>4. answer'[c] = answer[c] /\ booking'[c] = booking[c] /\ todo'[c] = todo[c]
  BY SMTT(30)
     DEF TypeOK, Step, Fault, Load, Override, LegacyHandOver, LegacyReply,
         ReadPolicy, SchedulingReply, ReadContext, AskAi, Escalate, Delegate,
         Respond, SkipCall, CallAnswered, NextCall, Settle, Say, Log, CreateCase,
         AddPending, PauseBot, Tell, CallThrows, SayRefused, Throws, mind, speech
<1> QED BY <1>1, <1>2, <1>3, <1>4

LEMMA RowsStay ==
  ASSUME NEW b \in Batch, Step(b) \/ Fault(b)
  PROVE  /\ cases \subseteq cases' /\ pendings \subseteq pendings'
         /\ UNCHANGED <<state, writer>> \/ PauseBot(b)
BY DEF Step, Fault, Load, Override, LegacyHandOver, LegacyReply,
       ReadPolicy, SchedulingReply, ReadContext, AskAi, SkipCall, CallAnswered,
       NextCall, Settle, Say, Log, CreateCase, AddPending, PauseBot, Tell,
       CallThrows, SayRefused, Throws, shared, rows

\* Nothing changes for a batch whose own variables do not.
LEMMA HandOffOthers ==
  ASSUME NEW c \in Batch, HandOffAt(c),
         pc'[c] = pc[c], text'[c] = text[c], then'[c] = then[c],
         closing'[c] = closing[c], said'[c] = said[c],
         cases \subseteq cases', pendings \subseteq pendings'
  PROVE  HandOffAt(c)'
BY DEF HandOffAt, Open, Forwarding

LEMMA HandOffMove ==
  ASSUME TypeInv, NEW b \in Batch, HandOffAt(b), Moves(b)
  PROVE  HandOffAt(b)'
<1> USE DEF HandOffAt, Open, Forwarding
<1>1. UNCHANGED <<text, then, closing, said, cases, pendings>>
  BY MoveType DEF speech, rows
<1>2. CASE Log(b)
  <2>1. /\ pc[b] = "log" /\ pc'[b] = then[b]
        /\ then[b] \in {"end", "case", "tell"}
    BY <1>2 DEF Log, TypeInv, TypeOK, Goto
  <2>2. QED
    BY <1>1, <2>1
<1>3. CASE Throws(b)
  <2>1. pc'[b] \in {"case", "failed"}
    BY <1>3 DEF Throws, TypeInv, TypeOK, Goto
  <2>2. QED
    BY <1>1, <2>1
<1>4. CASE ~Log(b) /\ ~Throws(b)
  <2>1. /\ pc[b] \in {"queued", "override", "lookup", "context"}
        /\ pc'[b] \in Location \ {"say", "log", "pending", "pause", "tell"}
    BY <1>4 DEF Moves, Load, Override, LegacyHandOver, ReadContext, TypeInv, TypeOK,
                Goto, Location
  <2>2. QED
    BY <1>1, <2>1
<1>5. QED
  BY <1>2, <1>3, <1>4

\* A text that tells of a forwarding, before the case, leads to the case.
LEMMA HandOffSay ==
  ASSUME TypeInv, NEW b \in Batch, HandOffAt(b), NEW m \in Message,
         NEW n \in {"end", "case"}, GoSay(b, m, n), m # "handoff_ack",
         m \in Forwarded => n = "case",
         said'[b] = said[b], closing'[b] \notin Forwarded,
         UNCHANGED <<cases, pendings>>,
         ~Forwarding(b)
  PROVE  HandOffAt(b)'
<1>1. pc'[b] = "say" /\ text'[b] = m /\ then'[b] = n
  BY GoSayType
<1>2. QED
  BY <1>1 DEF HandOffAt, Open

LEMMA HandOffSpeak ==
  ASSUME TypeInv, NEW b \in Batch, HandOffAt(b), Speaks(b)
  PROVE  HandOffAt(b)'
<1>0. closing[b] \notin Forwarded
  BY DEF HandOffAt
<1>1. CASE LegacyReply(b)
  BY <1>0, <1>1, HandOffSay DEF LegacyReply, Message, Forwarded, Forwarding, rows
<1>2. CASE SchedulingReply(b)
  BY <1>0, <1>2, HandOffSay DEF SchedulingReply, Message, Forwarded, Forwarding, rows
<1>3. CASE Settle(b)
  <2>1. answer[b] \in Answer /\ ~Forwarding(b)
    BY <1>3 DEF Settle, TypeInv, TypeOK, Responding, Forwarding
  <2>2. \A m \in Replies(b) : m \in Message \ Forwarded
    BY <2>1, AnswerType DEF Replies, Message, Forwarded
  <2>3. PICK m \in Message, n \in {"end", "case"} :
          GoSay(b, m, n) /\ m # "handoff_ack" /\ (m \in Forwarded => n = "case")
    <3>1. CASE "failed" \in booking[b]
      BY <1>3, <3>1 DEF Settle, Message
    <3>2. CASE "failed" \notin booking[b] /\ FakeConfirmation(b)
      BY <1>3, <3>2 DEF Settle, Message
    <3>3. CASE "failed" \notin booking[b] /\ ~FakeConfirmation(b)
      BY <1>3, <2>2, <3>3 DEF Settle, Forwarded
    <3>4. QED
      BY <3>1, <3>2, <3>3
  <2>4. QED
    BY <1>0, <1>3, <2>1, <2>3, HandOffSay DEF Settle, rows
<1>4. CASE PauseBot(b)
  <2>1. /\ pc[b] = "pause" /\ GoSay(b, "handoff_ack", "tell")
        /\ UNCHANGED <<closing, said, cases, pendings>>
    BY <1>4 DEF PauseBot, rows
  <2>2. pc'[b] = "say"
    BY <2>1, GoSayType DEF Message
  <2>3. QED
    BY <2>1, <2>2 DEF HandOffAt, Open
<1>5. CASE Tell(b)
  <2>1. pc[b] = "tell" /\ UNCHANGED <<closing, said, cases, pendings>>
    BY <1>5 DEF Tell, rows
  <2>2. CASE closing[b] = "none"
    <3>1. pc'[b] = "end"
      BY <1>5, <2>2 DEF Tell, Goto, TypeInv, TypeOK
    <3>2. QED
      BY <2>1, <3>1 DEF HandOffAt, Open
  <2>3. CASE closing[b] # "none"
    <3>1. GoSay(b, closing[b], "end") /\ closing[b] \in Message /\ ~Forwarding(b)
      BY <1>5, <2>1, <2>3 DEF Tell, TypeInv, TypeOK, Forwarding
    <3>2. QED
      BY <1>0, <2>1, <3>1, HandOffSay DEF Forwarded
  <2>4. QED
    BY <2>2, <2>3
<1>6. QED
  BY <1>1, <1>2, <1>3, <1>4, <1>5 DEF Speaks

LEMMA HandOffAsk ==
  ASSUME TypeInv, NEW b \in Batch, HandOffAt(b), AskAi(b)
  PROVE  HandOffAt(b)'
<1>1. PICK a \in Answer \cup {NoAnswer} :
        Escalate(b, a) \/ Delegate(b, a) \/ Respond(b, a)
  BY DEF AskAi
<1>2. UNCHANGED <<cases, pendings>> /\ ~Forwarding(b) /\ closing[b] \notin Forwarded
  BY DEF AskAi, rows, Forwarding, HandOffAt
<1>3. CASE Delegate(b, a) /\ ~seen[b].handoff
  <2> DEFINE m == IF ReplyAllowed(b, a) THEN a.text ELSE "generic"
  <2>1. m \in Message \ Forwarded
    BY <1>3, AnswerType DEF Delegate, Message, Forwarded
  <2>2. GoSay(b, m, "end") /\ UNCHANGED <<closing, said>>
    BY <1>3 DEF Delegate
  <2> HIDE DEF m
  <2>3. QED
    BY <1>2, <2>1, <2>2, HandOffSay DEF Forwarded
<1>4. CASE ~(Delegate(b, a) /\ ~seen[b].handoff)
  <2>1. pc'[b] \in {"case", "call"} /\ said'[b] = said[b]
    BY <1>1, <1>4 DEF Escalate, Delegate, Respond, speech, Goto, TypeInv, TypeOK
  <2>2. closing'[b] \notin Forwarded
    <3>1. CASE Delegate(b, a)
      <4>1. a.text \notin Forwarded /\ closing' = [closing EXCEPT ![b] = a.text]
        BY <1>4, <3>1, AnswerType DEF Delegate
      <4>2. QED
        BY <4>1 DEF TypeInv, TypeOK
    <3>2. CASE ~Delegate(b, a)
      BY <1>1, <1>2, <3>2 DEF Escalate, Respond, speech
    <3>3. QED
      BY <3>1, <3>2
  <2>3. QED
    BY <1>2, <2>1, <2>2 DEF HandOffAt, Open
<1>5. QED
  BY <1>3, <1>4

\* The batch that steps.
LEMMA HandOffOwn ==
  ASSUME TypeInv, NEW b \in Batch, HandOffAt(b), Step(b) \/ Fault(b)
  PROVE  HandOffAt(b)'
<1> USE DEF HandOffAt, Open, Forwarding
<1>1. CASE Moves(b)
  BY <1>1, HandOffMove
<1>2. CASE Speaks(b)
  BY <1>2, HandOffSpeak
<1>3. CASE AskAi(b)
  BY <1>3, HandOffAsk
<1>4. CASE ReadPolicy(b)
  <2>1. pc[b] = "policy" /\ pc'[b] = "context" /\ UNCHANGED <<speech, rows>>
    BY <1>4 DEF ReadPolicy, Goto, TypeInv, TypeOK
  <2>2. QED
    BY <2>1 DEF speech, rows
<1>5. CASE SkipCall(b) \/ CallAnswered(b) \/ CallThrows(b)
  <2>1. UNCHANGED <<pc, speech, cases, pendings>>
    BY <1>5, CallIsNext DEF NextCall
  <2>2. QED
    BY <2>1 DEF speech
<1>6. CASE Say(b)
  <2>1. /\ pc[b] = "say" /\ pc'[b] = "log" /\ said'[b] = said[b] \cup {text[b]}
        /\ UNCHANGED <<text, then, closing, rows>>
    BY <1>6 DEF Say, Goto, TypeInv, TypeOK
  <2>2. QED
    BY <2>1, SMTT(30) DEF rows
<1>7. CASE SayRefused(b)
  <2>1. /\ pc[b] = "say" /\ pc'[b] = then[b] /\ said'[b] = said[b] \cup {"refused"}
        /\ UNCHANGED <<text, then, closing, rows>>
        /\ then[b] \in {"end", "case", "tell"}
    BY <1>7 DEF SayRefused, Goto, TypeInv, TypeOK
  <2>2. "handoff_ack" \in said'[b] => "handoff_ack" \in said[b]
    BY <2>1
  <2>3. said'[b] \cap Forwarded # {} => said[b] \cap Forwarded # {}
    BY <2>1 DEF Forwarded
  <2>4. QED
    BY <2>1, <2>2, <2>3 DEF rows
<1>8. CASE CreateCase(b)
  <2>1. /\ pc[b] = "case" /\ pc'[b] = "pending" /\ cases' = cases \cup {b}
        /\ UNCHANGED <<speech, pendings>>
    BY <1>8 DEF CreateCase, Goto, TypeInv, TypeOK
  <2>2. QED
    BY <2>1 DEF speech
<1>9. CASE AddPending(b)
  <2>1. /\ pc[b] = "pending" /\ pc'[b] = "pause" /\ pendings' = pendings \cup {b}
        /\ UNCHANGED <<speech, cases>>
    BY <1>9 DEF AddPending, Goto, TypeInv, TypeOK
  <2>2. QED
    BY <2>1 DEF speech
<1>10. QED
  BY <1>1, <1>2, <1>3, <1>4, <1>5, <1>6, <1>7, <1>8, <1>9
     DEF Step, Fault, Moves, Speaks

LEMMA HandOffNext == HandOffInv /\ [Next]_vars => HandOffInv'
<1> SUFFICES ASSUME HandOffInv, [Next]_vars PROVE HandOffInv'
  OBVIOUS
<1>1. TypeInv' /\ TypeInv /\ TypeOK
  BY TypeStep DEF HandOffInv, TypeInv
<1>2. ASSUME NEW b \in Batch, Step(b) \/ Fault(b) PROVE HandOffInv'
  <2>1. ASSUME NEW c \in Batch PROVE HandOffAt(c)'
    <3>1. HandOffAt(c)
      BY DEF HandOffInv
    <3>2. CASE c = b
      BY <1>1, <1>2, <3>1, <3>2, HandOffOwn
    <3>3. CASE c # b
      BY <1>1, <1>2, <3>1, <3>3, OthersKept, RowsStay, HandOffOthers
    <3>4. QED
      BY <3>2, <3>3
  <2>2. AwaitingIsOpen'
    <3>1. CASE PauseBot(b)
      <4>1. pc[b] = "pause" /\ writer' = b /\ UNCHANGED <<cases, pendings>>
        BY <3>1 DEF PauseBot, rows
      <4>2. QED
        BY <4>1, BatchAssumption DEF HandOffInv, HandOffAt, AwaitingIsOpen, Open
    <3>2. CASE ~PauseBot(b)
      BY <1>2, <3>2, RowsStay DEF HandOffInv, AwaitingIsOpen, Open
    <3>3. QED
      BY <3>1, <3>2
  <2>3. QED
    BY <1>1, <2>1, <2>2 DEF HandOffInv
<1>3. CASE Crash
  <2>1. UNCHANGED <<state, writer, text, then, closing, said, cases, pendings>>
    BY <1>3 DEF Crash, speech, rows
  <2>2. ASSUME NEW c \in Batch PROVE HandOffAt(c)'
    <3>1. HandOffAt(c) /\ (pc'[c] = pc[c] \/ pc'[c] = "lost")
      BY <1>3 DEF HandOffInv, Crash
    <3>2. QED
      BY <2>1, <3>1 DEF HandOffAt, Open, Forwarding
  <2>3. QED
    BY <1>1, <2>1, <2>2 DEF HandOffInv, AwaitingIsOpen, Open
<1>4. CASE Command \/ UNCHANGED vars
  <2>1. /\ UNCHANGED <<pc, text, then, closing, said, cases, pendings>>
        /\ state' = "AWAITING_ADMIN" => UNCHANGED <<state, writer>>
    BY <1>4 DEF Command, SetState, SetIgnore, SetRule, SetPolicy, vars, shared,
                speech, rows
  <2>2. QED
    BY <1>1, <2>1, HandOffOthers DEF HandOffInv, AwaitingIsOpen, Open
<1>5. QED
  BY <1>2, <1>3, <1>4 DEF Next

\* No client gets the acknowledgement of a handoff, and no batch pauses the bot,
\* before the case and its open pending action are stored, whatever fails or runs
\* alongside; and a batch that told its client of the forwarding instead of an
\* appointment does not end without them (agentProcessor.ts:690-729, 841-876).
THEOREM HandoffsAreOpen == Spec => []HandOffIsHeld
<1>1. HandOffInv => HandOffIsHeld
  BY DEF HandOffInv, HandOffAt, Forwarding, HandOffIsHeld, ToldIsOpen
<1>2. QED
  BY <1>1, HandOffInit, HandOffNext, PTL DEF Spec

-----------------------------------------------------------------------------
(* Confirmations *)

\* Before the AI has answered there is no answer, no booking and no message.
Early == {"queued", "override", "lookup", "policy", "context", "ai"}

Backed(b) == booking[b] = {"ok"} /\ seen[b].execute

\* The flag for success needs a policy that allows the call; until the calls
\* are settled nothing is said; and a RESPOND answer leaves nothing to say
\* after a handoff.
ConfirmInv ==
  /\ TypeInv
  /\ \A b \in Batch :
       /\ pc[b] \in Early => /\ answer[b] = NoAnswer /\ booking[b] = {}
                             /\ said[b] = {} /\ closing[b] = "none"
       /\ pc[b] = "call" => /\ said[b] = {}
                            /\ "ok" \in booking[b] => seen[b].execute
       /\ Responding(b) => closing[b] = "none"
       /\ Responding(b) /\ "confirms" \in said[b] => Backed(b)
       /\ Responding(b) /\ pc[b] = "say" /\ text[b] = "confirms" => Backed(b)

LEMMA ConfirmInit == Init => ConfirmInv
BY TypeInit DEF Init, ConfirmInv, Responding, Early

LEMMA ConfirmSpeak ==
  ASSUME ConfirmInv, TypeInv', NEW b \in Batch, NEW m \in Message,
         NEW n \in {"end", "case", "tell"}, GoSay(b, m, n),
         UNCHANGED <<mind, closing, said>>,
         Responding(b) /\ m = "confirms" => Backed(b)
  PROVE  ConfirmInv'
<1>1. /\ pc'[b] = "say" /\ text'[b] = m
      /\ \A c \in Batch \ {b} : pc'[c] = pc[c] /\ text'[c] = text[c]
  BY GoSayType DEF ConfirmInv
<1>2. QED
  BY <1>1 DEF ConfirmInv, Early, Responding, Backed, mind

LEMMA ConfirmSettle ==
  ASSUME ConfirmInv, TypeInv', NEW b \in Batch, Settle(b)
  PROVE  ConfirmInv'
<1>1. /\ pc[b] = "call" /\ UNCHANGED <<mind, closing, said>>
      /\ "ok" \in booking[b] => seen[b].execute
      /\ booking[b] \subseteq {"failed", "ok"}
  BY DEF Settle, ConfirmInv, TypeInv, TypeOK
<1>2. answer[b] \in Answer
  BY DEF Settle, ConfirmInv, TypeInv, TypeOK, Responding
<1>3. Replies(b) \subseteq Message
  BY <1>2, AnswerType DEF Replies, Message
<1>4. CASE "failed" \in booking[b]
  <2>1. GoSay(b, "booking_failed", "case") /\ "booking_failed" \in Message
    BY <1>4 DEF Settle, Message
  <2>2. QED
    BY <1>1, <2>1, ConfirmSpeak
<1>5. CASE "failed" \notin booking[b] /\ FakeConfirmation(b)
  <2>1. GoSay(b, "not_confirmed", "case") /\ "not_confirmed" \in Message
    BY <1>5 DEF Settle, Message
  <2>2. QED
    BY <1>1, <2>1, ConfirmSpeak
<1>6. CASE "failed" \notin booking[b] /\ ~FakeConfirmation(b)
  <2>1. PICK m \in Replies(b) : GoSay(b, m, "end")
    BY <1>6 DEF Settle
  <2>2. m = "confirms" => answer[b].text = "confirms"
    BY <2>1 DEF Replies
  <2>3. m = "confirms" => Backed(b)
    BY <1>1, <1>6, <2>2 DEF FakeConfirmation, Backed
  <2>4. QED
    BY <1>1, <1>3, <2>1, <2>3, ConfirmSpeak
<1>7. QED
  BY <1>4, <1>5, <1>6

LEMMA ConfirmAsk ==
  ASSUME ConfirmInv, TypeInv', NEW b \in Batch, AskAi(b)
  PROVE  ConfirmInv'
<1>1. PICK a \in Answer \cup {NoAnswer} :
        /\ answer' = [answer EXCEPT ![b] = a]
        /\ Escalate(b, a) \/ Delegate(b, a) \/ Respond(b, a)
  BY DEF AskAi
<1>2. /\ answer'[b] = a /\ \A c \in Batch \ {b} : answer'[c] = answer[c]
      /\ UNCHANGED <<seen, booking>> /\ UNCHANGED said
  BY <1>1 DEF AskAi, Escalate, Delegate, Respond, speech,
              ConfirmInv, TypeInv, TypeOK
<1>3. /\ pc[b] = "ai" /\ booking[b] = {} /\ said[b] = {} /\ closing[b] = "none"
  BY DEF AskAi, ConfirmInv, Early
<1>4. CASE Respond(b, a)
  <2>1. /\ pc'[b] = "call" /\ \A c \in Batch \ {b} : pc'[c] = pc[c]
        /\ UNCHANGED speech
    BY <1>4 DEF Respond, Goto, ConfirmInv, TypeInv, TypeOK
  <2>2. QED
    BY <1>2, <1>3, <2>1 DEF ConfirmInv, Early, Responding, Backed, speech
<1>5. CASE Escalate(b, a) \/ Delegate(b, a)
  <2>1. ~(a # NoAnswer /\ a.sure /\ a.decision = "RESPOND")
    BY <1>5 DEF Escalate, Delegate
  <2>2. /\ pc'[b] \in {"case", "say"}
        /\ \A c \in Batch \ {b} :
             /\ pc'[c] = pc[c] /\ text'[c] = text[c] /\ closing'[c] = closing[c]
    BY <1>5 DEF Escalate, Delegate, GoSay, Goto, speech, ConfirmInv, TypeInv, TypeOK
  <2>3. QED
    BY <1>2, <2>1, <2>2 DEF ConfirmInv, Early, Responding, Backed
<1>6. QED
  BY <1>1, <1>4, <1>5

LEMMA ConfirmCall ==
  ASSUME ConfirmInv, TypeInv', NEW b \in Batch,
         SkipCall(b) \/ CallAnswered(b) \/ CallThrows(b)
  PROVE  ConfirmInv'
<1>1. PICK flag \in {"failed", "ok"}, isBooked \in BOOLEAN :
        NextCall(b, flag, isBooked) /\ (flag = "ok" => ~Skipped(b))
  BY CallIsNext
<1>2. /\ pc[b] = "call" /\ UNCHANGED <<pc, seen, answer, speech>>
      /\ booking' = [booking EXCEPT ![b] = IF Head(todo[b]) = "create"
                                             THEN @ \cup {flag} ELSE @]
  BY <1>1, CallIsNext DEF NextCall
<1>3. "ok" \in booking'[b] => seen[b].execute
  <2>1. booking'[b] = IF Head(todo[b]) = "create"
                        THEN booking[b] \cup {flag} ELSE booking[b]
    BY <1>2 DEF ConfirmInv, TypeInv, TypeOK
  <2>2. "ok" \in booking[b] => seen[b].execute
    BY <1>2 DEF ConfirmInv
  <2>3. flag = "ok" /\ Head(todo[b]) = "create" => seen[b].execute
    BY <1>1 DEF Skipped
  <2>4. QED
    BY <2>1, <2>2, <2>3
<1>4. \A c \in Batch \ {b} : booking'[c] = booking[c]
  BY <1>2 DEF ConfirmInv, TypeInv, TypeOK
<1>5. said[b] = {}
  BY <1>2 DEF ConfirmInv
<1>6. QED
  BY <1>2, <1>3, <1>4, <1>5 DEF ConfirmInv, Early, Responding, Backed, speech

\* The actions that write pc only, and go nowhere but forwards.
LEMMA ConfirmMove ==
  ASSUME ConfirmInv, TypeInv', NEW b \in Batch, Moves(b)
  PROVE  ConfirmInv'
<1>1. UNCHANGED <<shared, mind, speech, rows>>
  BY MoveType DEF ConfirmInv
<1>2. PICK next \in Location \ {"call", "say"} :
        Goto(b, next) /\ (next \in Early => pc[b] \in Early)
  <2> USE DEF Location, Early
  <2>1. CASE Load(b) \/ Override(b) \/ ReadContext(b)
    BY <2>1 DEF Load, Override, ReadContext
  <2>2. CASE LegacyHandOver(b) \/ Throws(b)
    BY <2>2 DEF LegacyHandOver, Throws
  <2>3. CASE Log(b)
    BY <2>3 DEF Log, ConfirmInv, TypeInv, TypeOK
  <2>4. QED
    BY <2>1, <2>2, <2>3 DEF Moves
<1>3. pc'[b] = next /\ \A c \in Batch \ {b} : pc'[c] = pc[c]
  BY <1>2 DEF Goto, ConfirmInv, TypeInv, TypeOK
<1>4. QED
  BY <1>1, <1>2, <1>3 DEF ConfirmInv, Responding, Backed, mind, speech

LEMMA ConfirmNext == ConfirmInv /\ [Next]_vars => ConfirmInv'
<1> SUFFICES ASSUME ConfirmInv, [Next]_vars PROVE ConfirmInv'
  OBVIOUS
<1>1. TypeInv /\ TypeInv'
  BY TypeStep DEF ConfirmInv
<1>2. ASSUME NEW b \in Batch, Step(b) \/ Fault(b) PROVE ConfirmInv'
  <2>1. CASE Moves(b)
    BY <1>1, <2>1, ConfirmMove
  <2>2. CASE LegacyReply(b)
    BY <1>1, <2>2, ConfirmSpeak DEF LegacyReply, Message
  <2>3. CASE SchedulingReply(b)
    BY <1>1, <2>3, ConfirmSpeak DEF SchedulingReply, Message
  <2>4. CASE ReadPolicy(b)
    <3>1. /\ pc[b] = "policy" /\ UNCHANGED <<answer, booking, speech>>
          /\ pc'[b] = "context" /\ \A c \in Batch \ {b} : pc'[c] = pc[c]
          /\ \A c \in Batch \ {b} : seen'[c] = seen[c]
      BY <1>1, <2>4 DEF ReadPolicy, Goto, TypeInv, TypeOK
    <3>2. QED
      BY <1>1, <3>1 DEF ConfirmInv, Early, Responding, Backed, speech
  <2>5. CASE AskAi(b)
    BY <1>1, <2>5, ConfirmAsk
  <2>6. CASE SkipCall(b) \/ CallAnswered(b) \/ CallThrows(b)
    BY <1>1, <2>6, ConfirmCall
  <2>7. CASE Settle(b)
    BY <1>1, <2>7, ConfirmSettle
  <2>8. CASE Say(b)
    <3>1. /\ pc[b] = "say" /\ pc'[b] = "log"
          /\ \A c \in Batch \ {b} : pc'[c] = pc[c]
      BY <1>1, <2>8 DEF Say, Goto, TypeInv, TypeOK
    <3>2. /\ said'[b] = said[b] \cup {text[b]}
          /\ \A c \in Batch \ {b} : said'[c] = said[c]
          /\ UNCHANGED <<mind, text, closing>>
      BY <1>1, <2>8 DEF Say, TypeInv, TypeOK
    <3>3. QED
      BY <1>1, <3>1, <3>2 DEF ConfirmInv, Early, Responding, Backed, mind
  <2>9. CASE CreateCase(b) \/ AddPending(b)
    <3>1. /\ pc'[b] \in {"pending", "pause"} /\ UNCHANGED <<mind, speech>>
          /\ \A c \in Batch \ {b} : pc'[c] = pc[c]
      BY <1>1, <2>9 DEF CreateCase, AddPending, Goto, TypeInv, TypeOK
    <3>2. QED
      BY <1>1, <3>1 DEF ConfirmInv, Early, Responding, Backed, mind, speech
  <2>10. CASE PauseBot(b)
    BY <1>1, <2>10, ConfirmSpeak DEF PauseBot, Message
  <2>11. CASE Tell(b)
    <3>1. CASE closing[b] = "none"
      <4>1. /\ pc'[b] = "end" /\ \A c \in Batch \ {b} : pc'[c] = pc[c]
            /\ UNCHANGED <<mind, text, closing, said>>
        BY <1>1, <2>11, <3>1 DEF Tell, Goto, TypeInv, TypeOK
      <4>2. QED
        BY <1>1, <4>1 DEF ConfirmInv, Early, Responding, Backed, mind
    <3>2. CASE closing[b] # "none"
      <4>1. /\ GoSay(b, closing[b], "end") /\ closing[b] \in Message
            /\ UNCHANGED <<mind, closing, said>>
        BY <1>1, <2>11, <3>2 DEF Tell, TypeInv, TypeOK
      <4>2. ~Responding(b)
        BY <3>2 DEF ConfirmInv
      <4>3. QED
        BY <1>1, <4>1, <4>2, ConfirmSpeak
    <3>3. QED
      BY <3>1, <3>2
  <2>12. CASE SayRefused(b)
    <3>1. /\ pc[b] = "say" /\ pc'[b] \in {"end", "case", "tell"}
          /\ \A c \in Batch \ {b} : pc'[c] = pc[c]
      BY <1>1, <2>12 DEF SayRefused, Goto, TypeInv, TypeOK
    <3>2. /\ said'[b] = said[b] \cup {"refused"}
          /\ \A c \in Batch \ {b} : said'[c] = said[c]
          /\ UNCHANGED <<mind, text, closing>>
      BY <1>1, <2>12 DEF SayRefused, TypeInv, TypeOK
    <3>3. QED
      BY <1>1, <3>1, <3>2 DEF ConfirmInv, Early, Responding, Backed, mind
  <2>13. QED
    BY <1>2, <2>1, <2>2, <2>3, <2>4, <2>5, <2>6, <2>7, <2>8, <2>9, <2>10, <2>11, <2>12
       DEF Step, Fault, Moves
<1>3. CASE Crash
  BY <1>1, <1>3 DEF Crash, ConfirmInv, Early, Responding, Backed, Over,
                    TypeInv, TypeOK, Location, mind, speech
<1>4. CASE Command
  BY <1>1, <1>4 DEF Command, SetState, SetIgnore, SetRule, SetPolicy,
                    ConfirmInv, Responding, Backed, mind, speech
<1>5. CASE UNCHANGED vars
  BY <1>1, <1>5 DEF vars, mind, speech, ConfirmInv, Responding, Backed
<1>6. QED
  BY <1>2, <1>3, <1>4, <1>5 DEF Next

\* A RESPOND batch that tells the client that the appointment is made has got
\* an answer of the gateway for every create_appointment it asked for, at
\* least one, and under a policy that allowed it to execute.
THEOREM Confirmations == Spec => []ConfirmedIsAnswered
<1>1. ConfirmInv => ConfirmedIsAnswered
  BY DEF ConfirmInv, ConfirmedIsAnswered, Backed
<1>2. QED
  BY <1>1, ConfirmInit, ConfirmNext, PTL DEF Spec

-----------------------------------------------------------------------------
(* Bookings that failed *)

Asked(b) == Responding(b) /\ "create" \in Range(answer[b].calls)

Settled(b) == booking[b] = {"ok"} \/ Open(b)

\* Until the calls are settled, a create_appointment is still to be made or
\* has left a flag; a message that ends the batch is only sent when all is well
\* or the case is open.
BookedAt(b) ==
  /\ pc[b] = "call" => booking[b] # {} \/ "create" \in Range(todo[b])
  /\ pc[b] \in {"say", "log"} /\ then[b] = "end" => Settled(b)
  /\ pc[b] = "end" => Settled(b)

BookInv ==
  /\ ConfirmInv /\ HandOffInv
  /\ \A b \in Batch : Asked(b) => BookedAt(b)

LEMMA BookInit == Init => BookInv
BY ConfirmInit, HandOffInit DEF Init, BookInv, Asked, Responding

\* A create_appointment that is not the first call is among the rest.
LEMMA CallsLeft ==
  ASSUME NEW s \in Seq(Tool), s # <<>>, "create" \in Range(s), Head(s) # "create"
  PROVE  "create" \in Range(Tail(s))
<1>1. PICK i \in 1..Len(s) : s[i] = "create"
  BY DEF Range
<1>2. i # 1 /\ i - 1 \in 1..Len(Tail(s)) /\ Tail(s)[i - 1] = s[i]
  BY <1>1
<1>3. DOMAIN Tail(s) = 1..Len(Tail(s))
  BY <1>1
<1>4. QED
  BY <1>1, <1>2, <1>3 DEF Range

\* Nothing is asked by, or undone for, a batch that does not step.
LEMMA BookOthers ==
  ASSUME BookInv, NEW c \in Batch,
         pc'[c] = pc[c], answer'[c] = answer[c], booking'[c] = booking[c],
         todo'[c] = todo[c], then'[c] = then[c],
         cases \subseteq cases', pendings \subseteq pendings'
  PROVE  Asked(c)' => BookedAt(c)'
BY DEF BookInv, Asked, Responding, BookedAt, Settled, Open

\* The batch that steps.
LEMMA BookOwn ==
  ASSUME BookInv, NEW b \in Batch, Step(b) \/ Fault(b), Asked(b)'
  PROVE  BookedAt(b)'
<1> USE DEF BookedAt, Settled
<1>1. /\ TypeInv /\ TypeOK
      /\ Asked(b) => BookedAt(b)
      /\ pc[b] \in Early => answer[b] = NoAnswer
      /\ pc[b] = "tell" => Open(b)
  <2>1. TypeInv /\ TypeOK /\ (pc[b] \in Early => answer[b] = NoAnswer)
    BY DEF BookInv, ConfirmInv, TypeInv
  <2>2. pc[b] = "tell" => Open(b)
    BY DEF BookInv, HandOffInv, HandOffAt
  <2>3. Asked(b) => BookedAt(b)
    BY DEF BookInv
  <2>4. QED
    BY <2>1, <2>2, <2>3
<1>2. CASE AskAi(b)
  <2>1. PICK a \in Answer \cup {NoAnswer} :
          /\ answer' = [answer EXCEPT ![b] = a]
          /\ Escalate(b, a) \/ Delegate(b, a) \/ Respond(b, a)
    BY <1>2 DEF AskAi
  <2>2. answer'[b] = a
    BY <1>1, <2>1 DEF TypeOK
  <2>3. a # NoAnswer /\ a.sure /\ a.decision = "RESPOND" /\ "create" \in Range(a.calls)
    BY <2>2 DEF Asked, Responding
  <2>4. Respond(b, a)
    BY <2>1, <2>3 DEF Escalate, Delegate
  <2>5. pc'[b] = "call" /\ todo'[b] = a.calls
    BY <1>1, <2>4 DEF Respond, Goto, TypeOK
  <2>6. QED
    BY <2>3, <2>5
<1>3. CASE ~AskAi(b)
  <2>1. UNCHANGED answer
    BY <1>3 DEF Step, Fault, Load, Override, LegacyHandOver, LegacyReply,
         ReadPolicy, SchedulingReply, ReadContext, SkipCall, CallAnswered, NextCall,
         Settle, Say, Log, CreateCase, AddPending, PauseBot, Tell, CallThrows,
         SayRefused, Throws, mind
  <2>2. Asked(b) /\ BookedAt(b) /\ pc[b] \notin Early
    BY <1>1, <2>1 DEF Asked, Responding
  <2>3. CASE SkipCall(b) \/ CallAnswered(b) \/ CallThrows(b)
    <3>1. PICK flag \in {"failed", "ok"}, isBooked \in BOOLEAN :
            NextCall(b, flag, isBooked)
      BY <2>3, CallIsNext
    <3>2. pc[b] = "call" /\ pc'[b] = "call" /\ todo[b] # <<>> /\ todo[b] \in Seq(Tool)
      BY <1>1, <2>3, <3>1, CallIsNext DEF NextCall, TypeOK
    <3>3. /\ todo'[b] = Tail(todo[b])
          /\ booking'[b] = IF Head(todo[b]) = "create" THEN booking[b] \cup {flag}
                                                       ELSE booking[b]
      BY <1>1, <3>1 DEF NextCall, TypeOK
    <3>4. CASE Head(todo[b]) = "create"
      BY <3>2, <3>3, <3>4
    <3>5. CASE Head(todo[b]) # "create"
      BY <2>2, <3>2, <3>3, <3>5, CallsLeft
    <3>6. QED
      BY <3>4, <3>5
  <2>4. CASE Settle(b)
    <3>1. booking[b] # {} /\ booking[b] \subseteq {"failed", "ok"}
      BY <1>1, <2>2, <2>4 DEF Settle, Range, TypeOK
    <3>2. booking'[b] = booking[b] /\ pc'[b] = "say"
      BY <1>1, <2>4 DEF Settle, GoSay, Goto, mind, TypeOK
    <3>3. "failed" \in booking[b] => then'[b] = "case"
      BY <1>1, <2>4 DEF Settle, GoSay, TypeOK
    <3>4. QED
      BY <3>1, <3>2, <3>3
  <2>5. CASE Tell(b)
    <3>1. Open(b)' /\ pc'[b] # "call"
      BY <1>1, <2>5 DEF Tell, Open, rows, GoSay, Goto, TypeOK
    <3>2. QED
      BY <3>1
  <2>6. CASE Log(b) \/ SayRefused(b)
    <3>1. /\ pc[b] \in {"say", "log"} /\ pc'[b] = then[b]
          /\ UNCHANGED <<booking, cases, pendings>>
      BY <1>1, <2>6 DEF Log, SayRefused, Goto, TypeOK, mind, rows
    <3>2. then[b] \in {"end", "case", "tell"}
      BY <1>1 DEF TypeOK
    <3>3. QED
      BY <2>2, <3>1, <3>2 DEF Open
  <2>7. CASE Say(b)
    <3>1. /\ pc[b] = "say" /\ pc'[b] = "log"
          /\ UNCHANGED <<booking, cases, pendings, then>>
      BY <1>1, <2>7 DEF Say, Goto, TypeOK, mind, rows
    <3>2. QED
      BY <2>2, <3>1 DEF Open
  <2>8. CASE CreateCase(b) \/ AddPending(b) \/ PauseBot(b) \/ Throws(b)
    <3>1. \/ pc'[b] \in {"pending", "pause", "failed", "case"}
          \/ pc'[b] = "say" /\ then'[b] = "tell"
      BY <1>1, <2>8 DEF CreateCase, AddPending, PauseBot, Throws, GoSay, Goto, TypeOK
    <3>2. QED
      BY <3>1
  <2>9. QED
    <3>1. ~(\/ Load(b) \/ Override(b) \/ LegacyHandOver(b) \/ LegacyReply(b)
            \/ ReadPolicy(b) \/ SchedulingReply(b) \/ ReadContext(b))
      BY <2>2 DEF Load, Override, LegacyHandOver, LegacyReply, ReadPolicy,
                  SchedulingReply, ReadContext, Early
    <3>2. QED
      BY <1>3, <2>3, <2>4, <2>5, <2>6, <2>7, <2>8, <3>1 DEF Step, Fault
<1>4. QED
  BY <1>2, <1>3

LEMMA BookNext == BookInv /\ [Next]_vars => BookInv'
<1> SUFFICES ASSUME BookInv, [Next]_vars PROVE BookInv'
  OBVIOUS
<1>1. /\ ConfirmInv' /\ HandOffInv'
      /\ TypeOK
  BY ConfirmNext, HandOffNext DEF BookInv, ConfirmInv, TypeInv
<1>2. ASSUME NEW b \in Batch, Step(b) \/ Fault(b), NEW c \in Batch
      PROVE  Asked(c)' => BookedAt(c)'
  <2>1. CASE c = b
    BY <1>2, <2>1, BookOwn
  <2>2. CASE c # b
    BY <1>1, <1>2, <2>2, OthersKept, RowsStay, BookOthers
  <2>3. QED
    BY <2>1, <2>2
<1>3. ASSUME Crash, NEW c \in Batch PROVE Asked(c)' => BookedAt(c)'
  <2>1. pc'[c] = pc[c] \/ pc'[c] = "lost"
    BY <1>3 DEF Crash
  <2>2. UNCHANGED <<mind, speech, rows>>
    BY <1>3 DEF Crash
  <2>3. CASE pc'[c] = pc[c]
    BY <2>2, <2>3, BookOthers DEF mind, speech, rows
  <2>4. CASE pc'[c] = "lost"
    BY <2>4 DEF BookedAt
  <2>5. QED
    BY <2>1, <2>3, <2>4
<1>4. ASSUME Command \/ UNCHANGED vars, NEW c \in Batch PROVE Asked(c)' => BookedAt(c)'
  <2>1. UNCHANGED <<pc, mind, speech, rows>>
    BY <1>4 DEF Command, SetState, SetIgnore, SetRule, SetPolicy, vars
  <2>2. QED
    BY <2>1, BookOthers DEF mind, speech, rows
<1>5. QED
  BY <1>1, <1>2, <1>3, <1>4 DEF Next, BookInv

\* A create_appointment that the AI asked for and that the gateway did not
\* answer is an open case with a pending action when its batch ends.
THEOREM FailuresAreOpen == Spec => []FailedBookingIsOpen
<1>1. BookInv => FailedBookingIsOpen
  BY DEF BookInv, FailedBookingIsOpen, Asked, BookedAt, Settled
<1>2. QED
  BY <1>1, BookInit, BookNext, PTL DEF Spec
-----------------------------------------------------------------------------
(* The scheduling reply. What it says of a day was true of it at some      *)
(* moment since the message came; days are not forgotten, so that what a   *)
(* call has read then stays so.                                            *)

\* A day looks as it has looked at some moment since the message came.
CalendarWas == \A i \in Ahead : calendar[i] \in was[i]

StageInv ==
  /\ stage # "text" => asked = getRequestedDateFromMessage(wish)
  /\ stage \in {"text", "staff", "day"} => ahead = 0 /\ found = {} /\ reply = NoReply
  /\ stage = "staff" => staffIdForSpecific \in Master
  /\ stage = "search" => reply.code \in {"closed", "full"} /\ reply.slots = {}
  /\ reply.staff \in {staffIdForSpecific, NoMaster}

\* Some moment saw the time in the master's hours, and some saw it not taken.
SeenFree(s) ==
  /\ \E plan \in was[s.day] : s.time \in plan[s.master].works
  /\ \E plan \in was[s.day] : s.time \notin plan[s.master].booked

WishOfferInv ==
  /\ \A s \in found : SeenFree(s) /\ s.day # 0
  /\ stage = "done" => \A s \in reply.slots :
       /\ SeenFree(s)
       /\ reply.code = "slots" => s.day = 0 /\ reply.staff \in {s.master, NoMaster}
       /\ reply.code \in {"closed", "full"} => s.day # 0

NothingFree(i) == \A m \in Master, t \in Time : WasNotFree(i, m, t)

\* What the reply says of the requested day.
SentAway ==
  \/ 0 \in missed
  \/ reply.code = "closed" /\ \A m \in Master : \E plan \in was[0] : plan[m].works = {}
  \/ reply.code = "full" /\ NothingFree(0)

\* The search has seen nothing on the days behind it.
RefusalInv ==
  /\ stage \in {"search", "done"} /\ reply.code \in {"closed", "full"} => SentAway
  /\ stage = "search" /\ found = {} =>
       \A i \in Ahead : 0 < i /\ i < ahead => i \in missed \/ NothingFree(i)
  /\ stage = "done" /\ reply.code \in {"closed", "full"} /\ reply.slots = {} =>
       \A i \in Ahead \ {0} : i \in missed \/ NothingFree(i)

WishInv ==
  WishTypeOK /\ CalendarWas /\ StageInv /\ WishOfferInv /\ RefusalInv

\* What an answer says of the masters it is about, on the day that was asked for.
LEMMA AnswerSays ==
  ASSUME ahead \in Ahead, NEW about, NEW heard \in Answers(about)
  PROVE  /\ heard.slots \subseteq Slot
         /\ \A s \in heard.slots :
              /\ s.day = ahead /\ s.master \in about
              /\ \E plan \in during : s.time \in plan[s.master].works
              /\ \E plan \in during : s.time \notin plan[s.master].booked
         /\ ~heard.open =>
              \A m \in about : \E plan \in during : plan[m].works = {}
         /\ heard.slots = {} =>
              \A m \in about \cap Master, t \in Time : \E plan \in during :
                t \notin plan[m].works \/ t \in plan[m].booked
<1>1. PICK hours \in [about -> during], records \in during :
        heard = [slots |-> {s \in Slot : /\ s.day = ahead /\ s.master \in about
                                         /\ s.time \in hours[s.master][s.master].works
                                         /\ s.time \notin records[s.master].booked},
                 open |-> \E m \in about : hours[m][m].works # {}]
  BY DEF Answers
<1>2. heard.slots = {s \in Slot : /\ s.day = ahead /\ s.master \in about
                                  /\ s.time \in hours[s.master][s.master].works
                                  /\ s.time \notin records[s.master].booked}
  BY <1>1
<1>3. ~heard.open => \A m \in about : hours[m][m].works = {}
  BY <1>1
<1>4. \A m \in about : hours[m] \in during
  OBVIOUS
<1>5. ASSUME heard.slots = {}, NEW m \in about \cap Master, NEW t \in Time
      PROVE  \E plan \in during : t \notin plan[m].works \/ t \in plan[m].booked
  <2>1. [day |-> ahead, master |-> m, time |-> t] \in Slot
    BY DEF Slot
  <2>2. t \notin hours[m][m].works \/ t \in records[m].booked
    BY <1>2, <1>5, <2>1
  <2> QED BY <1>4, <2>2
<1> QED BY <1>2, <1>3, <1>4, <1>5

\* An answer about everybody that has no slot, or nobody at work.
LEMMA NothingSeen ==
  ASSUME WishInv, NEW heard \in Answers(Master)
  PROVE  /\ heard.slots = {} => NothingFree(ahead)
         /\ ~heard.open =>
              \A m \in Master : \E plan \in was[ahead] : plan[m].works = {}
<1>1. ahead \in Ahead /\ during \subseteq was[ahead]
  BY DEF WishInv, WishTypeOK
<1> QED BY <1>1, AnswerSays DEF NothingFree, WasNotFree

LEMMA SlotsSeen ==
  ASSUME WishInv, NEW about, NEW heard \in Answers(about), NEW s \in heard.slots
  PROVE  s \in Slot /\ s.day = ahead /\ s.master \in about /\ SeenFree(s)
<1>1. ahead \in Ahead /\ during \subseteq was[ahead]
  BY DEF WishInv, WishTypeOK
<1> QED BY <1>1, AnswerSays DEF SeenFree

LEMMA AheadType ==
  /\ Ahead \subseteq Nat /\ 0 \in Ahead /\ 1 \in Ahead
  /\ \A i \in Ahead : i # MAX_ALTERNATIVE_DAYS => i + 1 \in Ahead
BY SchedulingAssumption DEF Ahead

-----------------------------------------------------------------------------
(* Its steps *)

LEMMA Mod7 ==
  ASSUME NEW n \in 0..6
  PROVE  n % 7 = n /\ (n + 7) % 7 = n
OBVIOUS

LEMMA DayType ==
  ASSUME NEW w \in Wishes
  PROVE  /\ getRequestedDateFromMessage(w) \in Int \cup {NoDay}
         /\ w.phrases = {} /\ w.weekday # NoDay =>
              /\ (w.today + getRequestedDateFromMessage(w)) % 7 = w.weekday
              /\ getRequestedDateFromMessage(w) \in IF w.next THEN 1..7 ELSE 0..6
<1>1. /\ w.phrases \in SUBSET {"tomorrow", "day after"} /\ w.today \in 0..6
      /\ w.weekday \in 0..6 \cup {NoDay} /\ w.date \in Int \cup {NoDay}
      /\ w.next \in BOOLEAN
  BY DEF Wishes
<1>2. ASSUME w.weekday # NoDay
      PROVE  /\ daysAhead(w) \in Int
             /\ (w.today + daysAhead(w)) % 7 = w.weekday
             /\ daysAhead(w) \in IF w.next THEN 1..7 ELSE 0..6
  <2>1. PICK d \in 0..6, t \in 0..6 : d = w.weekday /\ t = w.today
    BY <1>1, <1>2
  <2>2. \/ d < t /\ (d - t + 7) \in 0..6 /\ t + (d - t + 7) = d + 7
        \/ d >= t /\ (d - t) \in 0..6 /\ (d - t + 7) - 7 = d - t /\ t + (d - t) = d
    OBVIOUS
  <2>3. PICK n \in 0..6 : n = (d - t + 7) % 7 /\ (t + n = d \/ t + n = d + 7)
    <3>1. CASE d < t
      <4>1. PICK n \in 0..6 : n = d - t + 7 /\ t + n = d + 7
        BY <2>2, <3>1
      <4> QED BY <4>1, Mod7
    <3>2. CASE d >= t
      <4>1. PICK n \in 0..6 : n = d - t /\ t + n = d
        BY <2>2, <3>2
      <4>2. d - t + 7 = n + 7
        BY <4>1
      <4> QED BY <4>1, <4>2, Mod7
    <3> QED BY <3>1, <3>2
  <2>4. (t + n) % 7 = d /\ (n = 0 => (t + 7) % 7 = d)
    BY <2>3, Mod7
  <2>5. daysAhead(w) = IF n = 0 /\ w.next THEN 7 ELSE n
    BY <2>1, <2>3 DEF daysAhead
  <2>6. CASE n = 0 /\ w.next
    BY <2>1, <2>4, <2>5, <2>6
  <2>7. CASE ~(n = 0 /\ w.next)
    <3>1. daysAhead(w) = n
      BY <2>5, <2>7
    <3>2. w.next => n \in 1..7
      BY <2>7
    <3> QED BY <2>1, <2>4, <3>1, <3>2
  <2> QED BY <2>6, <2>7
<1>3. /\ resolveRelativeDate(w) \in Int \cup {NoDay}
      /\ w.phrases = {} /\ w.weekday # NoDay => resolveRelativeDate(w) = daysAhead(w)
  <2>1. ASSUME "tomorrow" \in w.phrases PROVE resolveRelativeDate(w) = 1
    <3>0. "tomorrow" # "day after"
      OBVIOUS
    <3>1. w.phrases # {"day after"} /\ w.phrases # {}
      BY <2>1, <3>0
    <3> QED BY <2>1, <3>1 DEF resolveRelativeDate
  <2>2. CASE w.phrases = {"day after"}
    <3>1. "tomorrow" \notin w.phrases /\ w.phrases # {}
      BY <2>2
    <3>2. resolveRelativeDate(w) = 2
      BY <2>2, <3>1 DEF resolveRelativeDate
    <3> QED BY <3>1, <3>2
  <2>3. ASSUME w.phrases = {}
        PROVE  resolveRelativeDate(w) = IF w.weekday # NoDay THEN daysAhead(w) ELSE NoDay
    <3>1. "tomorrow" \notin w.phrases /\ w.phrases # {"day after"}
      BY <2>3
    <3> QED BY <2>3, <3>1 DEF resolveRelativeDate
  <2>4. "tomorrow" \in w.phrases \/ w.phrases = {"day after"} \/ w.phrases = {}
    BY <1>1
  <2>5. CASE "tomorrow" \in w.phrases
    BY <2>1, <2>5
  <2>6. CASE w.phrases = {}
    BY <1>2, <2>3, <2>6
  <2> QED BY <2>2, <2>4, <2>5, <2>6
<1>4. CASE w.phrases = {} /\ w.weekday # NoDay
  BY <1>2, <1>3, <1>4, SchedulingAssumption DEF getRequestedDateFromMessage
<1>5. CASE ~(w.phrases = {} /\ w.weekday # NoDay)
  BY <1>1, <1>3, <1>5 DEF getRequestedDateFromMessage
<1> QED BY <1>4, <1>5

LEMMA WishInvInit == WishInit => WishInv
<1> SUFFICES ASSUME WishInit PROVE WishInv
  OBVIOUS
<1>1. calendar \in [Ahead -> [Master -> MasterDay]]
  BY SchedulingAssumption DEF WishInit
<1>2. /\ was \in [Ahead -> SUBSET [Master -> MasterDay]]
      /\ \A i \in Ahead : was[i] = {calendar[i]}
  BY <1>1 DEF WishInit
<1>3. WishTypeOK
  BY <1>1, <1>2, AheadType, SchedulingAssumption
  DEF WishInit, WishTypeOK, NoReply, Codes
<1> QED
  BY <1>2, <1>3
  DEF WishInit, WishInv, CalendarWas, StageInv, WishOfferInv, RefusalInv, NoReply

LEMMA UnderstandWishes == WishInv /\ Understand => WishInv'
<1> SUFFICES ASSUME WishInv, Understand PROVE WishInv'
  OBVIOUS
<1> USE DEF WishInv, WishTypeOK, CalendarWas, StageInv, WishOfferInv, RefusalInv
<1>1. /\ asked' = getRequestedDateFromMessage(wish)
      /\ asked' \in Int \cup {NoDay} /\ wish \in Wishes
      /\ UNCHANGED <<wish, calendar, edits, found, was, missed>>
      /\ stage = "text" /\ ahead = 0 /\ found = {} /\ reply = NoReply
  BY DayType, SchedulingAssumption DEF Understand
<1>2. CASE \E code \in {"not_applied", "clarify"} : Finish(code, NoMaster, {})
  BY <1>1, <1>2, AheadType DEF Finish, Codes
<1>3. CASE /\ Await(IF staffIdForSpecific # NoMaster /\ wish.service
                       THEN "staff" ELSE "day", 0)
           /\ UNCHANGED reply
  <2>1. /\ stage' \in {"staff", "day"} /\ ahead' = 0 /\ during' = {calendar[0]}
        /\ stage' = "staff" => staffIdForSpecific # NoMaster
    BY <1>3 DEF Await
  <2>2. staffIdForSpecific \in Master \cup {NoMaster} /\ staffIdForSpecific' = staffIdForSpecific
    BY <1>1 DEF staffIdForSpecific, Wishes
  <2>3. calendar[0] \in was[0]
    BY AheadType
  <2> QED BY <1>1, <1>3, <2>1, <2>2, <2>3, AheadType
<1> QED BY <1>2, <1>3 DEF Understand

\* A refused master, or no answer: everybody is asked about.
LEMMA AskStaffWishes == WishInv /\ AskStaff => WishInv'
<1> SUFFICES ASSUME WishInv, AskStaff PROVE WishInv'
  OBVIOUS
<1>0. PICK about \in About({staffIdForSpecific}, {}) : \E heard \in Answers(about) :
        IF heard.slots = {} THEN Await("day", 0) /\ UNCHANGED reply
                             ELSE Finish("slots", staffIdForSpecific, heard.slots)
  BY DEF AskStaff, AskMaster
<1>1. PICK heard \in Answers(about) :
        IF heard.slots = {} THEN Await("day", 0) /\ UNCHANGED reply
                             ELSE Finish("slots", staffIdForSpecific, heard.slots)
  BY <1>0
<1>2. /\ stage = "staff" /\ ahead = 0 /\ found = {} /\ reply = NoReply
      /\ staffIdForSpecific \in Master
      /\ UNCHANGED <<wish, calendar, edits, asked, found, was, missed>>
      /\ asked = getRequestedDateFromMessage(wish)
      /\ staffIdForSpecific' = staffIdForSpecific
  BY DEF AskStaff, AskMaster, WishInv, StageInv, staffIdForSpecific
<1>3. about \subseteq {staffIdForSpecific}
  BY DEF About
<1>4. \A s \in heard.slots : /\ s \in Slot /\ s.day = 0 /\ SeenFree(s)
                             /\ s.master = staffIdForSpecific
  BY <1>2, <1>3, SlotsSeen
<1> USE DEF WishInv, WishTypeOK, CalendarWas, StageInv, WishOfferInv, RefusalInv
<1>5. CASE Await("day", 0) /\ UNCHANGED reply
  <2>1. stage' = "day" /\ ahead' = 0 /\ during' = {calendar[0]}
    BY <1>5 DEF Await
  <2>2. calendar[0] \in was[0]
    BY AheadType
  <2> QED BY <1>2, <1>5, <2>1, <2>2, AheadType
<1>6. CASE Finish("slots", staffIdForSpecific, heard.slots)
  <2>1. /\ stage' = "done" /\ ahead' = ahead /\ during' = during
        /\ reply' = [code |-> "slots", staff |-> staffIdForSpecific,
                     slots |-> heard.slots]
    BY <1>6 DEF Finish
  <2>2. /\ reply' \in [code : Codes, staff : Master \cup {NoMaster}, slots : SUBSET Slot]
        /\ reply'.code = "slots" /\ reply'.staff = staffIdForSpecific
        /\ reply'.slots = heard.slots
    BY <1>2, <1>4, <2>1 DEF Codes
  <2>3. \A s \in reply'.slots : SeenFree(s)'
    BY <1>2, <1>4, <2>2 DEF SeenFree
  <2>4. WishTypeOK'
    BY <1>2, <2>1, <2>2
  <2>5. WishOfferInv'
    BY <1>2, <1>4, <2>1, <2>2, <2>3
  <2> QED BY <1>2, <2>1, <2>2, <2>4, <2>5
<1> QED BY <1>1, <1>5, <1>6

\* The answer about the requested day is either offered, or says that the day
\* is closed or full.
LEMMA AskDayWishes == WishInv /\ AskDay => WishInv'
<1> SUFFICES ASSUME WishInv, AskDay PROVE WishInv'
  OBVIOUS
<1>0. PICK about \in AvailabilityForDate : \E heard \in Answers(about) :
        /\ Note(about)
        /\ IF heard.slots # {} /\ heard.open
             THEN Finish("slots", NoMaster, heard.slots)
             ELSE /\ Await("search", 1)
                  /\ reply' = [reply EXCEPT !.code = IF heard.open THEN "full" ELSE "closed"]
  BY DEF AskDay
<1>1. PICK heard \in Answers(about) :
        /\ Note(about)
        /\ IF heard.slots # {} /\ heard.open
             THEN Finish("slots", NoMaster, heard.slots)
             ELSE /\ Await("search", 1)
                  /\ reply' = [reply EXCEPT !.code = IF heard.open THEN "full" ELSE "closed"]
  BY <1>0
<1>2. /\ stage = "day" /\ ahead = 0 /\ found = {} /\ reply = NoReply
      /\ UNCHANGED <<wish, calendar, edits, asked, found, was>>
      /\ asked = getRequestedDateFromMessage(wish)
  BY DEF AskDay, WishInv, StageInv
<1>3. \A s \in heard.slots : s \in Slot /\ s.day = 0 /\ SeenFree(s)
  BY <1>2, SlotsSeen
<1>4. /\ missed \subseteq missed' /\ missed' \subseteq Ahead
      /\ about = Master \/ 0 \in missed'
  BY <1>1, <1>2, AheadType DEF Note, WishInv, WishTypeOK
<1> USE DEF WishInv, WishTypeOK, CalendarWas, StageInv, WishOfferInv, RefusalInv
<1>5. CASE Finish("slots", NoMaster, heard.slots)
  <2>1. /\ stage' = "done" /\ ahead' = ahead /\ during' = during
        /\ reply' = [code |-> "slots", staff |-> NoMaster, slots |-> heard.slots]
    BY <1>5 DEF Finish
  <2>2. /\ reply' \in [code : Codes, staff : Master \cup {NoMaster}, slots : SUBSET Slot]
        /\ reply'.code = "slots" /\ reply'.staff = NoMaster
        /\ reply'.slots = heard.slots
    BY <1>3, <2>1 DEF Codes
  <2>3. \A s \in reply'.slots : SeenFree(s)'
    BY <1>2, <1>3, <2>2 DEF SeenFree
  <2>4. WishTypeOK'
    BY <1>2, <1>4, <2>1, <2>2
  <2>5. WishOfferInv'
    BY <1>2, <1>3, <2>1, <2>2, <2>3
  <2> QED BY <1>2, <2>1, <2>2, <2>4, <2>5
<1>6. ASSUME ~(heard.slots # {} /\ heard.open)
      PROVE  WishInv'
  <2>1. /\ stage' = "search" /\ ahead' = 1 /\ during' = {calendar[1]}
        /\ reply' = [code |-> IF heard.open THEN "full" ELSE "closed",
                     staff |-> NoMaster, slots |-> {}]
    BY <1>1, <1>2, <1>6 DEF Await, NoReply
  <2>2. /\ reply' \in [code : Codes, staff : Master \cup {NoMaster}, slots : SUBSET Slot]
        /\ reply'.code = (IF heard.open THEN "full" ELSE "closed")
        /\ reply'.slots = {}
    BY <2>1 DEF Codes
  <2>3. calendar[1] \in was[1]
    BY AheadType
  <2>4. WishTypeOK'
    BY <1>2, <1>4, <2>1, <2>2, <2>3, AheadType
  <2>5. SentAway'
    <3>1. CASE about = Master /\ heard.open
      <4>1. NothingFree(0)
        BY <1>2, <1>6, <3>1, NothingSeen
      <4> QED BY <1>2, <2>2, <3>1, <4>1 DEF SentAway, NothingFree, WasNotFree
    <3>2. CASE about = Master /\ ~heard.open
      BY <1>2, <2>2, <3>2, NothingSeen DEF SentAway
    <3>3. CASE about # Master
      BY <1>4, <3>3 DEF SentAway
    <3> QED BY <3>1, <3>2, <3>3
  <2>6. \A i \in Ahead : ~(0 < i /\ i < 1)
    BY AheadType
  <2>7. RefusalInv'
    BY <2>1, <2>5, <2>6
  <2> QED BY <1>2, <2>1, <2>2, <2>4, <2>7
<1> QED BY <1>1, <1>5, <1>6

\* One more day, on which there was nothing or whose slots are added.
LEMMA AskNextWishes == WishInv /\ AskNext => WishInv'
<1> SUFFICES ASSUME WishInv, AskNext PROVE WishInv'
  OBVIOUS
<1>0. PICK about \in AvailabilityForDate : \E heard \in Answers(about) :
        /\ Note(about)
        /\ found' = found \cup heard.slots
        /\ IF Searched(found \cup heard.slots)
             THEN Finish(reply.code, NoMaster, found \cup heard.slots)
             ELSE Await("search", ahead + 1) /\ UNCHANGED reply
  BY DEF AskNext, Following
<1>1. PICK heard \in Answers(about) :
        /\ Note(about)
        /\ found' = found \cup heard.slots
        /\ IF Searched(found \cup heard.slots)
             THEN Finish(reply.code, NoMaster, found \cup heard.slots)
             ELSE Await("search", ahead + 1) /\ UNCHANGED reply
  BY <1>0
<1>2. /\ stage = "search" /\ ahead # 0 /\ ahead \in Ahead
      /\ reply.code \in {"closed", "full"} /\ reply.slots = {}
      /\ UNCHANGED <<wish, calendar, edits, asked, was>>
      /\ asked = getRequestedDateFromMessage(wish)
  BY DEF AskNext, WishInv, WishTypeOK, StageInv
<1>3. \A s \in heard.slots : s \in Slot /\ s.day = ahead /\ SeenFree(s)
  BY SlotsSeen
<1>4. /\ missed \subseteq missed' /\ missed' \subseteq Ahead
      /\ about = Master \/ ahead \in missed'
  BY <1>1, <1>2 DEF Note, WishInv, WishTypeOK
<1>5. heard.slots = {} => ahead \in missed' \/ NothingFree(ahead)
  BY <1>4, NothingSeen
<1>6. /\ found' \subseteq Slot
      /\ \A s \in found' : SeenFree(s)' /\ s.day # 0
  BY <1>1, <1>2, <1>3 DEF WishInv, WishTypeOK, WishOfferInv, SeenFree
<1>7. ASSUME found' = {}, NEW i \in Ahead, 0 < i, i < ahead + 1
      PROVE  i \in missed' \/ NothingFree(i)'
  <2>1. i < ahead \/ i = ahead
    BY <1>2, <1>7, AheadType
  <2>2. found = {} /\ heard.slots = {}
    BY <1>1, <1>7
  <2>3. i \in missed' \/ NothingFree(i)
    BY <1>2, <1>4, <1>5, <1>7, <2>1, <2>2 DEF WishInv, RefusalInv
  <2> QED BY <1>2, <2>3 DEF NothingFree, WasNotFree
<1>8. (SentAway /\ reply'.code = reply.code) => SentAway'
  BY <1>2, <1>4 DEF SentAway, NothingFree, WasNotFree
<1>9. SentAway
  BY <1>2 DEF WishInv, RefusalInv
<1>10. CASE Searched(found')
  <2>1. /\ stage' = "done" /\ ahead' = ahead /\ during' = during
        /\ reply' = [code |-> reply.code, staff |-> NoMaster, slots |-> found']
    BY <1>1, <1>10 DEF Finish
  <2>2. /\ reply' \in [code : Codes, staff : Master \cup {NoMaster}, slots : SUBSET Slot]
        /\ reply'.code = reply.code /\ reply'.staff = NoMaster
        /\ reply'.slots = found'
    BY <1>2, <1>6, <2>1 DEF Codes
  <2>3. WishTypeOK'
    BY <1>2, <1>4, <1>6, <2>1, <2>2 DEF WishInv, WishTypeOK
  <2>4. CalendarWas' /\ StageInv'
    BY <1>2, <2>1 DEF WishInv, CalendarWas, StageInv
  <2>5. WishOfferInv'
    BY <1>2, <1>6, <2>2 DEF WishOfferInv
  <2>6. found' = {} => ahead = MAX_ALTERNATIVE_DAYS
    <3> SUFFICES ASSUME found' = {} PROVE ahead = MAX_ALTERNATIVE_DAYS
      OBVIOUS
    <3>1. Cardinality(found') = 0
      BY FS_EmptySet
    <3> QED BY <1>10, <3>1, SchedulingAssumption DEF Searched
  <2>7. ASSUME found' = {}, NEW i \in Ahead \ {0}
        PROVE  i \in missed' \/ NothingFree(i)'
    <3>1. 0 < i /\ i < ahead + 1
      BY <2>6, <2>7, SchedulingAssumption DEF Ahead
    <3> QED BY <1>7, <2>7, <3>1
  <2>8. RefusalInv'
    BY <1>8, <1>9, <2>1, <2>2, <2>7 DEF RefusalInv
  <2> QED BY <2>3, <2>4, <2>5, <2>8 DEF WishInv
<1>11. CASE ~Searched(found')
  <2>1. /\ stage' = "search" /\ ahead' = ahead + 1 /\ during' = {calendar[ahead + 1]}
        /\ reply' = reply
    BY <1>1, <1>11 DEF Await
  <2>2. ahead + 1 \in Ahead /\ ahead + 1 # 0
    BY <1>2, <1>11, AheadType DEF Searched
  <2>3. calendar[ahead + 1] \in was[ahead + 1]
    BY <2>2 DEF WishInv, CalendarWas
  <2>4. WishTypeOK'
    BY <1>2, <1>4, <1>6, <2>1, <2>2, <2>3 DEF WishInv, WishTypeOK
  <2>5. CalendarWas' /\ StageInv'
    BY <1>2, <2>1 DEF WishInv, CalendarWas, StageInv, staffIdForSpecific
  <2>6. WishOfferInv'
    BY <1>6, <2>1 DEF WishOfferInv
  <2>7. RefusalInv'
    BY <1>7, <1>8, <1>9, <2>1 DEF RefusalInv
  <2> QED BY <2>4, <2>5, <2>6, <2>7 DEF WishInv
<1> QED BY <1>10, <1>11

\* An edit adds to what a day has been.
LEMMA EditWishes == WishInv /\ EditCalendar => WishInv'
<1> SUFFICES ASSUME WishInv, EditCalendar PROVE WishInv'
  OBVIOUS
<1>1. PICK i \in ahead..MAX_ALTERNATIVE_DAYS, m \in Master, day \in MasterDay :
        /\ calendar' = [calendar EXCEPT ![i] = [calendar[i] EXCEPT ![m] = day]]
        /\ was' = [was EXCEPT ![i] = @ \cup {[calendar[i] EXCEPT ![m] = day]}]
        /\ during' = IF i = ahead THEN during \cup {[calendar[i] EXCEPT ![m] = day]}
                     ELSE during
  BY DEF EditCalendar
<1>2. /\ UNCHANGED <<wish, stage, asked, ahead, found, reply, missed>>
      /\ stage # "done" /\ edits' \in 0..MaxEdits
  BY SchedulingAssumption DEF EditCalendar, WishInv, WishTypeOK
<1>3. /\ i \in Ahead /\ ahead \in Ahead /\ calendar \in [Ahead -> [Master -> MasterDay]]
      /\ was \in [Ahead -> SUBSET [Master -> MasterDay]]
  BY AheadType DEF WishInv, WishTypeOK, Ahead
<1>4. PICK plan \in [Master -> MasterDay] : plan = [calendar[i] EXCEPT ![m] = day]
  BY <1>3
<1>5. /\ calendar' \in [Ahead -> [Master -> MasterDay]]
      /\ was' \in [Ahead -> SUBSET [Master -> MasterDay]]
      /\ \A j \in Ahead : was[j] \subseteq was'[j]
      /\ calendar'[i] = plan /\ plan \in was'[i]
      /\ \A j \in Ahead \ {i} : calendar'[j] = calendar[j]
      /\ during' = IF i = ahead THEN during \cup {plan} ELSE during
  BY <1>1, <1>3, <1>4
<1>6. WishTypeOK'
  BY <1>2, <1>3, <1>5 DEF WishInv, WishTypeOK
<1>7. CalendarWas'
  BY <1>3, <1>5 DEF WishInv, CalendarWas
<1>8. StageInv'
  BY <1>2 DEF WishInv, StageInv, staffIdForSpecific
<1>9. WishOfferInv'
  <2>1. \A s \in found : s.day \in Ahead
    BY DEF WishInv, WishTypeOK, Slot
  <2> QED BY <1>2, <1>5, <2>1 DEF WishInv, WishOfferInv, SeenFree
<1>10. ASSUME NEW j \in Ahead, NothingFree(j) PROVE NothingFree(j)'
  BY <1>5, <1>10 DEF NothingFree, WasNotFree
<1>11. SentAway => SentAway'
  BY <1>2, <1>5, <1>10, AheadType DEF SentAway
<1>12. RefusalInv'
  BY <1>2, <1>10, <1>11 DEF WishInv, RefusalInv
<1> QED BY <1>6, <1>7, <1>8, <1>9, <1>12 DEF WishInv

LEMMA WishInvNext == WishInv /\ [WishNext]_wishVars => WishInv'
<1> SUFFICES ASSUME WishInv, UNCHANGED wishVars PROVE WishInv'
  BY UnderstandWishes, AskStaffWishes, AskDayWishes, AskNextWishes, EditWishes
  DEF WishNext, WishStep
<1> QED
  BY DEF wishVars, WishInv, WishTypeOK, CalendarWas, StageInv, WishOfferInv,
     SeenFree, RefusalInv, SentAway, NothingFree, WasNotFree, staffIdForSpecific

\* What the answer to a wish keeps has its type; in particular the loop asks
\* about no day outside the alternatives.
THEOREM WishTypeCorrect == WishSpec => []WishTypeOK
<1>1. WishInv => WishTypeOK
  BY DEF WishInv
<1> QED BY <1>1, WishInvInit, WishInvNext, PTL DEF WishSpec

\* A text that names a weekday asks about that weekday of this week, or of the
\* next one, whatever today is.
THEOREM WeekdayMeant == WishSpec => []WeekdayIsMeant
<1>1. WishInv => WeekdayIsMeant
  BY DayType, SchedulingAssumption DEF WishInv, WishTypeOK, StageInv, WeekdayIsMeant
<1> QED BY <1>1, WishInvInit, WishInvNext, PTL DEF WishSpec

\* Every time that is offered was in its master's hours and was not taken, on
\* the day the reply is about and, when one master was asked about, for that
\* master, however many days and masters there are and whatever changes meanwhile.
\* The reply names that master, unless the text named another than the one known of
\* the client.
THEOREM OffersFree == WishSpec => []OffersWereFree
<1>1. WishInv => OffersWereFree
  BY DEF WishInv, WishOfferInv, StageInv, SeenFree, OffersWereFree, masterName,
         staffIdForSpecific
<1> QED BY <1>1, WishInvInit, WishInvNext, PTL DEF WishSpec

\* A client is only sent away when everything was seen taken or closed, on the
\* requested day and, without alternatives, on every day that follows, or when
\* a call has failed.
THEOREM RefusalsTrue == WishSpec => []RefusalsWereTrue
<1>1. WishInv => RefusalsWereTrue
  BY DEF WishInv, RefusalInv, SentAway, NothingFree, RefusalsWereTrue
<1> QED BY <1>1, WishInvInit, WishInvNext, PTL DEF WishSpec

=============================================================================
