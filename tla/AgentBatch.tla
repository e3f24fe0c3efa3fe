------------------------------ MODULE AgentBatch ------------------------------
(***************************************************************************)
(* What the orchestrator does with the batches of one conversation:        *)
(* processBatch reads the conversation, asks the AI, calls tools, replies, *)
(* or opens a handoff case and pauses the bot, while other batches of the  *)
(* conversation run and administrators send their Telegram commands.       *)
(*                                                                         *)
(* One action is the code between two awaits whose order matters; reads    *)
(* that only feed the prompt, diagnostics and caught event rows are left   *)
(* out. A message is known by its kind.                                    *)
(***************************************************************************)
EXTENDS Naturals, Sequences, Functions

CONSTANTS
  Batch,         \* batches of the conversation
  Admin,         \* stands for every administrator
  Answer,        \* what the AI may answer
  NoAnswer,      \* null of callAiAgent
  Policy,        \* rows scenario_policies may hold for the scenario
  MaxCalls,      \* longest mcp_calls of an answer
  Faults         \* which of FaultKinds can happen

\* The process dies; a query throws; fetch throws; WhatsApp answers non-2xx.
FaultKinds == {"crash", "dbError", "netError", "refused"}

\* Tools: create_appointment, and those whose effect no property tells apart.
Tool == {"create", "other"}

\* What callAiAgent makes of the completion; NoAnswer is its null.
AiOutput ==
  [decision : {"RESPOND", "HANDOFF", "NEED_APPROVAL"},
   sure     : BOOLEAN,                        \* confidence >= threshold?
   text     : {"none", "plain", "confirms"},  \* reply_text; replyLooksConfirmed
   calls    : Seq(Tool)]                      \* mcp_calls

ScenarioPolicy == [reply : BOOLEAN, execute : BOOLEAN, handoff : BOOLEAN]

ASSUME BatchAssumption ==
  /\ Admin \notin Batch
  /\ Answer \subseteq AiOutput /\ NoAnswer \notin AiOutput
  /\ MaxCalls \in Nat /\ \A a \in Answer : Len(a.calls) <= MaxCalls
  /\ Policy \subseteq ScenarioPolicy /\ Policy # {}
  /\ Faults \subseteq FaultKinds

\* Without a row, or when it cannot be read.
DefaultPolicy == [reply |-> TRUE, execute |-> FALSE, handoff |-> TRUE]

VARIABLES
  aiKey,      \* is OPENAI_API_KEY set?
  state,      \* conversations.state
  writer,     \* who wrote it last
  ignored,    \* is the phone in agent_ignore_phones?
  forced,     \* client_behavior_overrides.force_handoff
  policy,     \* the scenario's row
  pc,         \* pc[b]: the await processBatch(b) is suspended at
  seen,       \* seen[b]: safePolicy
  answer,     \* answer[b]: result of the AI
  todo,       \* todo[b]: mcp_calls not yet made
  booking,    \* booking[b]: createAppointmentFailed, createAppointmentSucceeded
  text,       \* text[b]: the message sendAndLog is given
  then,       \* then[b]: where b goes on after that
  closing,    \* closing[b]: reply_text to send after the handoff
  said,       \* said[b]: kinds of messages WhatsApp took, and if it refused one
  cases,      \* batches with a row in handoff_cases
  pendings,   \* batches with an OPEN row in pending_admin_actions
  booked      \* batches with an appointment in the CRM

shared == <<aiKey, state, writer, ignored, forced, policy>>
mind   == <<seen, answer, todo, booking>>
speech == <<text, then, closing, said>>
rows   == <<cases, pendings, booked>>
vars   == <<shared, pc, mind, speech, rows>>

-----------------------------------------------------------------------------
(* Types *)

ConversationState == {"BOT_ACTIVE", "BOT_PAUSED", "ADMIN_TAKEOVER",
                      "AWAITING_ADMIN", "IGNORED"}

Location == {"queued", "override", "lookup", "policy", "context", "ai", "call",
             "say", "log", "case", "pending", "pause", "tell",
             "skipped", "end", "failed", "lost"}

Over == {"skipped", "end", "failed", "lost"}

Message == {"none", "plain", "confirms", "generic", "slots",
            "booking_failed", "not_confirmed", "handoff_ack"}

\* Those that tell the client that the request was forwarded to the team.
Forwarded == {"booking_failed", "not_confirmed", "handoff_ack"}

\* What said[b] may be.
Said == SUBSET (Message \cup {"refused"})

TypeOK ==
  /\ aiKey \in BOOLEAN
  /\ state \in ConversationState
  /\ writer \in Batch \cup {Admin}
  /\ ignored \in BOOLEAN /\ forced \in BOOLEAN
  /\ policy \in Policy
  /\ pc \in [Batch -> Location]
  /\ seen \in [Batch -> ScenarioPolicy]
  /\ answer \in [Batch -> Answer \cup {NoAnswer}]
  /\ todo \in [Batch -> Seq(Tool)]
  /\ booking \in [Batch -> SUBSET {"failed", "ok"}]
  /\ text \in [Batch -> Message]
  /\ then \in [Batch -> {"end", "case", "tell"}]
  /\ closing \in [Batch -> Message]
  /\ said \in [Batch -> Said]
  /\ cases \subseteq Batch /\ pendings \subseteq Batch /\ booked \subseteq Batch

\* The ingest created the conversation before it queued the first batch.
Init ==
  /\ aiKey \in BOOLEAN
  /\ state = "BOT_ACTIVE" /\ writer = Admin
  /\ ignored = FALSE /\ forced = FALSE
  /\ policy \in Policy
  /\ pc = [b \in Batch |-> "queued"]
  /\ seen = [b \in Batch |-> DefaultPolicy]
  /\ answer = [b \in Batch |-> NoAnswer]
  /\ todo = [b \in Batch |-> <<>>]
  /\ booking = [b \in Batch |-> {}]
  /\ text = [b \in Batch |-> "none"]
  /\ then = [b \in Batch |-> "end"]
  /\ closing = [b \in Batch |-> "none"]
  /\ said = [b \in Batch |-> {}]
  /\ cases = {} /\ pendings = {} /\ booked = {}

-----------------------------------------------------------------------------
(* What a batch does next *)

Goto(b, next) == pc' = [pc EXCEPT ![b] = next]

\* sendAndLog(message), and then next.
GoSay(b, message, next) ==
  /\ Goto(b, "say")
  /\ text' = [text EXCEPT ![b] = message]
  /\ then' = [then EXCEPT ![b] = next]

-----------------------------------------------------------------------------
(* processBatch up to the AI *)

Load(b) ==
  /\ pc[b] = "queued"
  /\ Goto(b, IF state = "BOT_ACTIVE" THEN "override" ELSE "skipped")
  /\ UNCHANGED <<shared, mind, speech, rows>>

Override(b) ==
  /\ pc[b] = "override"
  /\ Goto(b, IF forced THEN "case" ELSE IF aiKey THEN "policy" ELSE "lookup")
  /\ UNCHANGED <<shared, mind, speech, rows>>

\* processWithoutAi: a trigger word in the text hands over, as does an
\* exception of the gateway call.
LegacyHandOver(b) ==
  /\ pc[b] = "lookup"
  /\ Goto(b, "case")
  /\ UNCHANGED <<shared, mind, speech, rows>>

\* Else the client gets the appointments or the generic reply.
LegacyReply(b) ==
  /\ pc[b] = "lookup"
  /\ GoSay(b, "generic", "end")
  /\ UNCHANGED <<shared, mind, closing, said, rows>>

\* What loadPolicyForScenario may give.
Readable == {policy} \cup {p \in {DefaultPolicy} : "dbError" \in Faults}

ReadPolicy(b) ==
  /\ pc[b] = "policy"
  /\ \E p \in Readable :
       seen' = [seen EXCEPT ![b] = p]
  /\ Goto(b, "context")
  /\ UNCHANGED <<shared, answer, todo, booking, speech, rows>>

\* Appointments, services, staff, knowledge base and slots are read with
\* their exceptions caught; a scheduling question may be answered from them.
SchedulingReply(b) ==
  /\ pc[b] = "context"
  /\ GoSay(b, "slots", "end")
  /\ UNCHANGED <<shared, mind, closing, said, rows>>

ReadContext(b) ==
  /\ pc[b] = "context"
  /\ Goto(b, "ai")
  /\ UNCHANGED <<shared, mind, speech, rows>>

-----------------------------------------------------------------------------
(* The AI's answer *)

\* No answer, or one of low confidence.
Escalate(b, a) ==
  /\ a # NoAnswer => ~a.sure
  /\ Goto(b, "case")
  /\ UNCHANGED <<todo, speech>>

\* What the policy lets through of reply_text.
ReplyAllowed(b, a) == seen[b].reply /\ a.text # "none"

\* Mutant: with the handoff disallowed and no reply_text, nothing is said.
DelegateSilently(b, a) ==
  /\ a # NoAnswer /\ a.sure
  /\ a.decision # "RESPOND"
  /\ IF seen[b].handoff
       THEN /\ Goto(b, "case")
            /\ closing' = [closing EXCEPT ![b] = a.text]
            /\ UNCHANGED <<text, then>>
       ELSE /\ IF ReplyAllowed(b, a) THEN GoSay(b, a.text, "end")
                 ELSE Goto(b, "end") /\ UNCHANGED <<text, then>>
            /\ UNCHANGED closing
  /\ UNCHANGED <<todo, said>>

\* HANDOFF and NEED_APPROVAL: a case and then the reply, or only a reply
\* when the policy disallows handoffs.
Delegate(b, a) ==
  /\ a # NoAnswer /\ a.sure
  /\ a.decision # "RESPOND"
  /\ IF seen[b].handoff
       THEN /\ Goto(b, "case")
            /\ closing' = [closing EXCEPT ![b] = a.text]
            /\ UNCHANGED <<text, then>>
       ELSE /\ GoSay(b, IF ReplyAllowed(b, a) THEN a.text ELSE "generic", "end")
            /\ UNCHANGED closing
  /\ UNCHANGED <<todo, said>>

Respond(b, a) ==
  /\ a # NoAnswer /\ a.sure
  /\ a.decision = "RESPOND"
  /\ Goto(b, "call")
  /\ todo' = [todo EXCEPT ![b] = a.calls]
  /\ UNCHANGED speech

AskAi(b) ==
  /\ pc[b] = "ai"
  /\ \E a \in Answer \cup {NoAnswer} :
       /\ answer' = [answer EXCEPT ![b] = a]
       /\ Escalate(b, a) \/ Delegate(b, a) \/ Respond(b, a)
  /\ UNCHANGED <<shared, seen, booking, rows>>

-----------------------------------------------------------------------------
(* RESPOND: the tool calls, and what is made of them *)

\* The next call is made, or skipped.
NextCall(b, flag, isBooked) ==
  LET create == Head(todo[b]) = "create" IN
  /\ todo' = [todo EXCEPT ![b] = Tail(@)]
  /\ booking' = [booking EXCEPT ![b] = IF create THEN @ \cup {flag} ELSE @]
  /\ booked' = IF create /\ isBooked THEN booked \cup {b} ELSE booked
  /\ UNCHANGED <<shared, pc, seen, answer, speech, cases, pendings>>

\* isMutatingTool(tool) && !allow_agent_to_execute
Skipped(b) == Head(todo[b]) = "create" /\ ~seen[b].execute

\* Mutant: a skipped create_appointment is not reported as failed.
SkipCallQuietly(b) ==
  /\ pc[b] = "call" /\ todo[b] # <<>>
  /\ Skipped(b)
  /\ todo' = [todo EXCEPT ![b] = Tail(@)]
  /\ UNCHANGED <<shared, pc, seen, answer, booking, speech, rows>>

SkipCall(b) ==
  /\ pc[b] = "call" /\ todo[b] # <<>>
  /\ Skipped(b)
  /\ NextCall(b, "failed", FALSE)

\* The gateway answered. callMcp returns a DENY like any other answer.
CallAnswered(b) ==
  /\ pc[b] = "call" /\ todo[b] # <<>>
  /\ ~Skipped(b)
  /\ \E isBooked \in BOOLEAN : NextCall(b, "ok", isBooked)

\* fetch throws, before or after the gateway has done its work.
CallThrows(b) ==
  /\ "netError" \in Faults
  /\ pc[b] = "call" /\ todo[b] # <<>>
  /\ ~Skipped(b)
  /\ \E isBooked \in BOOLEAN : NextCall(b, "failed", isBooked)

\* Mutant: the fake confirmation is only blocked when the policy forbids tools.
FakeConfirmationTrusting(b) ==
  answer[b].text = "confirms" /\ "ok" \notin booking[b] /\ ~seen[b].execute

FakeConfirmation(b) == answer[b].text = "confirms" /\ "ok" \notin booking[b]

\* writeReply and runReplyQaGuard: the reply, or a generic one in its place.
Replies(b) ==
  {"generic"} \cup {t \in {answer[b].text} : ReplyAllowed(b, answer[b])}

\* Mutant: a blocked confirmation is replaced, but nothing is handed over.
SettleUnreported(b) ==
  /\ pc[b] = "call" /\ todo[b] = <<>>
  /\ IF "failed" \in booking[b] THEN GoSay(b, "booking_failed", "case")
     ELSE IF FakeConfirmation(b) THEN GoSay(b, "not_confirmed", "end")
     ELSE \E reply \in Replies(b) : GoSay(b, reply, "end")
  /\ UNCHANGED <<shared, mind, closing, said, rows>>

\* createAppointmentFailed comes first, then the blocked confirmation. The
\* client is told that the request was forwarded before it is.
Settle(b) ==
  /\ pc[b] = "call" /\ todo[b] = <<>>
  /\ IF "failed" \in booking[b] THEN GoSay(b, "booking_failed", "case")
     ELSE IF FakeConfirmation(b) THEN GoSay(b, "not_confirmed", "case")
     ELSE \E reply \in Replies(b) : GoSay(b, reply, "end")
  /\ UNCHANGED <<shared, mind, closing, said, rows>>

-----------------------------------------------------------------------------
(* sendAndLog *)

Say(b) ==
  /\ pc[b] = "say"
  /\ said' = [said EXCEPT ![b] = @ \cup {text[b]}]
  /\ Goto(b, "log")
  /\ UNCHANGED <<shared, mind, text, then, closing, rows>>

\* A refused message is neither logged nor reported.
SayRefused(b) ==
  /\ "refused" \in Faults
  /\ pc[b] = "say"
  /\ said' = [said EXCEPT ![b] = @ \cup {"refused"}]
  /\ Goto(b, then[b])
  /\ UNCHANGED <<shared, mind, text, then, closing, rows>>

\* persistMessage and updateLastOutbound.
Log(b) ==
  /\ pc[b] = "log"
  /\ Goto(b, then[b])
  /\ UNCHANGED <<shared, mind, speech, rows>>

-----------------------------------------------------------------------------
(* createHandoffAndPauseWithSummary *)

\* Mutant: the pause comes before the pending action.
CreateCasePausing(b) ==
  /\ pc[b] = "case"
  /\ cases' = cases \cup {b}
  /\ state' = "AWAITING_ADMIN" /\ writer' = b
  /\ Goto(b, "pending")
  /\ UNCHANGED <<aiKey, ignored, forced, policy, mind, speech,
                 pendings, booked>>

CreateCase(b) ==
  /\ pc[b] = "case"
  /\ cases' = cases \cup {b}
  /\ Goto(b, "pending")
  /\ UNCHANGED <<shared, mind, speech, pendings, booked>>

AddPending(b) ==
  /\ pc[b] = "pending"
  /\ pendings' = pendings \cup {b}
  /\ Goto(b, "pause")
  /\ UNCHANGED <<shared, mind, speech, cases, booked>>

\* setConversationState: the state is overwritten, whatever it is by now.
PauseBot(b) ==
  /\ pc[b] = "pause"
  /\ state' = "AWAITING_ADMIN" /\ writer' = b
  /\ GoSay(b, "handoff_ack", "tell")
  /\ UNCHANGED <<aiKey, ignored, forced, policy, mind, closing, said, rows>>

\* The gateway's own case (its exception is caught) and the summary; then the
\* callers HANDOFF and NEED_APPROVAL send the AI's reply.
Tell(b) ==
  /\ pc[b] = "tell"
  /\ IF closing[b] = "none" THEN Goto(b, "end") /\ UNCHANGED <<text, then>>
       ELSE GoSay(b, closing[b], "end")
  /\ UNCHANGED <<shared, mind, closing, said, rows>>

-----------------------------------------------------------------------------
(* Faults and administrators *)

\* A query or a fetch throws: processBatch rejects, and its caller logs that.
\* Only the reply of processWithoutAi is in a try, whose catch hands over.
Throws(b) ==
  /\ \/ /\ "dbError" \in Faults
        /\ pc[b] \in {"queued", "override", "context", "log",
                      "case", "pending", "pause", "say"}
     \/ "netError" \in Faults /\ pc[b] = "say"
  /\ Goto(b, IF ~aiKey /\ pc[b] \in {"say", "log"} /\ then[b] = "end"
               THEN "case" ELSE "failed")
  /\ UNCHANGED <<shared, mind, speech, rows>>

\* The process dies and starts again; later batches are not affected.
Crash ==
  /\ "crash" \in Faults
  /\ pc' = [b \in Batch |->
              IF pc[b] \in Over \cup {"queued"} THEN pc[b] ELSE "lost"]
  /\ aiKey' \in BOOLEAN
  /\ UNCHANGED <<state, writer, ignored, forced, policy, mind, speech, rows>>

\* /takeover, /pause, /resume, /release and POST /admin/resume.
SetState(s) ==
  /\ state' = s /\ writer' = Admin
  /\ UNCHANGED <<aiKey, ignored, forced, policy, pc, mind, speech, rows>>

\* /ignore and /unignore.
SetIgnore ==
  /\ ignored' = ~ignored
  /\ UNCHANGED <<aiKey, state, writer, forced, policy, pc, mind, speech, rows>>

\* /setrule force_handoff=...
SetRule ==
  /\ forced' = ~forced
  /\ UNCHANGED <<aiKey, state, writer, ignored, policy, pc, mind, speech, rows>>

\* scenario_policies is edited by hand.
SetPolicy ==
  /\ policy' \in Policy
  /\ UNCHANGED <<aiKey, state, writer, ignored, forced, pc, mind, speech, rows>>

-----------------------------------------------------------------------------
(* Specification *)

Step(b) ==
  \/ Load(b) \/ Override(b) \/ LegacyHandOver(b) \/ LegacyReply(b)
  \/ ReadPolicy(b) \/ SchedulingReply(b) \/ ReadContext(b) \/ AskAi(b)
  \/ SkipCall(b) \/ CallAnswered(b) \/ Settle(b)
  \/ Say(b) \/ Log(b)
  \/ CreateCase(b) \/ AddPending(b) \/ PauseBot(b) \/ Tell(b)

Fault(b) == CallThrows(b) \/ SayRefused(b) \/ Throws(b)

Command ==
  \/ \E s \in {"ADMIN_TAKEOVER", "BOT_PAUSED", "BOT_ACTIVE"} : SetState(s)
  \/ SetIgnore \/ SetRule \/ SetPolicy

Next == (\E b \in Batch : Step(b) \/ Fault(b)) \/ Crash \/ Command

Spec == Init /\ [][Next]_vars

\* Promises are settled and handlers go on; nobody has to send a command.
FairSpec == Spec /\ \A b \in Batch : WF_vars(Step(b))

-----------------------------------------------------------------------------
(* Properties *)

Open(b) == b \in cases /\ b \in pendings

Responding(b) ==
  answer[b] # NoAnswer /\ answer[b].sure /\ answer[b].decision = "RESPOND"

\* A client who gets the acknowledgement of a handoff has a case and an open
\* pending action, which is what administrators are reminded of, from that moment
\* on. One who is told of the forwarding instead of an appointment hears of it
\* earlier, and has them when the batch ends, unless it fails or dies first.
ToldIsOpen ==
  \A b \in Batch :
    /\ "handoff_ack" \in said[b] => Open(b)
    /\ said[b] \cap Forwarded # {} /\ pc[b] = "end" => Open(b)

\* The bot is never left paused with nobody to be reminded: if a batch put
\* the conversation into AWAITING_ADMIN, its case and pending action exist,
\* whichever step after that fails.
AwaitingIsOpen == state = "AWAITING_ADMIN" => writer # Admin /\ Open(writer)

\* Both: a handoff that somebody relies on, the client or the paused bot, is
\* one that administrators are reminded of (agentProcessor.ts:690-729, 841-876).
HandOffIsHeld == ToldIsOpen /\ AwaitingIsOpen

\* A RESPOND batch only confirms when the gateway was asked for the
\* appointment and answered every time, under a policy that allows that.
ConfirmedIsAnswered ==
  \A b \in Batch :
    Responding(b) /\ "confirms" \in said[b]
    => booking[b] = {"ok"} /\ seen[b].execute

\* An appointment the AI asked for, and for which no answer of the gateway
\* came, is in the hands of the administrators when the batch ends.
FailedBookingIsOpen ==
  \A b \in Batch :
    Responding(b) /\ "create" \in Range(answer[b].calls) /\ pc[b] = "end"
    => booking[b] = {"ok"} \/ Open(b)

\* An exception, a crash or a message that WhatsApp refuses.
CutShort(b) == pc[b] \in {"failed", "lost"} \/ "refused" \in said[b]

\* Every batch the bot takes on gets an answer, and whoever has a case is told
\* so, whatever administrators made of the state meanwhile, unless the batch
\* is cut short (agentProcessor.ts:86-189, 537-620, 841-876).
EveryBatchAnswered ==
  \A b \in Batch :
    /\ pc[b] = "override" ~> said[b] # {} \/ CutShort(b)
    /\ b \in cases ~> "handoff_ack" \in said[b] \/ CutShort(b)

\* docs/booking_logic.md:52: when create_appointment fails by validation or
\* conflict, the "Orchestrator does **not** say confirmed".
ConfirmedIsBooked ==
  \A b \in Batch : Responding(b) /\ "confirms" \in said[b] => b \in booked
=============================================================================
