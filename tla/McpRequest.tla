------------------------------ MODULE McpRequest ------------------------------
(***************************************************************************)
(* The life of one POST /mcp call in the gateway: its audit row in         *)
(* mcp_requests, the agent's rate limit, the tool, which races a timer     *)
(* nobody cancels, and the envelope the caller receives.                   *)
(*                                                                         *)
(* A call is two asynchronous threads once the tool has started: the       *)
(* handler and operationPromise, which goes on after the timer has won the *)
(* race. One action is the code between two awaits.                        *)
(***************************************************************************)
EXTENDS Naturals

CONSTANTS
  Request,        \* the calls that arrive
  OnTimeout,      \* timeouts.on_timeout_decision
  TimerEnabled,   \* is min(gateway_request_ms, operation_budget_ms) > 0?
  Faults          \* which of FaultKinds can happen

\* The process dies; a query throws without effect; a query takes effect but
\* its answer is lost, so that it throws as well.
FaultKinds == {"crash", "dbError", "dbLost"}

Decision == {"ALLOW", "NEED_APPROVAL", "NEED_HUMAN", "DENY"}

ASSUME McpAssumption ==
  /\ OnTimeout \in Decision
  /\ TimerEnabled \in BOOLEAN
  /\ Faults \subseteq FaultKinds

VARIABLES
  row,      \* row[r]: the mcp_requests row of call r
  main,     \* main[r]: the await the handler is suspended at
  op,       \* op[r]: the await operationPromise is suspended at
  verdict,  \* verdict[r]: the decision the operation or the catch block holds
  answer,   \* answer[r]: what the caller was sent
  ran       \* ran[r]: what became of the tool's work

vars == <<row, main, op, verdict, answer, ran>>

-----------------------------------------------------------------------------
(* Types *)

Row == [status : {"ABSENT", "PENDING", "SUCCESS", "ERROR"},
        decision : Decision \cup {"none"},
        body : {"none", "result", "error"}]

\* "bare" is the 500 of an exception that escapes the handler. "audit" says
\* whether the envelope names the row, "http" which of the three sends it was.
Answer == [decision : Decision \cup {"none", "bare"},
           audit : BOOLEAN, http : {"none", "ok", "refused", "error"}]

NoAnswer == [decision |-> "none", audit |-> FALSE, http |-> "none"]

Threads == {"main", "op"}

TypeOK ==
  /\ row \in [Request -> Row]
  /\ main \in [Request -> {"idle", "config", "create", "rate", "denyRow",
                           "denyBody", "budget", "race", "failRow",
                           "failBody", "end"}]
  /\ op \in [Request -> {"off", "tool", "record", "recorded", "done"}]
  /\ verdict \in [Request -> [Threads -> Decision]]
  /\ answer \in [Request -> Answer]
  /\ ran \in [Request -> {"no", "running", "done", "failed"}]

Init ==
  /\ row = [r \in Request |->
              [status |-> "ABSENT", decision |-> "none", body |-> "none"]]
  /\ main = [r \in Request |-> "idle"]
  /\ op = [r \in Request |-> "off"]
  /\ verdict = [r \in Request |-> [t \in Threads |-> "DENY"]]
  /\ answer = [r \in Request |-> NoAnswer]
  /\ ran = [r \in Request |-> "no"]

-----------------------------------------------------------------------------
(* Helpers *)

Goto(r, next) == main' = [main EXCEPT ![r] = next]

\* The handler ends with an answer.
Send(r, decision, audit, http) ==
  /\ Goto(r, "end")
  /\ answer' = [answer EXCEPT ![r] =
       [decision |-> decision, audit |-> audit, http |-> http]]

\* The catch block is entered with the decision it will report.
Catch(r, decision) ==
  /\ Goto(r, "failRow")
  /\ verdict' = [verdict EXCEPT ![r]["main"] = decision]

SetStatus(r, status, decision) ==
  row' = [row EXCEPT ![r].status = status, ![r].decision = decision]

SetBody(r, body) == row' = [row EXCEPT ![r].body = body]

\* Does the UPDATE of a query that throws take effect all the same?
Throws(update) == \/ "dbError" \in Faults /\ UNCHANGED row
                  \/ "dbLost" \in Faults /\ update

-----------------------------------------------------------------------------
(* The handler up to the tool *)

Arrive(r) ==
  /\ main[r] = "idle"
  /\ Goto(r, "config")
  /\ UNCHANGED <<row, op, verdict, answer, ran>>

\* The body parses and the logging configuration is read, outside the try
\* block: a malformed body or a failing query is answered without a row.
ReadConfig(r) ==
  /\ main[r] = "config"
  /\ \/ Goto(r, "create") /\ UNCHANGED answer
     \/ Send(r, "bare", FALSE, "error")
  /\ UNCHANGED <<row, op, verdict, ran>>

CreateRow(r) ==
  /\ main[r] = "create"
  /\ row' = [row EXCEPT ![r].status = "PENDING"]
  /\ Goto(r, "rate")
  /\ UNCHANGED <<op, verdict, answer, ran>>

\* Without mcpRowId the catch block writes nothing and answers DENY.
CreateRowThrows(r) ==
  /\ main[r] = "create"
  /\ Throws(row' = [row EXCEPT ![r].status = "PENDING"])
  /\ Send(r, "DENY", FALSE, "error")
  /\ UNCHANGED <<op, verdict, ran>>

\* The limiter (module AgentLimit) admits the call or does not.
CheckRate(r) ==
  /\ main[r] = "rate"
  /\ \E next \in {"budget", "denyRow"} : Goto(r, next)
  /\ UNCHANGED <<row, op, verdict, answer, ran>>

DenyRow(r) ==
  /\ main[r] = "denyRow"
  /\ SetStatus(r, "ERROR", "DENY")
  /\ Goto(r, "denyBody")
  /\ UNCHANGED <<op, verdict, answer, ran>>

DenyBody(r) ==
  /\ main[r] = "denyBody"
  /\ SetBody(r, "error")
  /\ Send(r, "DENY", TRUE, "refused")
  /\ UNCHANGED <<op, verdict, ran>>

\* The three timeouts are read and operationPromise is created, which runs
\* the tool's code up to its first await in the same step.
StartTool(r) ==
  /\ main[r] = "budget"
  /\ Goto(r, "race")
  /\ op' = [op EXCEPT ![r] = "tool"]
  /\ ran' = [ran EXCEPT ![r] = "running"]
  /\ UNCHANGED <<row, verdict, answer>>

\* A query of the try block, or reading a configuration value, throws.
TryThrows(r) ==
  /\ \/ main[r] \in {"rate", "budget"} /\ "dbError" \in Faults
          /\ UNCHANGED row
     \/ main[r] = "denyRow" /\ Throws(SetStatus(r, "ERROR", "DENY"))
     \/ main[r] = "denyBody" /\ Throws(SetBody(r, "error"))
  /\ Catch(r, "DENY")
  /\ UNCHANGED <<op, answer, ran>>

-----------------------------------------------------------------------------
(* operationPromise *)

ToolReturns(r) ==
  /\ op[r] = "tool"
  /\ op' = [op EXCEPT ![r] = "record"]
  /\ ran' = [ran EXCEPT ![r] = "done"]
  /\ \E d \in {"ALLOW", "NEED_APPROVAL"} :
       verdict' = [verdict EXCEPT ![r]["op"] = d]
  /\ UNCHANGED <<row, main, answer>>

\* The race is lost for good once the timer has fired: nobody hears of the
\* rejection then.
Rejects(r, decision) ==
  /\ op' = [op EXCEPT ![r] = "done"]
  /\ IF main[r] = "race" THEN Catch(r, decision)
                         ELSE UNCHANGED <<main, verdict>>

\* Mutant: an exception of the tool is taken for an empty result.
ToolThrowsSwallowed(r) ==
  /\ op[r] = "tool"
  /\ ran' = [ran EXCEPT ![r] = "failed"]
  /\ op' = [op EXCEPT ![r] = "record"]
  /\ verdict' = [verdict EXCEPT ![r]["op"] = "ALLOW"]
  /\ UNCHANGED <<row, main, answer>>

\* MULTIPLE_CLIENTS_FOUND is reported as NEED_HUMAN, any other error as DENY.
ToolThrows(r) ==
  /\ op[r] = "tool"
  /\ ran' = [ran EXCEPT ![r] = "failed"]
  /\ \E decision \in {"DENY", "NEED_HUMAN"} : Rejects(r, decision)
  /\ UNCHANGED <<row, answer>>

RecordSuccess(r) ==
  /\ op[r] = "record"
  /\ row' = [row EXCEPT ![r] = [status |-> "SUCCESS", body |-> "result",
                                decision |-> verdict[r]["op"]]]
  /\ op' = [op EXCEPT ![r] = "recorded"]
  /\ UNCHANGED <<main, verdict, answer, ran>>

\* The UPDATE throws, before it took effect or after.
RecordThrows(r) ==
  /\ \/ op[r] = "record" /\ "dbError" \in Faults
     \/ op[r] = "recorded" /\ "dbLost" \in Faults
  /\ Rejects(r, "DENY")
  /\ UNCHANGED <<row, answer, ran>>

\* Mutant: completeMcpRequestSuccess is not awaited.
ResolveUnrecorded(r) ==
  /\ op[r] \in {"record", "recorded"}
  /\ op' = [op EXCEPT ![r] = IF op[r] = "recorded" THEN "done" ELSE @]
  /\ IF main[r] = "race" THEN Send(r, verdict[r]["op"], TRUE, "ok")
                         ELSE UNCHANGED <<main, answer>>
  /\ UNCHANGED <<row, verdict, ran>>

\* The promise resolves; the handler answers with it unless the timer won.
Resolve(r) ==
  /\ op[r] = "recorded"
  /\ op' = [op EXCEPT ![r] = "done"]
  /\ IF main[r] = "race" THEN Send(r, verdict[r]["op"], TRUE, "ok")
                         ELSE UNCHANGED <<main, answer>>
  /\ UNCHANGED <<row, verdict, ran>>

\* Mutant: the test of the timeout is inverted.
TimeoutInverted(r) ==
  /\ ~TimerEnabled
  /\ main[r] = "race"
  /\ Catch(r, OnTimeout)
  /\ UNCHANGED <<row, op, answer, ran>>

\* The timer of Promise.race fires. It is never cleared: after the race is
\* decided it fires without effect.
Timeout(r) ==
  /\ TimerEnabled
  /\ main[r] = "race"
  /\ Catch(r, OnTimeout)
  /\ UNCHANGED <<row, op, answer, ran>>

-----------------------------------------------------------------------------
(* The catch block *)

FailRow(r) ==
  /\ main[r] = "failRow"
  /\ SetStatus(r, "ERROR", verdict[r]["main"])
  /\ Goto(r, "failBody")
  /\ UNCHANGED <<op, verdict, answer, ran>>

FailBody(r) ==
  /\ main[r] = "failBody"
  /\ SetBody(r, "error")
  /\ Send(r, verdict[r]["main"], TRUE, "error")
  /\ UNCHANGED <<op, verdict, ran>>

\* An exception inside the catch block escapes the handler.
CatchThrows(r) ==
  /\ \/ main[r] = "failRow"
          /\ Throws(SetStatus(r, "ERROR", verdict[r]["main"]))
     \/ main[r] = "failBody" /\ Throws(SetBody(r, "error"))
  /\ Send(r, "bare", FALSE, "error")
  /\ UNCHANGED <<op, verdict, ran>>

\* The process dies with everything in memory; the rows stay.
Crash ==
  /\ "crash" \in Faults
  /\ \E r \in Request : main[r] \notin {"idle", "end"} \/ op[r] \notin {"off", "done"}
  /\ main' = [r \in Request |-> IF main[r] = "idle" THEN "idle" ELSE "end"]
  /\ op' = [r \in Request |-> IF op[r] = "off" THEN "off" ELSE "done"]
  /\ UNCHANGED <<row, verdict, answer, ran>>

-----------------------------------------------------------------------------
(* Specification *)

\* The steps that the event loop and the database take in the end; a tool
\* waits for the CRM and may never return.
Step(r) ==
  \/ ReadConfig(r) \/ CreateRow(r) \/ CheckRate(r) \/ DenyRow(r)
  \/ DenyBody(r) \/ StartTool(r) \/ RecordSuccess(r) \/ Resolve(r)
  \/ FailRow(r) \/ FailBody(r)

Next ==
  \/ \E r \in Request :
       \/ Arrive(r) \/ Step(r) \/ Timeout(r)
       \/ ToolReturns(r) \/ ToolThrows(r)
       \/ CreateRowThrows(r) \/ TryThrows(r) \/ RecordThrows(r)
       \/ CatchThrows(r)
  \/ Crash

Spec == Init /\ [][Next]_vars

FairSpec == /\ Spec
            /\ \A r \in Request : WF_vars(Step(r)) /\ WF_vars(Timeout(r))

-----------------------------------------------------------------------------
(* Properties *)

\* What a caller is told is what the audit says. ALLOW or NEED_APPROVAL from
\* the tool: the row says SUCCESS with the same decision, whatever the timer,
\* the database or a crash do afterwards. A refusal with 429: the row keeps it
\* and the tool never starts. An error that names its row: the row is closed.
AnswersAreRecorded ==
  \A r \in Request :
    /\ answer[r].http = "ok" =>
         /\ row[r].status = "SUCCESS"
         /\ row[r].decision = answer[r].decision
         /\ row[r].body = "result"
    /\ answer[r].http = "refused" =>
         ran[r] = "no" /\ row[r].status = "ERROR" /\ row[r].decision = "DENY"
    /\ answer[r].audit => row[r].status \in {"SUCCESS", "ERROR"}

\* No tool works without an audit row, in particular not when the INSERT of
\* the row failed; and a row says SUCCESS only for a tool that returned,
\* although two threads write the row in any order.
AuditMatchesTool ==
  \A r \in Request :
    /\ ran[r] # "no" => row[r].status # "ABSENT"
    /\ row[r].status = "SUCCESS" => ran[r] = "done"

\* With a timer every call that arrives is answered, or lost in a crash,
\* although the tool may wait for the CRM for ever; and no row stays PENDING,
\* except for a call whose answer names no row: one that a crash cut off, or
\* whose catch block could not write the row (mcp.ts:164-238).
EveryCallEnds ==
  \A r \in Request :
    /\ main[r] = "config" ~> main[r] = "end"
    /\ row[r].status = "PENDING" ~>
         row[r].status # "PENDING" \/ (main[r] = "end" /\ ~answer[r].audit)
=============================================================================
