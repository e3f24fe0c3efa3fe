-------------------------- MODULE McpRequest_proofs --------------------------
(***************************************************************************)
(* Theorems about the life of a POST /mcp call, for any number of calls,   *)
(* any timeout decision and every combination of faults.                   *)
(***************************************************************************)
EXTENDS McpRequest, TLAPS

LEMMA TypeInit == Init => TypeOK
BY DEF Init, TypeOK, Row, Answer, NoAnswer, Threads, Decision

\* Each action writes at most one field of the row, one thread's verdict and
\* one answer.
LEMMA SetStatusType ==
  ASSUME TypeOK, NEW r \in Request, NEW s \in {"PENDING", "SUCCESS", "ERROR"},
         NEW d \in Decision, SetStatus(r, s, d)
  PROVE  row' \in [Request -> Row]
<1> DEFINE new == [row[r] EXCEPT !.status = s, !.decision = d]
<1>1. row[r] \in Row
  BY DEF TypeOK
<1>2. new \in Row
  BY <1>1 DEF Row
<1>3. row' = [row EXCEPT ![r] = new]
  BY DEF SetStatus, TypeOK
<1>4. QED
  BY <1>2, <1>3 DEF TypeOK

LEMMA SetBodyType ==
  ASSUME TypeOK, NEW r \in Request, SetBody(r, "error")
  PROVE  row' \in [Request -> Row]
BY ZenonT(40) DEF TypeOK, SetBody, Row

LEMMA OpenRowType ==
  ASSUME TypeOK, NEW r \in Request,
         row' = [row EXCEPT ![r].status = "PENDING"]
  PROVE  row' \in [Request -> Row]
BY ZenonT(40) DEF TypeOK, Row

LEMMA SendType ==
  ASSUME TypeOK, NEW r \in Request, NEW d \in Decision \cup {"bare"},
         NEW b \in BOOLEAN, NEW h \in {"ok", "refused", "error"},
         Send(r, d, b, h)
  PROVE  /\ answer' \in [Request -> Answer]
         /\ main' = [main EXCEPT ![r] = "end"]
BY DEF TypeOK, Send, Goto, Answer

LEMMA VerdictType ==
  ASSUME TypeOK, NEW r \in Request, NEW t \in Threads, NEW d \in Decision,
         verdict' = [verdict EXCEPT ![r][t] = d]
  PROVE  verdict' \in [Request -> [Threads -> Decision]]
BY DEF TypeOK

LEMMA CatchType ==
  ASSUME TypeOK, NEW r \in Request, NEW d \in Decision, Catch(r, d)
  PROVE  /\ verdict' \in [Request -> [Threads -> Decision]]
         /\ main' = [main EXCEPT ![r] = "failRow"]
<1>1. "main" \in Threads
  BY DEF Threads
<1>2. QED
  BY <1>1, VerdictType DEF Catch, Goto

LEMMA RejectsType ==
  ASSUME TypeOK, NEW r \in Request, NEW d \in Decision, Rejects(r, d)
  PROVE  /\ verdict' \in [Request -> [Threads -> Decision]]
         /\ op' = [op EXCEPT ![r] = "done"]
         /\ main' = IF main[r] = "race" THEN [main EXCEPT ![r] = "failRow"]
                                        ELSE main
<1>1. CASE main[r] = "race"
  BY <1>1, CatchType DEF Rejects
<1>2. CASE main[r] # "race"
  BY <1>2 DEF Rejects, TypeOK
<1>3. QED
  BY <1>1, <1>2

LEMMA VerdictValue ==
  ASSUME TypeOK, NEW r \in Request
  PROVE  verdict[r]["main"] \in Decision /\ verdict[r]["op"] \in Decision
BY DEF TypeOK, Threads

LEMMA TypeStep == TypeOK /\ [Next]_vars => TypeOK'
<1> SUFFICES ASSUME TypeOK, [Next]_vars PROVE TypeOK'
  OBVIOUS
<1> USE DEF TypeOK
<1>1. ASSUME NEW r \in Request, Arrive(r) \/ ReadConfig(r) \/ CheckRate(r)
                                  \/ StartTool(r)
      PROVE  TypeOK'
  <2>1. CASE ReadConfig(r) /\ Send(r, "bare", FALSE, "error")
    BY <2>1, SendType DEF ReadConfig
  <2>2. CASE Arrive(r) \/ CheckRate(r) \/ StartTool(r)
               \/ (ReadConfig(r) /\ UNCHANGED answer /\ Goto(r, "create"))
    BY <2>2 DEF Arrive, ReadConfig, CheckRate, StartTool, Goto
  <2>3. QED
    BY <1>1, <2>1, <2>2 DEF ReadConfig
<1>2. ASSUME NEW r \in Request, CreateRow(r) \/ CreateRowThrows(r)
      PROVE  TypeOK'
  <2>1. row' \in [Request -> Row]
    BY <1>2, OpenRowType DEF CreateRow, CreateRowThrows, Throws
  <2>2. CASE CreateRow(r)
    BY <2>1, <2>2 DEF CreateRow, Goto
  <2>3. CASE CreateRowThrows(r)
    BY <2>1, <2>3, SendType DEF CreateRowThrows, Decision
  <2>4. QED
    BY <1>2, <2>2, <2>3
<1>3. ASSUME NEW r \in Request, DenyRow(r) \/ DenyBody(r) PROVE TypeOK'
  <2>1. CASE DenyRow(r)
    BY <2>1, SetStatusType DEF DenyRow, Goto, Decision
  <2>2. CASE DenyBody(r)
    BY <2>2, SetBodyType, SendType DEF DenyBody, Decision
  <2>3. QED
    BY <1>3, <2>1, <2>2
<1>4. ASSUME NEW r \in Request, TryThrows(r) PROVE TypeOK'
  <2>1. row' \in [Request -> Row]
    BY <1>4, SetStatusType, SetBodyType DEF TryThrows, Throws, Decision
  <2>2. QED
    BY <1>4, <2>1, CatchType DEF TryThrows, Decision
<1>5. ASSUME NEW r \in Request, ToolReturns(r) PROVE TypeOK'
  <2>1. verdict' \in [Request -> [Threads -> Decision]]
    BY <1>5, VerdictType DEF ToolReturns, Decision, Threads
  <2>2. QED
    BY <1>5, <2>1 DEF ToolReturns
<1>6. ASSUME NEW r \in Request, ToolThrows(r) \/ RecordThrows(r)
      PROVE  TypeOK'
  <2>1. PICK d \in Decision : Rejects(r, d)
    BY <1>6 DEF ToolThrows, RecordThrows, Decision
  <2>2. QED
    BY <1>6, <2>1, RejectsType DEF ToolThrows, RecordThrows
<1>7. ASSUME NEW r \in Request, RecordSuccess(r) PROVE TypeOK'
  BY <1>7, VerdictValue DEF RecordSuccess, Row
<1>8. ASSUME NEW r \in Request, Resolve(r) PROVE TypeOK'
  <2>1. CASE main[r] = "race"
    BY <1>8, <2>1, VerdictValue, SendType DEF Resolve
  <2>2. CASE main[r] # "race"
    BY <1>8, <2>2 DEF Resolve
  <2>3. QED
    BY <2>1, <2>2
<1>9. ASSUME NEW r \in Request, Timeout(r) PROVE TypeOK'
  BY <1>9, CatchType, McpAssumption DEF Timeout
<1>10. ASSUME NEW r \in Request, FailRow(r) \/ FailBody(r) PROVE TypeOK'
  <2>1. CASE FailRow(r)
    BY <2>1, VerdictValue, SetStatusType DEF FailRow, Goto
  <2>2. CASE FailBody(r)
    BY <2>2, VerdictValue, SetBodyType, SendType DEF FailBody
  <2>3. QED
    BY <1>10, <2>1, <2>2
<1>11. ASSUME NEW r \in Request, CatchThrows(r) PROVE TypeOK'
  <2>1. row' \in [Request -> Row]
    BY <1>11, VerdictValue, SetStatusType, SetBodyType
       DEF CatchThrows, Throws
  <2>2. QED
    BY <1>11, <2>1, SendType DEF CatchThrows
<1>12. CASE Crash
  BY <1>12 DEF Crash
<1>13. CASE UNCHANGED vars
  BY <1>13 DEF vars
<1>14. QED
  BY <1>1, <1>2, <1>3, <1>4, <1>5, <1>6, <1>7, <1>8, <1>9, <1>10, <1>11,
     <1>12, <1>13 DEF Next, Step

\* The type invariant of module McpRequest, for any set of calls.
THEOREM TypeCorrect == Spec => []TypeOK
<1>1. QED
  BY TypeInit, TypeStep, PTL DEF Spec
-----------------------------------------------------------------------------
(* The inductive invariant: what the positions of the two threads of a     *)
(* call say about its row, its answer and its tool.                        *)

Open == {"rate", "denyRow", "denyBody", "budget", "race", "failRow",
         "failBody"}

\* Nothing has happened before the row is created.
BeforeRow(r) ==
  main[r] \in {"idle", "config", "create"} =>
    row[r].status = "ABSENT" /\ answer[r] = NoAnswer

\* A handler at work has a row and has sent nothing.
AtWork(r) ==
  main[r] \in Open => row[r].status # "ABSENT" /\ answer[r] = NoAnswer

\* The tool starts when the race does, and not before.
ToolStarted(r) ==
  /\ op[r] = "off" <=> ran[r] = "no"
  /\ op[r] = "tool" => ran[r] = "running"
  /\ main[r] \in {"idle", "config", "create", "rate", "denyRow", "denyBody",
                  "budget"} => op[r] = "off"
  /\ main[r] = "race" => op[r] \in {"tool", "record", "recorded"}
  /\ ran[r] # "no" => row[r].status # "ABSENT"

\* The row is closed as a success by the operation alone, after the tool.
RowWritten(r) ==
  /\ op[r] \in {"record", "recorded"} => ran[r] = "done"
  /\ row[r].status = "SUCCESS" => ran[r] = "done"
  /\ main[r] = "denyBody" => row[r].status = "ERROR" /\ row[r].decision = "DENY"
  /\ main[r] = "failBody" => row[r].status \in {"SUCCESS", "ERROR"}
  /\ main[r] = "race" /\ op[r] = "recorded" =>
       /\ row[r].status = "SUCCESS" /\ row[r].body = "result"
       /\ row[r].decision = verdict[r]["op"]

\* What was sent agrees with the row, and the thread that could still change
\* the row has ended.
Answered(r) ==
  /\ answer[r] # NoAnswer => main[r] = "end"
  /\ answer[r].http = "ok" =>
       /\ op[r] = "done"
       /\ row[r].status = "SUCCESS" /\ row[r].body = "result"
       /\ row[r].decision = answer[r].decision
  /\ answer[r].http = "refused" =>
       op[r] = "off" /\ row[r].status = "ERROR" /\ row[r].decision = "DENY"
  /\ answer[r].audit => row[r].status \in {"SUCCESS", "ERROR"}

CallInv(r) == /\ BeforeRow(r) /\ AtWork(r) /\ ToolStarted(r)
              /\ RowWritten(r) /\ Answered(r)

IInv == \A r \in Request : CallInv(r)

LEMMA IInvInit == Init => IInv
<1> SUFFICES ASSUME Init, NEW r \in Request PROVE CallInv(r)
  BY DEF IInv
<1>1. /\ main[r] = "idle" /\ op[r] = "off" /\ ran[r] = "no"
      /\ row[r].status = "ABSENT" /\ answer[r] = NoAnswer
  BY DEF Init
<1>2. answer[r].http = "none" /\ ~answer[r].audit
  BY <1>1 DEF NoAnswer
<1>3. QED
  BY <1>1, <1>2 DEF CallInv, BeforeRow, AtWork, ToolStarted, RowWritten,
     Answered, Open

\* A step of one call leaves the others as they are.
OthersUnchanged(r) ==
  \A q \in Request \ {r} :
    /\ row'[q] = row[q] /\ main'[q] = main[q] /\ op'[q] = op[q]
    /\ verdict'[q] = verdict[q] /\ answer'[q] = answer[q] /\ ran'[q] = ran[q]

LEMMA OthersInv ==
  ASSUME IInv, NEW r \in Request, OthersUnchanged(r), CallInv(r)'
  PROVE  IInv'
<1> SUFFICES ASSUME NEW q \in Request PROVE CallInv(q)'
  BY DEF IInv
<1>1. CASE q = r
  BY <1>1
<1>2. CASE q # r
  BY <1>2 DEF OthersUnchanged, IInv, CallInv, BeforeRow, AtWork, ToolStarted,
     RowWritten, Answered
<1>3. QED
  BY <1>1, <1>2

LEMMA IInvStep == TypeOK /\ IInv /\ [Next]_vars => IInv'
<1> SUFFICES ASSUME TypeOK, IInv, [Next]_vars PROVE IInv'
  OBVIOUS
<1> USE DEF CallInv, BeforeRow, AtWork, ToolStarted, RowWritten, Answered,
            Open, NoAnswer
<1>1. ASSUME NEW r \in Request, Arrive(r) \/ ReadConfig(r) \/ CheckRate(r)
      PROVE  IInv'
  <2>1. OthersUnchanged(r)
    BY <1>1 DEF OthersUnchanged, Arrive, ReadConfig, CheckRate, Goto, Send,
       TypeOK
  <2>2. /\ row'[r] = row[r] /\ op'[r] = op[r] /\ ran'[r] = ran[r]
        /\ \/ main[r] = "idle" /\ main'[r] = "config" /\ answer'[r] = answer[r]
           \/ main[r] = "config" /\ main'[r] = "create" /\ answer'[r] = answer[r]
           \/ /\ main[r] = "config" /\ main'[r] = "end"
              /\ answer'[r].http = "error" /\ ~answer'[r].audit
           \/ /\ main[r] = "rate" /\ main'[r] \in {"budget", "denyRow"}
              /\ answer'[r] = answer[r]
    BY <1>1 DEF Arrive, ReadConfig, CheckRate, Goto, Send, TypeOK
  <2>3. CallInv(r)'
    BY <2>2 DEF IInv
  <2>4. QED
    BY <2>1, <2>3, OthersInv
<1>2. ASSUME NEW r \in Request, CreateRow(r) \/ CreateRowThrows(r)
      PROVE  IInv'
  <2>1. OthersUnchanged(r)
    BY <1>2 DEF OthersUnchanged, CreateRow, CreateRowThrows, Throws, Goto,
       Send, TypeOK
  <2>2. /\ main[r] = "create" /\ op'[r] = op[r] /\ ran'[r] = ran[r]
        /\ \/ /\ main'[r] = "rate" /\ answer'[r] = answer[r]
              /\ row'[r].status = "PENDING"
           \/ /\ main'[r] = "end" /\ row'[r].status \in {row[r].status, "PENDING"}
              /\ answer'[r].http = "error" /\ ~answer'[r].audit
    BY <1>2 DEF CreateRow, CreateRowThrows, Throws, Goto, Send, TypeOK, Row
  <2>3. CallInv(r)'
    BY <2>2 DEF IInv
  <2>4. QED
    BY <2>1, <2>3, OthersInv
<1>3. ASSUME NEW r \in Request, DenyRow(r) \/ DenyBody(r) PROVE IInv'
  <2>1. OthersUnchanged(r)
    BY <1>3 DEF OthersUnchanged, DenyRow, DenyBody, SetStatus, SetBody, Goto,
       Send, TypeOK
  <2>2. CASE DenyRow(r)
    <3>1. /\ main'[r] = "denyBody" /\ op'[r] = op[r] /\ ran'[r] = ran[r]
          /\ answer'[r] = answer[r] /\ main[r] = "denyRow"
      BY <2>2 DEF DenyRow, Goto, TypeOK
    <3>2. row'[r].status = "ERROR" /\ row'[r].decision = "DENY"
      BY <2>2 DEF DenyRow, SetStatus, TypeOK, Row
    <3>3. CallInv(r)'
      BY <3>1, <3>2 DEF IInv
    <3>4. QED
      BY <2>1, <3>3, OthersInv
  <2>3. CASE DenyBody(r)
    <3>1. CallInv(r)'
      BY <2>3 DEF IInv, DenyBody, SetBody, Goto, Send, TypeOK, Row
    <3>2. QED
      BY <2>1, <3>1, OthersInv
  <2>4. QED
    BY <1>3, <2>2, <2>3
<1>4. ASSUME NEW r \in Request, StartTool(r) PROVE IInv'
  <2>1. OthersUnchanged(r)
    BY <1>4 DEF OthersUnchanged, StartTool, Goto, TypeOK
  <2>2. CallInv(r)'
    BY <1>4 DEF IInv, StartTool, Goto, TypeOK
  <2>3. QED
    BY <2>1, <2>2, OthersInv
<1>5. ASSUME NEW r \in Request, TryThrows(r) PROVE IInv'
  <2>1. OthersUnchanged(r)
    BY <1>5 DEF OthersUnchanged, TryThrows, Throws, SetStatus, SetBody, Catch,
       Goto, TypeOK
  <2>2. /\ main[r] \in {"rate", "denyRow", "denyBody", "budget"}
        /\ main'[r] = "failRow" /\ op'[r] = op[r] /\ ran'[r] = ran[r]
        /\ answer'[r] = answer[r]
    BY <1>5 DEF TryThrows, Catch, Goto, TypeOK
  <2>3. row'[r].status \in {row[r].status, "ERROR"}
    BY <1>5 DEF TryThrows, Throws, SetStatus, SetBody, TypeOK, Row
  <2>4. CallInv(r)'
    BY <2>2, <2>3 DEF IInv
  <2>5. QED
    BY <2>1, <2>4, OthersInv
<1>6. ASSUME NEW r \in Request, ToolReturns(r) PROVE IInv'
  <2>1. OthersUnchanged(r)
    BY <1>6 DEF OthersUnchanged, ToolReturns, TypeOK
  <2>2. CallInv(r)'
    BY <1>6 DEF IInv, ToolReturns, TypeOK
  <2>3. QED
    BY <2>1, <2>2, OthersInv
<1>7. ASSUME NEW r \in Request, ToolThrows(r) \/ RecordThrows(r)
      PROVE  IInv'
  <2>1. PICK d \in Decision : Rejects(r, d)
    BY <1>7 DEF ToolThrows, RecordThrows, Decision
  <2>2. OthersUnchanged(r)
    BY <1>7, <2>1 DEF OthersUnchanged, ToolThrows, RecordThrows, Rejects,
       Catch, Goto, TypeOK
  <2>3. /\ op[r] \in {"tool", "record", "recorded"} /\ op'[r] = "done"
        /\ row'[r] = row[r] /\ answer'[r] = answer[r]
        /\ main'[r] = IF main[r] = "race" THEN "failRow" ELSE main[r]
    BY <1>7, <2>1 DEF ToolThrows, RecordThrows, Rejects, Catch, Goto, TypeOK
  <2>4. ran'[r] = ran[r] \/ (op[r] = "tool" /\ ran'[r] = "failed")
    BY <1>7 DEF ToolThrows, RecordThrows, TypeOK
  <2>5. op[r] = "tool" => row[r].status # "SUCCESS"
    BY DEF IInv
  <2>6. CallInv(r)'
    BY <2>3, <2>4, <2>5 DEF IInv
  <2>7. QED
    BY <2>2, <2>6, OthersInv
<1>8. ASSUME NEW r \in Request, RecordSuccess(r) PROVE IInv'
  <2>1. OthersUnchanged(r)
    BY <1>8 DEF OthersUnchanged, RecordSuccess, TypeOK
  <2>2. CallInv(r)'
    BY <1>8 DEF IInv, RecordSuccess, TypeOK
  <2>3. QED
    BY <2>1, <2>2, OthersInv
<1>9. ASSUME NEW r \in Request, Resolve(r) PROVE IInv'
  <2>1. OthersUnchanged(r)
    BY <1>9 DEF OthersUnchanged, Resolve, Send, Goto, TypeOK
  <2>2. /\ op[r] = "recorded" /\ op'[r] = "done" /\ row'[r] = row[r]
        /\ ran'[r] = ran[r]
    BY <1>9 DEF Resolve, TypeOK
  <2>3. CASE main[r] = "race"
    <3>1. /\ main'[r] = "end" /\ answer'[r].http = "ok"
          /\ answer'[r].decision = verdict[r]["op"]
      BY <1>9, <2>3 DEF Resolve, Send, Goto, TypeOK
    <3>2. CallInv(r)'
      BY <2>2, <2>3, <3>1 DEF IInv
    <3>3. QED
      BY <2>1, <3>2, OthersInv
  <2>4. CASE main[r] # "race"
    <3>1. main'[r] = main[r] /\ answer'[r] = answer[r]
      BY <1>9, <2>4 DEF Resolve
    <3>2. CallInv(r)'
      BY <2>2, <2>4, <3>1 DEF IInv
    <3>3. QED
      BY <2>1, <3>2, OthersInv
  <2>5. QED
    BY <2>3, <2>4
<1>10. ASSUME NEW r \in Request, Timeout(r) PROVE IInv'
  <2>1. OthersUnchanged(r)
    BY <1>10 DEF OthersUnchanged, Timeout, Catch, Goto, TypeOK
  <2>2. CallInv(r)'
    BY <1>10 DEF IInv, Timeout, Catch, Goto, TypeOK
  <2>3. QED
    BY <2>1, <2>2, OthersInv
<1>11. ASSUME NEW r \in Request, FailRow(r) PROVE IInv'
  <2>1. OthersUnchanged(r)
    BY <1>11 DEF OthersUnchanged, FailRow, SetStatus, Goto, TypeOK
  <2>2. /\ main[r] = "failRow" /\ main'[r] = "failBody"
        /\ op'[r] = op[r] /\ ran'[r] = ran[r] /\ answer'[r] = answer[r]
    BY <1>11 DEF FailRow, Goto, TypeOK
  <2>3. row'[r].status = "ERROR"
    BY <1>11 DEF FailRow, SetStatus, TypeOK, Row
  <2>4. CallInv(r)'
    BY <2>2, <2>3 DEF IInv
  <2>5. QED
    BY <2>1, <2>4, OthersInv
<1>12. ASSUME NEW r \in Request, FailBody(r) PROVE IInv'
  <2>1. OthersUnchanged(r)
    BY <1>12 DEF OthersUnchanged, FailBody, SetBody, Goto, Send, TypeOK
  <2>2. CallInv(r)'
    BY <1>12 DEF IInv, FailBody, SetBody, Goto, Send, TypeOK, Row
  <2>3. QED
    BY <2>1, <2>2, OthersInv
<1>13. ASSUME NEW r \in Request, CatchThrows(r) PROVE IInv'
  <2>1. OthersUnchanged(r)
    BY <1>13 DEF OthersUnchanged, CatchThrows, Throws, SetStatus, SetBody,
       Goto, Send, TypeOK
  <2>2. /\ main[r] \in {"failRow", "failBody"} /\ main'[r] = "end"
        /\ op'[r] = op[r] /\ ran'[r] = ran[r]
        /\ answer'[r].http = "error" /\ ~answer'[r].audit
    BY <1>13 DEF CatchThrows, Goto, Send, TypeOK
  <2>3. row'[r].status \in {row[r].status, "ERROR"}
    BY <1>13 DEF CatchThrows, Throws, SetStatus, SetBody, TypeOK, Row
  <2>4. CallInv(r)'
    BY <2>2, <2>3 DEF IInv
  <2>5. QED
    BY <2>1, <2>4, OthersInv
<1>14. CASE Crash
  <2> SUFFICES ASSUME NEW r \in Request PROVE CallInv(r)'
    BY DEF IInv
  <2>1. QED
    BY <1>14 DEF Crash, IInv, TypeOK
<1>15. CASE UNCHANGED vars
  BY <1>15 DEF vars, IInv
<1>16. QED
  BY <1>1, <1>2, <1>3, <1>4, <1>5, <1>6, <1>7, <1>8, <1>9, <1>10, <1>11,
     <1>12, <1>13, <1>14, <1>15 DEF Next, Step

THEOREM Invariant == Spec => []IInv
<1>1. QED
  BY TypeCorrect, IInvInit, IInvStep, PTL DEF Spec

\* What callers are told is what the audit says, for any set of calls and any
\* faults.
THEOREM AnswersRecorded == Spec => []AnswersAreRecorded
<1>1. IInv => AnswersAreRecorded
  BY DEF IInv, CallInv, Answered, ToolStarted, AnswersAreRecorded
<1>2. QED
  BY <1>1, Invariant, PTL

\* No tool works without a row, and no row claims a success of a tool that did
\* not return.
THEOREM AuditedTools == Spec => []AuditMatchesTool
<1>1. IInv => AuditMatchesTool
  BY DEF IInv, CallInv, ToolStarted, RowWritten, AuditMatchesTool
<1>2. QED
  BY <1>1, Invariant, PTL
=============================================================================
