------------------------ MODULE TwoPhaseApply_proofs ------------------------
(***************************************************************************)
(* Theorems about the two-phase apply, for every number of requests, keys, *)
(* approvals and targets, and, unless a theorem says otherwise, for every  *)
(* combination of faults and client behaviours.                            *)
(***************************************************************************)
EXTENDS TwoPhaseApply, TLAPS

\* The positions of a request that has not called the CRM.
BeforeCall == {"idle", "details", "policy", "approval", "preview", "create",
               "select", "insert", "call"}

\* What the position of a request says about its parameters and results.
ControlInv ==
  \A r \in Request :
    /\ pc[r] \in BeforeCall => upstream[r] = "none"
    /\ pc[r] = "details" => call[r].approval \in Approval
    /\ pc[r] \in {"policy", "details"} /\ Applies(r) => call[r].key \in Key
    /\ pc[r] = "approval" => call[r].approval \in Approval
    /\ pc[r] \in {"approval", "select", "insert", "call", "reply",
                  "complete", "fail"} => call[r].key \in Key
    /\ pc[r] = "link" => call[r].approval \in Approval
    /\ pc[r] = "complete" => result[r] = r /\ upstream[r] = "applied"

TypeInv == TypeOK /\ ControlInv

LEMMA TypeInvInit == Init => TypeInv
<1> SUFFICES ASSUME Init PROVE TypeInv
  OBVIOUS
<1>1. TypeOK
  BY ConstantsAssumption DEF Init, TypeOK, ApprovalRow, KeyRow, Call, NoCall,
     Action, Tool
<1>2. ControlInv
  BY DEF Init, ControlInv, BeforeCall
<1>3. QED
  BY <1>1, <1>2 DEF TypeInv

\* A request arrives with parameters of the right type, at a step that suits
\* the parameters.
LEMMA ArriveTypeInv ==
  ASSUME TypeInv, NEW r \in Request, NEW c \in Call,
         NEW first \in {"policy", "details", "error"}, Arrive(r, c, first),
         first = "details" => c.approval \in Approval,
         first # "error" /\ c.tool # "plan" => c.key \in Key
  PROVE  TypeInv'
<1>1. TypeOK'
  BY DEF TypeInv, TypeOK, Arrive, Goto, tables, Waiting, Ended
<1>2. ControlInv'
  BY DEF TypeInv, TypeOK, ControlInv, Arrive, Goto, tables, Applies, Call,
     BeforeCall
<1>3. QED
  BY <1>1, <1>2 DEF TypeInv

LEMMA StartTypeInv ==
  ASSUME TypeInv, NEW r \in Request, Start(r) PROVE TypeInv'
<1>1. ASSUME NEW act \in Action, NEW t \in Target, StartPlan(r, act, t)
      PROVE  TypeInv'
  BY <1>1, ArriveTypeInv DEF StartPlan, Call, Tool
<1>2. ASSUME NEW act \in Action, NEW t \in Target, NEW k \in Key \cup {NoKey},
             NEW a \in Approval \cup {NoApproval}, StartApply(r, act, t, k, a)
      PROVE  TypeInv'
  <2> DEFINE c == [tool |-> "apply", action |-> act, target |-> t,
                   key |-> k, approval |-> a]
             first == IF k = NoKey THEN "error" ELSE "policy"
  <2>1. c \in Call
    BY DEF Call, Tool
  <2>2. first \in {"policy", "details", "error"}
    OBVIOUS
  <2>3. Arrive(r, c, first)
    BY <1>2 DEF StartApply
  <2>4. first = "details" => c.approval \in Approval
    OBVIOUS
  <2>5. first # "error" /\ c.tool # "plan" => c.key \in Key
    OBVIOUS
  <2>6. QED
    BY <2>1, <2>2, <2>3, <2>4, <2>5, ArriveTypeInv
<1>3. ASSUME NEW t \in Target, NEW k \in Key \cup {NoKey},
             NEW a \in Approval \cup {NoApproval}, StartAlias(r, t, k, a)
      PROVE  TypeInv'
  <2> DEFINE c == [tool |-> "alias", action |-> Cancel, target |-> t,
                   key |-> k, approval |-> a]
             first == IF k = NoKey \/ a = NoApproval THEN "error"
                      ELSE "details"
  <2>1. c \in Call
    BY DEF Call, Tool, Action
  <2>2. first \in {"policy", "details", "error"}
    OBVIOUS
  <2>3. Arrive(r, c, first)
    BY <1>3 DEF StartAlias
  <2>4. first = "details" => c.approval \in Approval
    OBVIOUS
  <2>5. first # "error" /\ c.tool # "plan" => c.key \in Key
    OBVIOUS
  <2>6. QED
    BY <2>1, <2>2, <2>3, <2>4, <2>5, ArriveTypeInv
<1>4. QED
  BY <1>1, <1>2, <1>3 DEF Start

\* Taking the target from the approval changes nothing else.
LEMMA ReadDetailsKeepsRest ==
  ASSUME TypeOK, NEW r \in Request, ReadDetails(r), NEW q \in Request
  PROVE  /\ call'[q].tool = call[q].tool
         /\ call'[q].action = call[q].action
         /\ call'[q].key = call[q].key
         /\ call'[q].approval = call[q].approval
<1>1. ASSUME NEW c \in Call, NEW t
      PROVE  LET d == [c EXCEPT !.target = t]
             IN d.tool = c.tool /\ d.action = c.action /\ d.key = c.key
                  /\ d.approval = c.approval
  BY DEF Call
<1>2. call[q] \in Call
  BY DEF TypeOK
<1> DEFINE t == approvals[call[r].approval].target
<1>3. call'[q] = call[q] \/ call'[q] = [call[q] EXCEPT !.target = t]
  BY DEF TypeOK, ReadDetails
<1> HIDE DEF t
<1>4. CASE call'[q] = call[q]
  BY <1>4
<1>5. CASE call'[q] = [call[q] EXCEPT !.target = t]
  BY <1>1, <1>2, <1>5
<1>6. QED
  BY <1>3, <1>4, <1>5

\* Every later step of a handler.
LEMMA HandleTypeInv ==
  ASSUME TypeInv, NEW r \in Request, Handle(r) PROVE TypeInv'
<1> USE DEF TypeInv, Waiting, Ended, tables, own, Goto, BeforeCall
<1>1. CASE ReadDetails(r)
  <2> DEFINE row == approvals[call[r].approval]
  <2>1. row \in ApprovalRow
    BY <1>1 DEF TypeOK, ControlInv, ReadDetails
  <2>2. row.target \in Target \cup {NoTarget} /\ call[r] \in Call
    BY <2>1 DEF TypeOK, ApprovalRow
  <2> HIDE DEF row
  <2>3. [call[r] EXCEPT !.target = row.target] \in Call
    BY <2>2 DEF Call
  <2> USE DEF row
  <2>4. call' \in [Request -> Call]
    BY <1>1, <2>3 DEF TypeOK, ReadDetails
  <2>5. TypeOK'
    BY <1>1, <2>4 DEF TypeOK, ReadDetails
  <2>6. \A q \in Request : /\ call'[q].tool = call[q].tool
                            /\ call'[q].key = call[q].key
                            /\ call'[q].approval = call[q].approval
    BY <1>1, ReadDetailsKeepsRest
  <2>7. ControlInv'
    BY <1>1, <2>6 DEF TypeOK, ControlInv, ReadDetails, Applies
  <2>8. QED
    BY <2>5, <2>7
<1>2. CASE ReadPolicy(r)
  <2>1. RequireApproval(call[r].action) \in BOOLEAN
    BY DEF TypeOK, RequireApproval, Call, Action
  <2>2. TypeOK'
    BY <1>2, <2>1 DEF TypeOK, ControlInv, ReadPolicy, AfterPolicy, Call, Tool, Action
  <2>3. ControlInv'
    BY <1>2, <2>1, ConstantsAssumption
       DEF TypeOK, ControlInv, ReadPolicy, AfterPolicy, Call, Tool, Action, Applies
  <2>4. QED
    BY <2>2, <2>3
<1>3. ASSUME NEW succeeds \in BOOLEAN, Preview(r, succeeds)
      PROVE  TypeInv'
  BY <1>3 DEF TypeOK, ControlInv, Preview, Applies
<1>4. ASSUME NEW a \in Approval, CreateApproval(r, a)
      PROVE  TypeInv'
  BY <1>4 DEF TypeOK, ControlInv, CreateApproval, Applies, ApprovalRow, Call
<1>5. CASE CheckApproval(r)
  BY <1>5 DEF TypeOK, ControlInv, CheckApproval, Applies
<1>6. CASE SelectKey(r)
  <2>1. TypeOK'
    BY <1>6 DEF TypeOK, ControlInv, SelectKey, KeyRow, AfterApply
  <2>2. ControlInv'
    BY <1>6, ConstantsAssumption, SMTT(30)
       DEF TypeOK, ControlInv, SelectKey, KeyRow, AfterApply, Call, Applies
  <2>3. QED
    BY <2>1, <2>2
<1>7. CASE InsertKey(r)
  BY <1>7 DEF TypeOK, ControlInv, InsertKey, Applies, KeyRow
<1>8. CASE SendUpstream(r)
  BY <1>8 DEF TypeOK, ControlInv, SendUpstream, Applies
<1>9. CASE ReceiveReply(r)
  BY <1>9 DEF TypeOK, ControlInv, ReceiveReply, Applies
<1>10. CASE CompleteKey(r)
  <2>1. TypeOK'
    BY <1>10 DEF TypeOK, ControlInv, CompleteKey, KeyRow, AfterApply
  <2>2. ControlInv'
    BY <1>10, ConstantsAssumption
       DEF TypeOK, ControlInv, CompleteKey, AfterApply, Call, Applies
  <2>3. QED
    BY <2>1, <2>2
<1>11. CASE FailKey(r)
  BY <1>11 DEF TypeOK, ControlInv, FailKey, Applies, KeyRow
<1>12. CASE LinkApproval(r)
  BY <1>12 DEF TypeOK, ControlInv, LinkApproval, Applies, ApprovalRow
<1>13. QED
  BY <1>1, <1>2, <1>3, <1>4, <1>5, <1>6, <1>7, <1>8, <1>9, <1>10, <1>11,
     <1>12 DEF Handle

\* Faults, the CRM and the administrators.
LEMMA EnvironmentTypeInv ==
  ASSUME TypeInv,
         \/ \E r \in Request : LoseReply(r) \/ DbError(r)
         \/ \E r \in Request, outcome \in {"applied", "rejected"} :
              UpstreamAnswers(r, outcome)
         \/ Crash
         \/ \E a \in Approval : Approve(a)
         \/ \E act \in Action, required \in BOOLEAN : SetPolicy(act, required)
  PROVE  TypeInv'
<1> USE DEF TypeInv, TypeOK, ControlInv, Waiting, Ended, tables, own, Goto,
            Applies, BeforeCall
<1>1. ASSUME NEW r \in Request, LoseReply(r) PROVE TypeInv'
  BY <1>1 DEF LoseReply
<1>2. ASSUME NEW r \in Request, DbError(r) PROVE TypeInv'
  BY <1>2 DEF DbError
<1>3. ASSUME NEW r \in Request, NEW outcome \in {"applied", "rejected"},
             UpstreamAnswers(r, outcome)
      PROVE  TypeInv'
  BY <1>3 DEF UpstreamAnswers
<1>4. CASE Crash
  BY <1>4 DEF Crash
<1>5. ASSUME NEW a \in Approval, Approve(a) PROVE TypeInv'
  BY <1>5 DEF Approve, ApprovalRow
<1>6. ASSUME NEW act \in Action, NEW required \in BOOLEAN,
             SetPolicy(act, required)
      PROVE  TypeInv'
  BY <1>6 DEF SetPolicy
<1>7. QED
  BY <1>1, <1>2, <1>3, <1>4, <1>5, <1>6

LEMMA TypeInvNext == TypeInv /\ [Next]_vars => TypeInv'
<1> SUFFICES ASSUME TypeInv, [Next]_vars PROVE TypeInv'
  OBVIOUS
<1>1. CASE Next
  BY <1>1, StartTypeInv, HandleTypeInv, EnvironmentTypeInv DEF Next
<1>2. CASE UNCHANGED vars
  BY <1>2 DEF vars, TypeInv, TypeOK, ControlInv, Applies
<1>3. QED
  BY <1>1, <1>2

\* Every variable keeps its type, whatever the faults and the clients do.
THEOREM TypeCorrect == Spec => []TypeOK
<1>1. TypeInv => TypeOK
  BY DEF TypeInv
<1>2. QED
  BY <1>1, TypeInvInit, TypeInvNext, PTL DEF Spec

LEMMA TypeInvCorrect == Spec => []TypeInv
BY TypeInvInit, TypeInvNext, PTL DEF Spec
-----------------------------------------------------------------------------
(* What no step undoes *)

\* The parameters of a request that has arrived, as far as authorisation
\* depends on them.
Committed(r) == [action |-> call[r].action, approval |-> call[r].approval,
                 key |-> call[r].key, tool |-> call[r].tool]

\* A step keeps an arrived request's parameters, granted approvals, waivers
\* and effects.
Keeps ==
  /\ \A r \in Request : pc[r] # "idle" => /\ pc'[r] # "idle"
                                         /\ Committed(r)' = Committed(r)
  /\ \A a \in Approval : approvals[a].status = "APPROVED" =>
       /\ approvals'[a].status = "APPROVED"
       /\ approvals'[a].action = approvals[a].action
  /\ everWaived \subseteq everWaived'
  /\ \A r \in Request : upstream[r] = "applied" => upstream'[r] = "applied"

LEMMA StepKeeps == TypeInv /\ [Next]_vars => Keeps
<1> SUFFICES ASSUME TypeInv, [Next]_vars PROVE Keeps
  OBVIOUS
<1> USE DEF TypeInv, TypeOK, Keeps, Committed, tables, own, Goto, BeforeCall
<1>1. ASSUME NEW r \in Request, Start(r) PROVE Keeps
  BY <1>1 DEF Start, StartPlan, StartApply, StartAlias, Arrive, ControlInv
<1>2. ASSUME NEW r \in Request, Handle(r) PROVE Keeps
  <2>1. CASE ReadDetails(r)
    <3>1. \A q \in Request : Committed(q)' = Committed(q)
      BY <2>1, ReadDetailsKeepsRest
    <3>2. \A q \in Request : pc[q] # "idle" => pc'[q] # "idle"
      BY <2>1 DEF ReadDetails
    <3>3. UNCHANGED <<tables, upstream>>
      BY <2>1 DEF ReadDetails
    <3>4. QED
      BY <3>1, <3>2, <3>3
  <2>2. CASE ReadPolicy(r)
    BY <2>2 DEF ReadPolicy, AfterPolicy, Call, Tool, Action
  <2>3. CASE \E succeeds \in BOOLEAN : Preview(r, succeeds)
    BY <2>3 DEF Preview
  <2>4. CASE \E a \in Approval : CreateApproval(r, a)
    BY <2>4 DEF CreateApproval, FreshApproval
  <2>5. CASE CheckApproval(r)
    BY <2>5 DEF CheckApproval
  <2>6. CASE SelectKey(r)
    BY <2>6 DEF SelectKey, AfterApply, KeyRow, ControlInv
  <2>7. CASE InsertKey(r)
    BY <2>7 DEF InsertKey
  <2>8. CASE SendUpstream(r)
    BY <2>8 DEF SendUpstream, ControlInv
  <2>9. CASE ReceiveReply(r)
    BY <2>9 DEF ReceiveReply
  <2>10. CASE CompleteKey(r)
    BY <2>10 DEF CompleteKey, AfterApply
  <2>11. CASE FailKey(r)
    BY <2>11 DEF FailKey
  <2>12. CASE LinkApproval(r)
    BY <2>12 DEF LinkApproval, ApprovalRow
  <2>13. QED
    BY <1>2, <2>1, <2>2, <2>3, <2>4, <2>5, <2>6, <2>7, <2>8, <2>9, <2>10,
       <2>11, <2>12 DEF Handle
<1>3. ASSUME NEW r \in Request, LoseReply(r) \/ DbError(r) PROVE Keeps
  BY <1>3 DEF LoseReply, DbError
<1>4. ASSUME NEW r \in Request, NEW outcome \in {"applied", "rejected"},
             UpstreamAnswers(r, outcome)
      PROVE  Keeps
  BY <1>4 DEF UpstreamAnswers
<1>5. CASE Crash
  BY <1>5 DEF Crash
<1>6. ASSUME NEW a \in Approval, Approve(a) PROVE Keeps
  BY <1>6 DEF Approve, ApprovalRow
<1>7. ASSUME NEW act \in Action, NEW required \in BOOLEAN,
             SetPolicy(act, required)
      PROVE  Keeps
  BY <1>7 DEF SetPolicy
<1>8. CASE UNCHANGED vars
  BY <1>8 DEF vars
<1>9. QED
  BY <1>1, <1>2, <1>3, <1>4, <1>5, <1>6, <1>7, <1>8 DEF Next
-----------------------------------------------------------------------------
(* Authorisation *)

\* A policy row that waives approval was written by an administrator.
WaiverInv == \A act \in Action : ~policy[act] => act \in everWaived

Cleared == {"select", "insert", "call", "reply", "complete", "link"}

\* EffectsAreAuthorised alone is not inductive: the check is made several
\* awaits before the call, and what it found has to last.
AuthorisedInv ==
  /\ WaiverInv
  /\ \A r \in Request : pc[r] \in Cleared \/ upstream[r] # "none"
                           => Authorised(r)

LEMMA AuthorisedLasts ==
  ASSUME TypeInv, Keeps, NEW r \in Request, pc[r] # "idle", Authorised(r)
  PROVE  Authorised(r)'
<1>1. /\ call'[r].action = call[r].action
      /\ call'[r].approval = call[r].approval
  BY DEF Keeps, Committed
<1>2. call[r].approval \in Approval \cup {NoApproval}
  BY DEF TypeInv, TypeOK, Call
<1>3. QED
  BY <1>1, <1>2 DEF Keeps, Authorised, ApprovalUsable

LEMMA WaiverStep == TypeInv /\ WaiverInv /\ [Next]_vars => WaiverInv'
<1> SUFFICES ASSUME TypeInv, WaiverInv, [Next]_vars PROVE WaiverInv'
  OBVIOUS
<1> USE DEF tables
<1>1. ASSUME NEW r \in Request, Start(r) PROVE UNCHANGED <<policy, everWaived>>
  BY <1>1 DEF Start, StartPlan, StartApply, StartAlias, Arrive
<1>2. ASSUME NEW r \in Request, Handle(r) PROVE UNCHANGED <<policy, everWaived>>
  BY <1>2 DEF Handle, ReadDetails, ReadPolicy, Preview, CreateApproval,
     CheckApproval, SelectKey, InsertKey, SendUpstream, ReceiveReply,
     CompleteKey, FailKey, LinkApproval
<1>3. ASSUME \/ \E r \in Request : LoseReply(r) \/ DbError(r)
             \/ \E r \in Request, outcome \in {"applied", "rejected"} :
                  UpstreamAnswers(r, outcome)
             \/ Crash
             \/ \E a \in Approval : Approve(a)
             \/ UNCHANGED vars
      PROVE  UNCHANGED <<policy, everWaived>>
  BY <1>3 DEF LoseReply, DbError, UpstreamAnswers, Crash, Approve, vars
<1>4. ASSUME NEW act \in Action, NEW required \in BOOLEAN,
             SetPolicy(act, required)
      PROVE  WaiverInv'
  BY <1>4 DEF WaiverInv, SetPolicy, TypeInv, TypeOK
<1>5. QED
  BY <1>1, <1>2, <1>3, <1>4 DEF Next, WaiverInv

\* Only the two checks clear a request, and only a cleared one calls.
LEMMA ClearingSteps ==
  ASSUME TypeInv, [Next]_vars, NEW r \in Request
  PROVE  /\ pc'[r] \in Cleared /\ pc[r] \notin Cleared
              => ReadPolicy(r) \/ CheckApproval(r)
         /\ upstream'[r] # "none" /\ upstream[r] = "none" => pc[r] = "call"
<1> USE DEF TypeInv, TypeOK, tables, own, Goto, Cleared
<1>1. ASSUME NEW q \in Request, Start(q)
      PROVE  pc'[r] \notin Cleared \/ pc'[r] = pc[r]
  BY <1>1, ZenonT(40) DEF Start, StartPlan, StartApply, StartAlias, Arrive
<1>2. ASSUME NEW q \in Request, Start(q) PROVE UNCHANGED upstream
  BY <1>2 DEF Start, StartPlan, StartApply, StartAlias, Arrive
<1>3. ASSUME NEW q \in Request, Handle(q)
      PROVE  /\ pc'[r] \in Cleared /\ pc[r] \notin Cleared
                  => ReadPolicy(r) \/ CheckApproval(r)
             /\ upstream'[r] # "none" /\ upstream[r] = "none" => pc[r] = "call"
  <2>1. CASE ReadDetails(q)
    BY <2>1 DEF ReadDetails
  <2>2. CASE ReadPolicy(q)
    BY <2>2 DEF ReadPolicy
  <2>3. CASE \E succeeds \in BOOLEAN : Preview(q, succeeds)
    BY <2>3 DEF Preview
  <2>4. CASE \E a \in Approval : CreateApproval(q, a)
    BY <2>4 DEF CreateApproval
  <2>5. CASE CheckApproval(q)
    BY <2>5 DEF CheckApproval
  <2>6. CASE SelectKey(q) \/ InsertKey(q) \/ SendUpstream(q)
    BY <2>6 DEF SelectKey, InsertKey, SendUpstream
  <2>7. CASE ReceiveReply(q) \/ CompleteKey(q) \/ FailKey(q)
    BY <2>7 DEF ReceiveReply, CompleteKey, FailKey
  <2>8. CASE LinkApproval(q)
    BY <2>8 DEF LinkApproval
  <2>9. QED
    BY <1>3, <2>1, <2>2, <2>3, <2>4, <2>5, <2>6, <2>7, <2>8 DEF Handle
<1>4. ASSUME NEW q \in Request, LoseReply(q) \/ DbError(q)
      PROVE  UNCHANGED upstream /\ (pc'[r] \in Cleared => pc[r] \in Cleared)
  BY <1>4 DEF LoseReply, DbError
<1>5. ASSUME NEW q \in Request, NEW outcome \in {"applied", "rejected"},
             UpstreamAnswers(q, outcome)
      PROVE  UNCHANGED pc /\ (upstream[r] = "none" => upstream'[r] = "none")
  BY <1>5 DEF UpstreamAnswers
<1>6. CASE Crash
  BY <1>6 DEF Crash
<1>7. ASSUME \/ \E a \in Approval : Approve(a)
             \/ \E act \in Action, required \in BOOLEAN :
                   SetPolicy(act, required)
             \/ UNCHANGED vars
      PROVE  UNCHANGED <<pc, upstream>>
  BY <1>7 DEF Approve, SetPolicy, vars
<1>8. QED
  BY <1>1, <1>2, <1>3, <1>4, <1>5, <1>6, <1>7 DEF Next

LEMMA AuthorisedInvNext ==
  TypeInv /\ AuthorisedInv /\ [Next]_vars => AuthorisedInv'
<1> SUFFICES ASSUME TypeInv, AuthorisedInv, [Next]_vars PROVE AuthorisedInv'
  OBVIOUS
<1>1. WaiverInv'
  BY WaiverStep DEF AuthorisedInv
<1>2. Keeps
  BY StepKeeps
<1>3. ASSUME NEW r \in Request, pc'[r] \in Cleared \/ upstream'[r] # "none"
      PROVE  Authorised(r)'
  <2>1. CASE pc[r] \in Cleared \/ upstream[r] # "none"
    <3>1. pc[r] # "idle"
      BY <2>1 DEF TypeInv, ControlInv, Cleared, BeforeCall
    <3>2. Authorised(r)
      BY <2>1 DEF AuthorisedInv
    <3>3. QED
      BY <1>2, <3>1, <3>2, AuthorisedLasts
  <2>2. CASE ~(pc[r] \in Cleared \/ upstream[r] # "none")
    <3>1. ReadPolicy(r) \/ CheckApproval(r)
      BY <1>3, <2>2, ClearingSteps DEF Cleared
    <3>2. Authorised(r)
      <4>1. CASE ReadPolicy(r)
        <5>1. pc'[r] = AfterPolicy(r, RequireApproval(call[r].action))
          BY <4>1 DEF ReadPolicy, Goto, TypeInv, TypeOK
        <5>2. pc'[r] \in Cleared
          BY <1>3, <2>2, <4>1 DEF ReadPolicy
        <5>3. call[r].tool \in Tool /\ call[r].action \in Action
          BY DEF TypeInv, TypeOK, Call
        <5>4. ~RequireApproval(call[r].action)
          BY <5>1, <5>2, <5>3 DEF AfterPolicy, Cleared, Tool, Action
        <5>5. QED
          BY <5>4 DEF RequireApproval, AuthorisedInv, WaiverInv, Authorised,
             TypeInv, TypeOK, Call, Action
      <4>2. CASE CheckApproval(r)
        <5>1. ApprovalUsable(call[r].approval, call[r].action)
          BY <1>3, <2>2, <4>2 DEF CheckApproval, Goto, Cleared, TypeInv, TypeOK,
             tables, own
        <5>2. call[r].approval # NoApproval
          BY <4>2, ConstantsAssumption DEF CheckApproval, TypeInv, ControlInv
        <5>3. QED
          BY <5>1, <5>2 DEF Authorised
      <4>3. QED
        BY <3>1, <4>1, <4>2
    <3>3. pc[r] # "idle"
      BY <3>1 DEF ReadPolicy, CheckApproval
    <3>4. QED
      BY <1>2, <3>2, <3>3, AuthorisedLasts
  <2>3. QED
    BY <2>1, <2>2
<1>4. QED
  BY <1>1, <1>3 DEF AuthorisedInv

LEMMA AuthorisedInvCorrect == Spec => []AuthorisedInv
<1>1. Init => AuthorisedInv
  BY DEF Init, AuthorisedInv, WaiverInv, Cleared
<1>2. QED
  BY <1>1, AuthorisedInvNext, TypeInvCorrect, PTL DEF Spec

\* The gateway never sends a cancellation or a salary run to the CRM without
\* a granted approval of that action (or, for the payroll, a waiver).
THEOREM EffectsAuthorised == Spec => []EffectsAreAuthorised
<1>1. AuthorisedInv => EffectsAreAuthorised
  BY DEF AuthorisedInv, EffectsAreAuthorised, ReachedUpstream
<1>2. QED
  BY <1>1, AuthorisedInvCorrect, PTL
-----------------------------------------------------------------------------
(* The stored answer *)

\* A COMPLETED row is written from a request at "complete", whose answer came
\* from the CRM; later steps keep the effect and the key of its author.
THEOREM StoredAnswer == Spec => []StoredAnswerIsReal
<1>1. Init => StoredAnswerIsReal
  BY DEF Init, StoredAnswerIsReal
<1>2. TypeInv /\ StoredAnswerIsReal /\ [Next]_vars => StoredAnswerIsReal'
  <2> SUFFICES ASSUME TypeInv, StoredAnswerIsReal, [Next]_vars,
                      NEW k \in Key, keys'[k].status = "COMPLETED"
               PROVE  /\ keys'[k].body \in Effects'
                      /\ call'[keys'[k].body].key = k
    BY DEF StoredAnswerIsReal
  <2>1. Keeps
    BY StepKeeps
  <2>2. ASSUME NEW e \in Effects, call[e].key = k
        PROVE  e \in Effects' /\ call'[e].key = k
    BY <2>1, <2>2 DEF Effects, Keeps, Committed, TypeInv, ControlInv, BeforeCall
  <2>3. \/ keys'[k] = keys[k]
        \/ \E r \in Request : CompleteKey(r) /\ call[r].key = k
    <3> USE DEF tables, own, TypeInv, TypeOK, Goto
    <3>1. ASSUME NEW r \in Request, Start(r) PROVE keys' = keys
      BY <3>1 DEF Start, StartPlan, StartApply, StartAlias, Arrive
    <3>2. ASSUME NEW r \in Request, Handle(r)
          PROVE  \/ keys'[k] = keys[k]
                 \/ CompleteKey(r) /\ call[r].key = k
      <4>1. CASE CompleteKey(r)
        BY <4>1 DEF CompleteKey
      <4>2. CASE InsertKey(r)
        BY <4>2 DEF InsertKey, KeyRow
      <4>3. CASE FailKey(r)
        BY <4>3 DEF FailKey, KeyRow
      <4>4. CASE UNCHANGED keys
        BY <4>4
      <4>5. QED
        BY <3>2, <4>1, <4>2, <4>3, <4>4 DEF Handle, ReadDetails, ReadPolicy,
           Preview, CreateApproval, CheckApproval, SelectKey, SendUpstream,
           ReceiveReply, LinkApproval
    <3>3. ASSUME \/ \E r \in Request : LoseReply(r) \/ DbError(r)
                 \/ \E r \in Request, outcome \in {"applied", "rejected"} :
                      UpstreamAnswers(r, outcome)
                 \/ Crash
                 \/ \E a \in Approval : Approve(a)
                 \/ \E act \in Action, required \in BOOLEAN :
                      SetPolicy(act, required)
                 \/ UNCHANGED vars
          PROVE  keys' = keys
      BY <3>3 DEF LoseReply, DbError, UpstreamAnswers, Crash, Approve,
         SetPolicy, vars
    <3>4. QED
      BY <3>1, <3>2, <3>3 DEF Next
  <2>4. CASE keys'[k] = keys[k]
    BY <2>2, <2>4 DEF StoredAnswerIsReal
  <2>5. ASSUME NEW r \in Request, CompleteKey(r), call[r].key = k
        PROVE  /\ keys'[k].body \in Effects'
               /\ call'[keys'[k].body].key = k
    <3>1. r \in Effects /\ result[r] = r
      BY <2>5 DEF CompleteKey, TypeInv, ControlInv, Effects
    <3>2. keys'[k].body = r
      BY <2>5, <3>1 DEF CompleteKey, TypeInv, TypeOK
    <3>3. QED
      BY <2>2, <2>5, <3>1, <3>2
  <2>6. QED
    BY <2>3, <2>4, <2>5
<1>3. QED
  BY <1>1, <1>2, TypeInvCorrect, PTL DEF Spec

-----------------------------------------------------------------------------
(* Answers of the apply tools *)

\* r holds the answer to an effect of its own key.
Answered(r) == /\ call[r].key \in Key
               /\ result[r] \in Effects
               /\ call[result[r]].key = call[r].key

\* Plans never get as far as the idempotency key; whoever has left it without
\* an error is answered.
AnswerInv ==
  \A r \in Request :
    /\ pc[r] \in {"preview", "create"} => ~Applies(r)
    /\ pc[r] \in {"details", "approval", "select", "insert", "call", "reply",
                  "complete", "fail", "link"} => Applies(r)
    /\ (pc[r] = "link" \/ (pc[r] = "ok" /\ Applies(r))) => Answered(r)

\* A handler moves its own request only.
LEMMA HandleAlone ==
  ASSUME TypeInv, NEW r \in Request, NEW q \in Request, r # q, Handle(r)
  PROVE  pc'[q] = pc[q] /\ result'[q] = result[q]
BY DEF TypeInv, TypeOK, Goto, tables, own, Handle, ReadDetails, ReadPolicy,
   Preview, CreateApproval, CheckApproval, SelectKey, InsertKey, SendUpstream,
   ReceiveReply, CompleteKey, FailKey, LinkApproval

\* How a step can change the position or the result of one request.
LEMMA OwnSteps ==
  ASSUME TypeInv, [Next]_vars, NEW q \in Request
  PROVE  \/ pc'[q] = pc[q] /\ result'[q] = result[q]
         \/ Start(q) \/ Handle(q)
         \/ pc[q] \in {"call", "reply", "complete"} /\ pc'[q] = "fail"
         \/ pc[q] \in Waiting /\ pc'[q] \in {"thrown", "lost"}
<1> USE DEF TypeInv, TypeOK, Goto, tables, own
<1>1. ASSUME NEW r \in Request, r # q, Start(r)
      PROVE  pc'[q] = pc[q] /\ result'[q] = result[q]
  BY <1>1 DEF Start, StartPlan, StartApply, StartAlias, Arrive
<1>2. ASSUME NEW r \in Request, r # q, Handle(r)
      PROVE  pc'[q] = pc[q] /\ result'[q] = result[q]
  BY <1>2, HandleAlone
<1>3. ASSUME NEW r \in Request, LoseReply(r) \/ DbError(r)
      PROVE  \/ pc'[q] = pc[q] /\ result'[q] = result[q]
             \/ pc[q] \in {"call", "reply", "complete"} /\ pc'[q] = "fail"
             \/ pc[q] \in Waiting /\ pc'[q] = "thrown"
  BY <1>3 DEF LoseReply, DbError, Waiting
<1>4. CASE Crash
  BY <1>4 DEF Crash
<1>5. ASSUME \/ \E r \in Request, outcome \in {"applied", "rejected"} :
                   UpstreamAnswers(r, outcome)
             \/ \E a \in Approval : Approve(a)
             \/ \E act \in Action, required \in BOOLEAN :
                  SetPolicy(act, required)
             \/ UNCHANGED vars
      PROVE  pc'[q] = pc[q] /\ result'[q] = result[q]
  BY <1>5 DEF UpstreamAnswers, Approve, SetPolicy, vars
<1>6. QED
  BY <1>1, <1>2, <1>3, <1>4, <1>5 DEF Next

LEMMA AnswerInvNext ==
  ASSUME TypeInv, StoredAnswerIsReal, AnswerInv, [Next]_vars
  PROVE  AnswerInv'
<1> SUFFICES ASSUME NEW q \in Request
             PROVE  /\ pc'[q] \in {"preview", "create"} => ~Applies(q)'
                    /\ pc'[q] \in {"details", "approval", "select", "insert",
                                   "call", "reply", "complete", "fail", "link"}
                         => Applies(q)'
                    /\ (pc'[q] = "link" \/ (pc'[q] = "ok" /\ Applies(q)'))
                         => Answered(q)'
  BY DEF AnswerInv
<1>1. Keeps
  BY StepKeeps
<1>2. pc[q] # "idle" => /\ Applies(q)' <=> Applies(q)
                        /\ call'[q].key = call[q].key
  BY <1>1 DEF Keeps, Committed, Applies
<1>3. ASSUME NEW e \in Effects
      PROVE  e \in Effects' /\ call'[e].key = call[e].key
  BY <1>1, <1>3 DEF Effects, Keeps, Committed, TypeInv, ControlInv, BeforeCall
<1>4. CASE pc'[q] = pc[q] /\ result'[q] = result[q]
  BY <1>2, <1>3, <1>4 DEF AnswerInv, Answered
<1>5. CASE Start(q)
  <2>1. /\ pc'[q] \in {"policy", "details", "error"}
        /\ pc'[q] = "details" => call'[q].tool = "alias"
    <3> USE DEF Arrive, Goto, TypeInv, TypeOK
    <3>1. CASE \E act \in Action, t \in Target : StartPlan(q, act, t)
      BY <3>1 DEF StartPlan
    <3>2. CASE \E act \in Action, t \in Target, k \in Key \cup {NoKey},
                 a \in Approval \cup {NoApproval} : StartApply(q, act, t, k, a)
      BY <3>2 DEF StartApply
    <3>3. CASE \E t \in Target, k \in Key \cup {NoKey},
                 a \in Approval \cup {NoApproval} : StartAlias(q, t, k, a)
      BY <3>3 DEF StartAlias
    <3>4. QED
      BY <1>5, <3>1, <3>2, <3>3 DEF Start
  <2>2. QED
    BY <2>1 DEF Applies
<1>6. CASE Handle(q)
  <2> USE DEF TypeInv, TypeOK, Goto, tables, own
  <2>1. pc[q] # "idle"
    BY <1>6 DEF Handle, ReadDetails, ReadPolicy, Preview, CreateApproval,
       CheckApproval, SelectKey, InsertKey, SendUpstream, ReceiveReply,
       CompleteKey, FailKey, LinkApproval
  <2>2. CASE ReadDetails(q)
    BY <1>2, <2>1, <2>2 DEF ReadDetails, AnswerInv
  <2>3. CASE ReadPolicy(q)
    <3>1. pc'[q] = AfterPolicy(q, RequireApproval(call[q].action))
      BY <2>3 DEF ReadPolicy
    <3>2. call[q].tool \in Tool /\ call[q].action \in Action
      BY DEF Call
    <3>3. QED
      BY <1>2, <2>1, <3>1, <3>2 DEF AfterPolicy, Applies, Tool, Action
  <2>4. CASE (\E succeeds \in BOOLEAN : Preview(q, succeeds))
               \/ \E a \in Approval : CreateApproval(q, a)
    BY <1>2, <2>1, <2>4 DEF Preview, CreateApproval, AnswerInv
  <2>5. CASE CheckApproval(q) \/ InsertKey(q) \/ SendUpstream(q) \/ FailKey(q)
               \/ ReceiveReply(q)
    BY <1>2, <2>1, <2>5 DEF CheckApproval, InsertKey, SendUpstream, FailKey,
       ReceiveReply, AnswerInv
  <2>6. CASE SelectKey(q)
    <3>1. call[q].key \in Key /\ pc[q] = "select"
      BY <2>6 DEF SelectKey, ControlInv
    <3>2. Applies(q)' /\ pc'[q] \notin {"preview", "create"}
      BY <1>2, <2>6, <3>1 DEF SelectKey, AnswerInv, AfterApply, KeyRow
    <3>3. CASE keys[call[q].key].status = "COMPLETED"
      <4>1. result'[q] = keys[call[q].key].body
        BY <2>6, <3>3 DEF SelectKey
      <4>2. result'[q] \in Effects /\ call[result'[q]].key = call[q].key
        BY <3>1, <3>3, <4>1 DEF StoredAnswerIsReal
      <4>3. QED
        BY <1>2, <1>3, <3>1, <3>2, <4>2 DEF Answered
    <3>4. CASE keys[call[q].key].status # "COMPLETED"
      BY <2>6, <3>1, <3>2, <3>4 DEF SelectKey, KeyRow
    <3>5. QED
      BY <3>3, <3>4
  <2>7. CASE CompleteKey(q)
    <3>1. call[q].key \in Key /\ result[q] = q /\ q \in Effects
      BY <2>7 DEF CompleteKey, ControlInv, Effects
    <3>2. result'[q] = q
      BY <2>7, <3>1 DEF CompleteKey
    <3>3. Applies(q)' /\ pc'[q] \in {"link", "ok"}
      BY <1>2, <2>1, <2>7 DEF CompleteKey, AnswerInv, AfterApply
    <3>4. QED
      BY <1>2, <1>3, <2>1, <3>1, <3>2, <3>3 DEF Answered
  <2>8. CASE LinkApproval(q)
    <3>1. Answered(q) /\ result'[q] = result[q] /\ pc'[q] = "ok"
      BY <2>8 DEF LinkApproval, AnswerInv
    <3>2. QED
      BY <1>2, <1>3, <2>1, <3>1 DEF Answered
  <2>9. QED
    BY <1>6, <2>2, <2>3, <2>4, <2>5, <2>6, <2>7, <2>8 DEF Handle
<1>7. CASE pc[q] \in {"call", "reply", "complete"} /\ pc'[q] = "fail"
  BY <1>2, <1>7 DEF AnswerInv
<1>8. CASE pc'[q] \in {"thrown", "lost"}
  BY <1>8
<1>9. QED
  BY <1>4, <1>5, <1>6, <1>7, <1>8, OwnSteps

LEMMA AnswerInvCorrect == Spec => []AnswerInv
<1>1. Init => AnswerInv
  BY DEF Init, AnswerInv
<1>2. QED
  BY <1>1, AnswerInvNext, TypeInvCorrect, StoredAnswer, PTL DEF Spec

\* A caller of an apply tool that keeps its key for one operation and is
\* answered "ok" can rely on the CRM having carried that operation out: its
\* answer is that of a call with its key, whatever overlapped or failed.
THEOREM OkIsApplied == Spec => []OkMeansApplied
<1>1. TypeInv /\ AnswerInv => OkMeansApplied
  <2> SUFFICES ASSUME TypeInv, AnswerInv, NEW r \in Request,
                      pc[r] = "ok", Applies(r), OneOperation(r)
               PROVE  \E e \in Effects : SameOperation(call[e], call[r])
    BY DEF OkMeansApplied
  <2>1. Answered(r)
    BY DEF AnswerInv
  <2>2. result[r] \in Request /\ pc[result[r]] # "idle"
    BY <2>1 DEF Answered, Effects, TypeInv, ControlInv, BeforeCall
  <2>3. QED
    BY <2>1, <2>2 DEF Answered, OneOperation
<1>2. QED
  BY <1>1, TypeInvCorrect, AnswerInvCorrect, PTL

-----------------------------------------------------------------------------
(* The target of the alias *)

\* The positions of an alias that has not read its approval, or is over.
OffPlan == {"idle", "details", "error", "thrown", "lost"}

\* r works on the target its approval was planned for.
OnPlan(r) == /\ call[r].approval \in Approval
             /\ approvals[call[r].approval].status # "ABSENT"
             /\ call[r].target = approvals[call[r].approval].target

\* The target is read several awaits before the call; neither the row nor the
\* copy of it may change in between.
AliasInv ==
  \A r \in Request :
    call[r].tool = "alias" /\ (pc[r] \notin OffPlan \/ upstream[r] # "none")
      => OnPlan(r)

\* A row of the approvals table keeps the target it was created with.
LEMMA RowKeepsTarget ==
  ASSUME TypeInv, [Next]_vars, NEW a \in Approval, approvals[a].status # "ABSENT"
  PROVE  approvals'[a].status # "ABSENT" /\ approvals'[a].target = approvals[a].target
<1> USE DEF TypeInv, TypeOK, ApprovalRow
<1>1. ASSUME NEW r \in Request, NEW b \in Approval, CreateApproval(r, b)
      PROVE  approvals'[a] = approvals[a]
  BY <1>1 DEF CreateApproval, FreshApproval
<1>2. ASSUME NEW r \in Request, LinkApproval(r)
      PROVE  /\ approvals'[a].status = approvals[a].status
             /\ approvals'[a].target = approvals[a].target
  BY <1>2 DEF LinkApproval
<1>3. ASSUME NEW b \in Approval, Approve(b)
      PROVE  /\ approvals'[a].status \in {approvals[a].status, "APPROVED"}
             /\ approvals'[a].target = approvals[a].target
  BY <1>3 DEF Approve
<1>4. CASE approvals' = approvals
  BY <1>4
<1>5. \/ approvals' = approvals
      \/ \E r \in Request : LinkApproval(r) \/ \E b \in Approval : CreateApproval(r, b)
      \/ \E b \in Approval : Approve(b)
  BY ZenonT(40) DEF Next, Start, StartPlan, StartApply, StartAlias, Arrive, Handle,
     ReadDetails, ReadPolicy, Preview, CheckApproval, SelectKey, InsertKey,
     SendUpstream, ReceiveReply, CompleteKey, FailKey, LoseReply, DbError,
     UpstreamAnswers, Crash, SetPolicy, vars, tables
<1> QED BY <1>1, <1>2, <1>3, <1>4, <1>5

\* Nothing but its arrival and the read of its approval sets a target.
LEMMA CallKeepsTarget ==
  ASSUME TypeInv, [Next]_vars, NEW r \in Request, pc[r] \notin {"idle", "details"}
  PROVE  call'[r].target = call[r].target
<1>1. \/ call' = call
      \/ \E q \in Request \ {r} : \E c : call' = [call EXCEPT ![q] = c]
  <2> USE DEF tables, own
  <2>1. ASSUME NEW q \in Request, Start(q)
        PROVE  q # r /\ \E c : call' = [call EXCEPT ![q] = c]
    BY <2>1 DEF Start, StartPlan, StartApply, StartAlias, Arrive
  <2>2. ASSUME NEW q \in Request, ReadDetails(q)
        PROVE  \/ call' = call
               \/ q # r /\ \E c : call' = [call EXCEPT ![q] = c]
    BY <2>2 DEF ReadDetails
  <2>3. \/ call' = call
        \/ \E q \in Request : Start(q) \/ ReadDetails(q)
    BY DEF Next, Handle, ReadPolicy, Preview, CreateApproval, CheckApproval,
       SelectKey, InsertKey, SendUpstream, ReceiveReply, CompleteKey, FailKey,
       LinkApproval, LoseReply, DbError, UpstreamAnswers, Crash, Approve,
       SetPolicy, vars
  <2> QED BY <2>1, <2>2, <2>3
<1> QED BY <1>1 DEF TypeInv, TypeOK

LEMMA OnPlanLasts ==
  ASSUME TypeInv, [Next]_vars, NEW r \in Request, pc[r] \notin {"idle", "details"},
         OnPlan(r)
  PROVE  OnPlan(r)'
<1>1. call'[r].approval = call[r].approval
  BY StepKeeps DEF Keeps, Committed
<1>2. call'[r].target = call[r].target
  BY CallKeepsTarget
<1> QED BY <1>1, <1>2, RowKeepsTarget DEF OnPlan

LEMMA AliasInvNext ==
  ASSUME TypeInv, AliasInv, [Next]_vars PROVE AliasInv'
<1> SUFFICES ASSUME NEW r \in Request, call'[r].tool = "alias",
                    pc'[r] \notin OffPlan \/ upstream'[r] # "none"
             PROVE  OnPlan(r)'
  BY DEF AliasInv
<1>1. pc[r] # "idle" => call'[r].tool = call[r].tool
  BY StepKeeps DEF Keeps, Committed
<1>2. upstream'[r] # "none" /\ upstream[r] = "none" => pc[r] = "call"
  BY ClearingSteps
<1>3. CASE pc[r] \notin OffPlan \/ upstream[r] # "none"
  <2>1. pc[r] \notin {"idle", "details"}
    BY <1>3 DEF OffPlan, TypeInv, ControlInv, BeforeCall
  <2>2. OnPlan(r)
    BY <1>1, <1>3, <2>1 DEF AliasInv
  <2> QED BY <2>1, <2>2, OnPlanLasts
<1>4. CASE pc[r] \in OffPlan /\ upstream[r] = "none"
  <2>1. upstream'[r] = "none" /\ pc'[r] \notin OffPlan
    BY <1>2, <1>4 DEF OffPlan
  <2>2. Start(r) \/ Handle(r)
    BY <1>4, <2>1, OwnSteps DEF OffPlan
  <2>3. ~Start(r)
    <3> USE DEF Arrive, Goto, TypeInv, TypeOK
    <3>1. \A act \in Action, t \in Target : ~StartPlan(r, act, t)
      BY DEF StartPlan
    <3>2. \A act \in Action, t \in Target, k \in Key \cup {NoKey},
             a \in Approval \cup {NoApproval} : ~StartApply(r, act, t, k, a)
      BY DEF StartApply
    <3>3. \A t \in Target, k \in Key \cup {NoKey},
             a \in Approval \cup {NoApproval} : ~StartAlias(r, t, k, a)
      BY <2>1 DEF StartAlias, OffPlan
    <3> QED BY <3>1, <3>2, <3>3 DEF Start
  <2>4. ReadDetails(r)
    BY <1>4, <2>2, <2>3 DEF OffPlan, Handle, ReadPolicy, Preview, CreateApproval,
       CheckApproval, SelectKey, InsertKey, SendUpstream, ReceiveReply,
       CompleteKey, FailKey, LinkApproval
  <2>5. pc[r] = "details" /\ call[r].approval \in Approval
    BY <2>4 DEF ReadDetails, TypeInv, ControlInv
  <2>6. /\ approvals[call[r].approval].status # "ABSENT"
        /\ call'[r].target = approvals[call[r].approval].target
    BY <2>1, <2>4, <2>5 DEF ReadDetails, OffPlan, Goto, TypeInv, TypeOK, Call
  <2>7. call'[r].approval = call[r].approval /\ approvals' = approvals
    BY <2>4, ReadDetailsKeepsRest DEF ReadDetails, tables, TypeInv
  <2> QED BY <2>5, <2>6, <2>7 DEF OnPlan
<1> QED BY <1>3, <1>4

\* The alias cancels the appointment its approval was planned for, whatever
\* appointment its caller names and however many awaits lie between the read
\* of the approval and the call.
THEOREM AliasTarget == Spec => []AliasHitsPlannedTarget
<1>1. Init => AliasInv
  BY DEF Init, AliasInv, OffPlan
<1>2. AliasInv => AliasHitsPlannedTarget
  BY DEF AliasInv, AliasHitsPlannedTarget, OnPlan, ReachedUpstream
<1> QED BY <1>1, <1>2, AliasInvNext, TypeInvCorrect, PTL DEF Spec
-----------------------------------------------------------------------------
(* Refinement of the registry's promise *)

\* What every step but four leaves alone.
LEMMA AbstractStutter ==
  ASSUME TypeInv, UNCHANGED <<approvals, upstream, everWaived>>,
         \A r \in Request : upstream[r] = "applied" =>
            call'[r].action = call[r].action
  PROVE  UNCHANGED Guard!abstractVars
BY DEF Guard!abstractVars, PlannedAction, PerformedAction, Granted, TypeInv,
   TypeOK

\* The four steps the registry sees, one by one.
LEMMA CreateApprovalPlans ==
  ASSUME TypeInv, NEW r \in Request, NEW a \in Approval, CreateApproval(r, a)
  PROVE  Guard!Plan(a, call[r].action)
<1>1. call[r].action \in Action
  BY DEF TypeInv, TypeOK, Call
<1>2. PlannedAction[a] = "none"
  BY DEF PlannedAction, CreateApproval, FreshApproval
<1>3. PlannedAction' = [PlannedAction EXCEPT ![a] = call[r].action]
  BY DEF PlannedAction, CreateApproval, TypeInv, TypeOK
<1>4. Granted' = Granted
  BY DEF Granted, CreateApproval, FreshApproval, TypeInv, TypeOK
<1>5. UNCHANGED <<everWaived, PerformedAction>>
  BY DEF PerformedAction, CreateApproval, own
<1>6. QED
  BY <1>2, <1>3, <1>4, <1>5 DEF Guard!Plan

LEMMA ApproveGrants ==
  ASSUME TypeInv, NEW a \in Approval, Approve(a)
  PROVE  Guard!Grant(a)
<1>1. PlannedAction[a] # "none"
  BY DEF PlannedAction, Approve, TypeInv, TypeOK, ApprovalRow, Action, Cancel,
     Salary
<1>2. PlannedAction' = PlannedAction
  <2>1. \A b \in Approval : /\ approvals'[b].action = approvals[b].action
                            /\ approvals'[b].status = "ABSENT"
                                 <=> approvals[b].status = "ABSENT"
    BY DEF Approve, TypeInv, TypeOK, ApprovalRow
  <2>2. QED
    BY <2>1 DEF PlannedAction
<1>3. Granted' = Granted \cup {a}
  BY DEF Granted, Approve, TypeInv, TypeOK, ApprovalRow
<1>4. UNCHANGED <<everWaived, PerformedAction>>
  BY DEF PerformedAction, Approve, own
<1>5. QED
  BY <1>1, <1>2, <1>3, <1>4 DEF Guard!Grant

LEMMA SetPolicyWaives ==
  ASSUME TypeInv, NEW act \in Action, NEW required \in BOOLEAN,
         SetPolicy(act, required)
  PROVE  Guard!Waive(Salary) \/ UNCHANGED Guard!abstractVars
<1>1. UNCHANGED <<PlannedAction, Granted, PerformedAction>>
  BY DEF SetPolicy, own, PlannedAction, Granted, PerformedAction
<1>2. everWaived' \ {Cancel} \in
        {everWaived \ {Cancel}, (everWaived \ {Cancel}) \cup {Salary}}
  BY DEF SetPolicy, Action, Cancel, Salary
<1>3. QED
  BY <1>1, <1>2 DEF Guard!Waive, Guard!abstractVars

LEMMA UpstreamPerforms ==
  ASSUME TypeInv, AuthorisedInv, NEW r \in Request, UpstreamAnswers(r, "applied")
  PROVE  Guard!Perform(r, call[r].action)
<1>1. PerformedAction[r] = "none"
  BY DEF PerformedAction, UpstreamAnswers
<1>2. PerformedAction' = [PerformedAction EXCEPT ![r] = call[r].action]
  BY DEF PerformedAction, UpstreamAnswers, own, TypeInv, TypeOK
<1>3. UNCHANGED <<PlannedAction, Granted, everWaived>>
  BY DEF PlannedAction, Granted, UpstreamAnswers, tables
<1>4. Authorised(r)
  BY DEF AuthorisedInv, UpstreamAnswers
<1>5. Guard!MayPerform(call[r].action)
  <2>1. CASE call[r].action # Cancel /\ call[r].action \in everWaived
    BY <2>1 DEF Guard!MayPerform
  <2>2. CASE /\ call[r].approval # NoApproval
             /\ ApprovalUsable(call[r].approval, call[r].action)
    <3>1. call[r].approval \in Approval
      BY <2>2 DEF TypeInv, TypeOK, Call
    <3>2. QED
      BY <2>2, <3>1 DEF Guard!MayPerform, ApprovalUsable, Granted, PlannedAction
  <2>3. QED
    BY <1>4, <2>1, <2>2 DEF Authorised
<1>6. QED
  BY <1>1, <1>2, <1>3, <1>5 DEF Guard!Perform
LEMMA GuardStep ==
  TypeInv /\ AuthorisedInv /\ [Next]_vars => [Guard!Next]_Guard!abstractVars
<1> SUFFICES ASSUME TypeInv, AuthorisedInv, [Next]_vars
             PROVE  Guard!Next \/ UNCHANGED Guard!abstractVars
  OBVIOUS
<1>1. ASSUME NEW r \in Request, Start(r) PROVE UNCHANGED Guard!abstractVars
  <2>1. /\ UNCHANGED <<approvals, upstream, everWaived>>
        /\ upstream[r] # "applied"
        /\ \E c : call' = [call EXCEPT ![r] = c]
    BY <1>1 DEF Start, StartPlan, StartApply, StartAlias, Arrive, tables,
       TypeInv, ControlInv, BeforeCall
  <2>2. QED
    BY <2>1, AbstractStutter DEF TypeInv, TypeOK
<1>2. ASSUME NEW r \in Request, Handle(r)
      PROVE  Guard!Next \/ UNCHANGED Guard!abstractVars
  <2>1. CASE ReadDetails(r)
    BY <2>1, AbstractStutter, ReadDetailsKeepsRest DEF ReadDetails, tables, TypeInv
  <2>2. ASSUME NEW a \in Approval, CreateApproval(r, a) PROVE Guard!Next
    <3>1. Guard!Plan(a, call[r].action)
      BY <2>2, CreateApprovalPlans
    <3>2. call[r].action \in Action
      BY DEF TypeInv, TypeOK, Call
    <3>3. QED
      BY <3>1, <3>2 DEF Guard!Next
  <2>3. CASE SendUpstream(r)
    <3>1. upstream[r] = "none" /\ upstream' = [upstream EXCEPT ![r] = "sent"]
      BY <2>3 DEF SendUpstream, TypeInv, ControlInv, BeforeCall
    <3>2. UNCHANGED <<approvals, everWaived, call>>
      BY <2>3 DEF SendUpstream, tables, own
    <3>3. QED
      BY <3>1, <3>2 DEF Guard!abstractVars, PlannedAction, PerformedAction,
         Granted, TypeInv, TypeOK
  <2>4. CASE LinkApproval(r)
    <3>1. UNCHANGED <<everWaived, call, upstream>>
      BY <2>4 DEF LinkApproval, own
    <3>2. \A a \in Approval : /\ approvals'[a].status = approvals[a].status
                              /\ approvals'[a].action = approvals[a].action
      BY <2>4 DEF LinkApproval, TypeInv, TypeOK, ApprovalRow
    <3>3. QED
      BY <3>1, <3>2 DEF Guard!abstractVars, PlannedAction, PerformedAction,
         Granted
  <2>5. CASE UNCHANGED <<approvals, upstream, everWaived, call>>
    BY <2>5, AbstractStutter
  <2>6. QED
    BY <1>2, <2>1, <2>2, <2>3, <2>4, <2>5 DEF Handle, ReadPolicy, Preview,
       CheckApproval, SelectKey, InsertKey, ReceiveReply, CompleteKey, FailKey,
       tables, own
<1>3. ASSUME \/ \E r \in Request : LoseReply(r) \/ DbError(r)
             \/ Crash
             \/ UNCHANGED vars
      PROVE  UNCHANGED Guard!abstractVars
  BY <1>3, AbstractStutter DEF LoseReply, DbError, Crash, vars, tables, own
<1>4. ASSUME NEW r \in Request, NEW outcome \in {"applied", "rejected"},
             UpstreamAnswers(r, outcome)
      PROVE  Guard!Next \/ UNCHANGED Guard!abstractVars
  <2>1. CASE outcome = "applied"
    <3>1. Guard!Perform(r, call[r].action)
      BY <1>4, <2>1, UpstreamPerforms
    <3>2. call[r].action \in Action
      BY DEF TypeInv, TypeOK, Call
    <3>3. QED
      BY <3>1, <3>2 DEF Guard!Next
  <2>2. CASE outcome = "rejected"
    <3>1. PerformedAction' = PerformedAction
      BY <1>4, <2>2 DEF UpstreamAnswers, own, PerformedAction, TypeInv, TypeOK
    <3>2. UNCHANGED <<approvals, everWaived>>
      BY <1>4 DEF UpstreamAnswers, tables
    <3>3. QED
      BY <3>1, <3>2 DEF Guard!abstractVars, PlannedAction, Granted
  <2>3. QED
    BY <2>1, <2>2
<1>5. ASSUME NEW a \in Approval, Approve(a) PROVE Guard!Next
  BY <1>5, ApproveGrants DEF Guard!Next
<1>6. ASSUME NEW act \in Action, NEW required \in BOOLEAN,
             SetPolicy(act, required)
      PROVE  Guard!Next \/ UNCHANGED Guard!abstractVars
  BY <1>6, SetPolicyWaives DEF Guard!Next, Action
<1>7. QED
  BY <1>1, <1>2, <1>3, <1>4, <1>5, <1>6 DEF Next

\* The gateway implements GuardedEffects: an administrator's grant, or for the
\* payroll a waiver, comes before every effect on the CRM.
THEOREM GuardRefinement == Spec => ImplementsGuardedEffects
<1>1. Init => Guard!Init
  BY DEF Init, Guard!Init, PlannedAction, PerformedAction, Granted
<1>2. QED
  BY <1>1, GuardStep, TypeInvCorrect, AuthorisedInvCorrect, PTL
     DEF Spec, ImplementsGuardedEffects, Guard!Spec
-----------------------------------------------------------------------------
(* At most one effect per key *)

\* The clients and the faults under which an idempotency key keeps its
\* promise.  Without the first, two calls both apply (run apply_key_overlap).
SerialAssumption == /\ ~Overlap
                    /\ Faults \subseteq {"crash"} \/ Faults \subseteq {"reject"}

\* Inside executeWithIdempotency, past the SELECT.
Busy == {"insert", "call", "reply", "complete", "fail"}

SameKey(r, q) == call[r].key = call[q].key

\* At most one live request per key.
OneLive == \A r, q \in Request :
  pc[r] \in Waiting /\ pc[q] \in Waiting /\ SameKey(r, q) /\ call[r].key \in Key
    => r = q

\* At most one call per key that the CRM has or will get.
OneReached == \A r, q \in Request :
  ReachedUpstream(r) /\ ReachedUpstream(q) /\ SameKey(r, q) => r = q

\* A request past the SELECT knows that nobody else's call reached the CRM.
BusyAlone == \A r, q \in Request :
  pc[q] \in Busy /\ ReachedUpstream(r) /\ SameKey(r, q) => r = q

\* ... and that the row does not tell the contrary.
BusyRow == \A q \in Request : pc[q] \in Busy =>
  /\ keys[call[q].key].status # "COMPLETED"
  /\ keys[call[q].key].status = "ABSENT" <=> pc[q] = "insert"

\* A call that reached the CRM is still being served, or the row refuses
\* every further attempt.
Recorded == \A r \in Request : ReachedUpstream(r) =>
  \/ pc[r] \in {"reply", "complete"}
  \/ keys[call[r].key].status \in {"PENDING", "COMPLETED"}

\* Only a refusal by the CRM makes an attempt fail.
OnlyRefusals ==
  /\ \A r \in Request : upstream[r] # "none" => call[r].key \in Key
  /\ \A r \in Request : pc[r] = "fail" => upstream[r] = "rejected"
  /\ \A r \in Request : upstream[r] = "rejected" => "reject" \in Faults
  /\ \A k \in Key : keys[k].status = "FAILED" => "reject" \in Faults

SerialInv == /\ OneLive /\ OneReached /\ BusyAlone
             /\ BusyRow /\ Recorded /\ OnlyRefusals

\* A step that changes neither the tables' keys nor what the CRM has, and
\* moves requests only out of or within the positions before Busy.
LEMMA QuietSerial ==
  ASSUME TypeInv, SerialInv, UNCHANGED <<keys, upstream>>,
         NEW r \in Request,
         \A q \in Request : pc'[q] # pc[q] => q = r,
         \A q \in Request : call'[q].key = call[q].key,
         pc[r] \in Waiting,
         pc[r] \notin {"reply", "complete"} \/ pc'[r] \in {"reply", "complete"},
         pc'[r] \in Busy => pc[r] = pc'[r]
  PROVE  SerialInv'
<1> USE DEF SerialInv, SameKey, ReachedUpstream
<1>1. OneLive'
  BY DEF OneLive
<1>2. OneReached'
  BY DEF OneReached
<1>3. BusyAlone'
  BY DEF BusyAlone
<1>4. BusyRow'
  BY DEF BusyRow
<1>5. Recorded'
  BY DEF Recorded
<1>6. OnlyRefusals'
  BY DEF OnlyRefusals, Busy
<1>7. QED
  BY <1>1, <1>2, <1>3, <1>4, <1>5, <1>6

LEMMA ArriveSerial ==
  ASSUME TypeInv, SerialInv, SerialAssumption, NEW r \in Request, NEW c \in Call,
         NEW first \in {"policy", "details", "error"}, Arrive(r, c, first)
  PROVE  SerialInv'
<1> USE DEF SerialInv, SameKey, ReachedUpstream, Arrive, Goto, tables, TypeInv,
            TypeOK
<1>0. upstream[r] = "none"
  BY DEF ControlInv, BeforeCall
<1>1. OneLive'
  BY ConstantsAssumption DEF OneLive, ClientAllows, SerialAssumption, Waiting
<1>2. OneReached'
  BY <1>0 DEF OneReached
<1>3. BusyAlone'
  BY <1>0 DEF BusyAlone, Busy
<1>4. BusyRow'
  BY DEF BusyRow, Busy
<1>5. Recorded'
  BY <1>0 DEF Recorded
<1>6. OnlyRefusals'
  BY <1>0 DEF OnlyRefusals
<1>7. QED
  BY <1>1, <1>2, <1>3, <1>4, <1>5, <1>6

LEMMA SelectSerial ==
  ASSUME TypeInv, SerialInv, NEW r \in Request, SelectKey(r)
  PROVE  SerialInv'
<1> USE DEF SerialInv, SameKey, ReachedUpstream, Goto, tables, TypeInv, TypeOK
<1> DEFINE k == call[r].key
<1>0. k \in Key /\ pc[r] = "select" /\ upstream[r] = "none"
  BY DEF SelectKey, ControlInv, BeforeCall
<1>1. /\ UNCHANGED <<keys, upstream, call>>
      /\ pc' = [pc EXCEPT ![r] = pc'[r]]
      /\ pc'[r] \in {"call", "insert"} => keys[k].status \notin {"COMPLETED", "PENDING"}
      /\ pc'[r] = "insert" <=> keys[k].status = "ABSENT"
      /\ pc'[r] \in {"link", "ok", "error", "call", "insert"}
  BY <1>0 DEF SelectKey, AfterApply, KeyRow
<1>2. pc'[r] \in {"call", "insert"} =>
        \A q \in Request : ReachedUpstream(q) => call[q].key # k
  BY <1>0, <1>1 DEF Recorded, OneLive, Waiting
<1>3. OneLive'
  BY <1>0, <1>1 DEF OneLive, Waiting
<1>4. OneReached'
  BY <1>1 DEF OneReached
<1>5. BusyAlone'
  BY <1>1, <1>2 DEF BusyAlone, Busy
<1>6. BusyRow'
  BY <1>1 DEF BusyRow, Busy
<1>7. Recorded'
  BY <1>0, <1>1 DEF Recorded
<1>8. OnlyRefusals'
  BY <1>1 DEF OnlyRefusals
<1>9. QED
  BY <1>3, <1>4, <1>5, <1>6, <1>7, <1>8

LEMMA InsertSerial ==
  ASSUME TypeInv, SerialInv, NEW r \in Request, InsertKey(r)
  PROVE  SerialInv'
<1> USE DEF SerialInv, SameKey, ReachedUpstream, Goto, own, TypeInv, TypeOK
<1> DEFINE k == call[r].key
<1>0. k \in Key /\ pc[r] = "insert" /\ keys[k].status = "ABSENT"
  BY DEF InsertKey, ControlInv, BusyRow, Busy
<1>1. /\ UNCHANGED <<upstream, call>>
      /\ pc' = [pc EXCEPT ![r] = "call"]
      /\ keys'[k].status = "PENDING"
      /\ \A j \in Key : j # k => keys'[j] = keys[j]
  BY <1>0 DEF InsertKey, KeyRow
<1>2. OneLive'
  BY <1>0, <1>1 DEF OneLive, Waiting
<1>3. OneReached'
  BY <1>1 DEF OneReached
<1>4. BusyAlone'
  BY <1>0, <1>1 DEF BusyAlone, Busy
<1>5. BusyRow'
  <2> SUFFICES ASSUME NEW q \in Request, pc'[q] \in Busy
               PROVE  /\ keys'[call[q].key].status # "COMPLETED"
                      /\ keys'[call[q].key].status = "ABSENT" <=> pc'[q] = "insert"
    BY <1>1 DEF BusyRow
  <2>1. CASE q = r
    BY <1>0, <1>1, <2>1
  <2>2. CASE q # r
    <3>1. pc[q] \in Busy /\ call[q].key \in Key
      BY <1>1, <2>2 DEF ControlInv, Busy
    <3>2. call[q].key # k
      BY <1>0, <2>2, <3>1 DEF OneLive, Waiting, Busy
    <3>3. QED
      BY <1>1, <2>2, <3>1, <3>2 DEF BusyRow
  <2>3. QED
    BY <2>1, <2>2
<1>6. Recorded'
  BY <1>0, <1>1 DEF Recorded, OnlyRefusals
<1>7. OnlyRefusals'
  BY <1>0, <1>1 DEF OnlyRefusals
<1>8. QED
  BY <1>2, <1>3, <1>4, <1>5, <1>6, <1>7

LEMMA SendSerial ==
  ASSUME TypeInv, SerialInv, NEW r \in Request, SendUpstream(r)
  PROVE  SerialInv'
<1> USE DEF SerialInv, SameKey, ReachedUpstream, Goto, own, tables, TypeInv, TypeOK
<1>0. call[r].key \in Key /\ pc[r] = "call"
  BY DEF SendUpstream, ControlInv
<1>1. /\ UNCHANGED <<keys, call>>
      /\ pc' = [pc EXCEPT ![r] = "reply"]
      /\ upstream' = [upstream EXCEPT ![r] = "sent"]
  BY DEF SendUpstream
<1>2. OneLive'
  BY <1>0, <1>1 DEF OneLive, Waiting
<1>3. OneReached'
  BY <1>0, <1>1 DEF OneReached, BusyAlone, Busy
<1>4. BusyAlone'
  <2> SUFFICES ASSUME NEW p \in Request, NEW q \in Request, pc'[q] \in Busy,
                      ReachedUpstream(p)', SameKey(p, q)
               PROVE  p = q
    BY <1>1 DEF BusyAlone
  <2>1. pc[q] \in Busy /\ call[q].key \in Key
    BY <1>0, <1>1 DEF ControlInv, Busy
  <2>2. CASE p = r
    BY <1>0, <2>1, <2>2 DEF OneLive, Waiting, Busy
  <2>3. CASE p # r
    BY <1>1, <2>1, <2>3 DEF BusyAlone
  <2>4. QED
    BY <2>2, <2>3
<1>5. BusyRow'
  BY <1>0, <1>1 DEF BusyRow, Busy
<1>6. Recorded'
  BY <1>0, <1>1 DEF Recorded
<1>7. OnlyRefusals'
  BY <1>0, <1>1 DEF OnlyRefusals
<1>8. QED
  BY <1>2, <1>3, <1>4, <1>5, <1>6, <1>7

LEMMA ReplySerial ==
  ASSUME TypeInv, SerialInv, NEW r \in Request, ReceiveReply(r)
  PROVE  SerialInv'
<1> USE DEF SerialInv, SameKey, ReachedUpstream, Goto, tables, TypeInv, TypeOK
<1>1. /\ UNCHANGED <<keys, call, upstream>>
      /\ pc[r] = "reply"
      /\ \/ pc' = [pc EXCEPT ![r] = "complete"] /\ upstream[r] = "applied"
         \/ pc' = [pc EXCEPT ![r] = "fail"] /\ upstream[r] = "rejected"
  BY DEF ReceiveReply
<1>2. OneLive'
  BY <1>1 DEF OneLive, Waiting
<1>3. OneReached'
  BY <1>1 DEF OneReached
<1>4. BusyAlone'
  BY <1>1 DEF BusyAlone, Busy
<1>5. BusyRow'
  BY <1>1 DEF BusyRow, Busy
<1>6. Recorded'
  BY <1>1 DEF Recorded
<1>7. OnlyRefusals'
  BY <1>1 DEF OnlyRefusals
<1>8. QED
  BY <1>2, <1>3, <1>4, <1>5, <1>6, <1>7

\* The two steps that end an attempt differ in the status they write.
LEMMA EndSerial ==
  ASSUME TypeInv, SerialInv, NEW r \in Request, NEW status, NEW next,
         UNCHANGED <<upstream, call>>,
         pc[r] \in {"complete", "fail"}, pc' = [pc EXCEPT ![r] = next],
         next \in {"link", "ok", "error"},
         \A j \in Key : j # call[r].key => keys'[j] = keys[j],
         keys'[call[r].key].status = status,
         \/ status = "COMPLETED"
         \/ status = "FAILED" /\ pc[r] = "fail"
  PROVE  SerialInv'
<1> USE DEF SerialInv, SameKey, ReachedUpstream, TypeInv, TypeOK
<1> DEFINE k == call[r].key
<1>0. k \in Key
  BY DEF ControlInv
<1>1. ASSUME NEW q \in Request, q # r, pc[q] \in Busy
      PROVE  call[q].key # k
  BY <1>0, <1>1 DEF OneLive, Waiting, Busy
<1>2. OneLive'
  BY DEF OneLive, Waiting
<1>3. OneReached'
  BY DEF OneReached
<1>4. BusyAlone'
  BY DEF BusyAlone, Busy
<1>5. BusyRow'
  <2> SUFFICES ASSUME NEW q \in Request, pc'[q] \in Busy
               PROVE  /\ keys'[call[q].key].status # "COMPLETED"
                      /\ keys'[call[q].key].status = "ABSENT" <=> pc'[q] = "insert"
    BY DEF BusyRow
  <2>1. q # r /\ pc[q] \in Busy /\ pc'[q] = pc[q]
    BY DEF Busy
  <2>2. call[q].key \in Key /\ call[q].key # k
    BY <1>1, <2>1 DEF ControlInv, Busy
  <2>3. QED
    BY <2>1, <2>2 DEF BusyRow
<1>6. Recorded'
  <2> SUFFICES ASSUME NEW p \in Request, ReachedUpstream(p)
               PROVE  \/ pc'[p] \in {"reply", "complete"}
                      \/ keys'[call[p].key].status \in {"PENDING", "COMPLETED"}
    BY DEF Recorded
  <2>1. call[p].key \in Key
    BY DEF OnlyRefusals
  <2>2. CASE call[p].key # k
    BY <2>1, <2>2 DEF Recorded
  <2>3. CASE call[p].key = k /\ status = "COMPLETED"
    BY <2>3
  <2>4. CASE call[p].key = k /\ status = "FAILED"
    <3>1. p = r
      BY <2>4 DEF BusyAlone, Busy
    <3>2. QED
      BY <2>4, <3>1 DEF OnlyRefusals
  <2>5. QED
    BY <2>2, <2>3, <2>4
<1>7. OnlyRefusals'
  BY <1>0 DEF OnlyRefusals
<1>8. QED
  BY <1>2, <1>3, <1>4, <1>5, <1>6, <1>7

LEMMA UpstreamSerial ==
  ASSUME TypeInv, SerialInv, NEW r \in Request,
         NEW outcome \in {"applied", "rejected"}, UpstreamAnswers(r, outcome)
  PROVE  SerialInv'
<1> USE DEF SerialInv, SameKey, ReachedUpstream, own, tables, TypeInv, TypeOK
<1>1. /\ UNCHANGED <<keys, call, pc>>
      /\ upstream[r] = "sent"
      /\ upstream' = [upstream EXCEPT ![r] = outcome]
      /\ outcome = "rejected" => "reject" \in Faults
  BY DEF UpstreamAnswers
<1>2. OneLive'
  BY <1>1 DEF OneLive
<1>3. OneReached'
  BY <1>1 DEF OneReached
<1>4. BusyAlone'
  BY <1>1 DEF BusyAlone
<1>5. BusyRow'
  BY <1>1 DEF BusyRow
<1>6. Recorded'
  BY <1>1 DEF Recorded
<1>7. OnlyRefusals'
  BY <1>1 DEF OnlyRefusals
<1>8. QED
  BY <1>2, <1>3, <1>4, <1>5, <1>6, <1>7

\* Without refusals no row is FAILED, so that a call cut off by a crash leaves
\* a row that refuses every further attempt.
LEMMA CrashSerial ==
  ASSUME TypeInv, SerialInv, SerialAssumption, Crash
  PROVE  SerialInv'
<1> USE DEF SerialInv, SameKey, ReachedUpstream, own, tables, TypeInv, TypeOK
<1>1. /\ UNCHANGED <<keys, call, upstream>>
      /\ \A q \in Request : pc'[q] = IF pc[q] \in Waiting THEN "lost" ELSE pc[q]
      /\ "reject" \notin Faults
  BY DEF Crash, SerialAssumption
<1>2. OneLive'
  BY <1>1 DEF OneLive, Waiting
<1>3. OneReached'
  BY <1>1 DEF OneReached
<1>4. BusyAlone'
  BY <1>1 DEF BusyAlone, Busy, Waiting
<1>5. BusyRow'
  BY <1>1 DEF BusyRow, Busy, Waiting
<1>6. Recorded'
  <2> SUFFICES ASSUME NEW p \in Request, ReachedUpstream(p)
               PROVE  keys[call[p].key].status \in {"PENDING", "COMPLETED"}
    BY <1>1 DEF Recorded
  <2>1. call[p].key \in Key
    BY DEF OnlyRefusals
  <2>2. keys[call[p].key].status # "FAILED"
    BY <1>1, <2>1 DEF OnlyRefusals
  <2>3. CASE pc[p] \in {"reply", "complete"}
    BY <2>1, <2>2, <2>3 DEF BusyRow, Busy, KeyRow
  <2>4. CASE pc[p] \notin {"reply", "complete"}
    BY <2>4 DEF Recorded
  <2>5. QED
    BY <2>3, <2>4
<1>7. OnlyRefusals'
  BY <1>1 DEF OnlyRefusals
<1>8. QED
  BY <1>2, <1>3, <1>4, <1>5, <1>6, <1>7

LEMMA SerialInvNext ==
  ASSUME SerialAssumption, TypeInv, SerialInv, [Next]_vars
  PROVE  SerialInv'
<1> USE DEF tables, own, Goto
<1>1. ASSUME NEW r \in Request, Start(r) PROVE SerialInv'
  <2>1. ASSUME NEW act \in Action, NEW t \in Target, StartPlan(r, act, t)
        PROVE  SerialInv'
    BY <2>1, ArriveSerial DEF StartPlan, Call, Tool
  <2>2. ASSUME NEW act \in Action, NEW t \in Target, NEW k \in Key \cup {NoKey},
               NEW a \in Approval \cup {NoApproval}, StartApply(r, act, t, k, a)
        PROVE  SerialInv'
    <3>1. [tool |-> "apply", action |-> act, target |-> t,
           key |-> k, approval |-> a] \in Call
      BY DEF Call, Tool
    <3>2. QED
      BY <2>2, <3>1, ArriveSerial DEF StartApply
  <2>3. ASSUME NEW t \in Target, NEW k \in Key \cup {NoKey},
               NEW a \in Approval \cup {NoApproval}, StartAlias(r, t, k, a)
        PROVE  SerialInv'
    <3>1. [tool |-> "alias", action |-> Cancel, target |-> t,
           key |-> k, approval |-> a] \in Call
      BY DEF Call, Tool, Action
    <3>2. QED
      BY <2>3, <3>1, ArriveSerial DEF StartAlias
  <2>4. QED
    BY <1>1, <2>1, <2>2, <2>3 DEF Start
<1>2. ASSUME NEW r \in Request, Handle(r) PROVE SerialInv'
  <2> USE DEF TypeInv, TypeOK, Waiting, Busy
  <2>1. CASE ReadDetails(r)
    BY <2>1, QuietSerial, ReadDetailsKeepsRest DEF ReadDetails
  <2>2. CASE ReadPolicy(r)
    <3>1. /\ pc' = [pc EXCEPT ![r] = AfterPolicy(r, RequireApproval(call[r].action))]
          /\ pc[r] = "policy" /\ UNCHANGED <<keys, upstream, call>>
      BY <2>2 DEF ReadPolicy
    <3>2. call[r].tool \in Tool /\ call[r].action \in Action
      BY DEF Call
    <3>3. pc'[r] \in {"preview", "create", "ok", "select", "error", "approval"}
      BY <3>1, <3>2 DEF AfterPolicy, Tool, Action
    <3>4. QED
      BY <3>1, <3>3, QuietSerial
  <2>3. CASE \E succeeds \in BOOLEAN : Preview(r, succeeds)
    BY <2>3, QuietSerial DEF Preview
  <2>4. CASE \E a \in Approval : CreateApproval(r, a)
    BY <2>4, QuietSerial DEF CreateApproval
  <2>5. CASE CheckApproval(r)
    BY <2>5, QuietSerial DEF CheckApproval
  <2>6. CASE LinkApproval(r)
    BY <2>6, QuietSerial DEF LinkApproval
  <2>7. CASE CompleteKey(r)
    <3>1. AfterApply(r) \in {"link", "ok"}
      BY DEF AfterApply
    <3>2. call[r].key \in Key
      BY <2>7 DEF CompleteKey, ControlInv
    <3>3. QED
      BY <2>7, <3>1, <3>2, EndSerial DEF CompleteKey, KeyRow
  <2>8. CASE FailKey(r)
    <3>1. call[r].key \in Key
      BY <2>8 DEF FailKey, ControlInv
    <3>2. QED
      BY <2>8, <3>1, EndSerial DEF FailKey, KeyRow
  <2>9. QED
    BY <1>2, <2>1, <2>2, <2>3, <2>4, <2>5, <2>6, <2>7, <2>8, SelectSerial,
       InsertSerial, SendSerial, ReplySerial DEF Handle
<1>3. ASSUME NEW r \in Request PROVE ~LoseReply(r) /\ ~DbError(r)
  BY DEF LoseReply, DbError, SerialAssumption
<1>4. ASSUME \/ \E a \in Approval : Approve(a)
             \/ \E act \in Action, required \in BOOLEAN :
                  SetPolicy(act, required)
             \/ UNCHANGED vars
      PROVE  SerialInv'
  <2>1. UNCHANGED <<keys, pc, call, upstream>>
    BY <1>4 DEF Approve, SetPolicy, vars
  <2>2. QED
    BY <2>1 DEF SerialInv, OneLive, OneReached, BusyAlone, BusyRow, Recorded,
       OnlyRefusals, SameKey, ReachedUpstream
<1>5. QED
  BY <1>1, <1>2, <1>3, <1>4, UpstreamSerial, CrashSerial DEF Next

LEMMA SerialInvCorrect ==
  ASSUME SerialAssumption PROVE Spec => []SerialInv
<1>1. Init => SerialInv
  BY DEF Init, SerialInv, OneLive, OneReached, BusyAlone, BusyRow, Recorded,
     OnlyRefusals, ReachedUpstream, Waiting, Busy
<1>2. TypeInv /\ SerialInv /\ [Next]_vars => SerialInv'
  BY SerialInvNext
<1>3. QED
  BY <1>1, <1>2, TypeInvCorrect, PTL DEF Spec

\* The promise of DATABASE_STRUCTURE_AND_FLOWS.md:30 holds of the code as long
\* as calls with one key do not overlap, no reply is lost, no query fails,
\* and either the process never dies or the CRM never refuses a call.
THEOREM AtMostOnce ==
  ASSUME SerialAssumption PROVE Spec => []AppliedAtMostOnce
<1>1. SerialInv => AppliedAtMostOnce
  BY DEF SerialInv, OneReached, SameKey, ReachedUpstream, AppliedAtMostOnce,
     Effects
<1>2. QED
  BY <1>1, SerialInvCorrect, PTL

\* Under the same assumptions a COMPLETED row is never written again: the
\* updates come from requests past the SELECT, whose row is not COMPLETED.
LEMMA KeysStep ==
  ASSUME TypeInv, [Next]_vars, NEW k \in Key, keys'[k] # keys[k]
  PROVE  keys[k].status = "ABSENT" \/ \E r \in Request :
            pc[r] \in {"complete", "fail"} /\ call[r].key = k
<1> USE DEF tables, own, TypeInv, TypeOK
<1>1. ASSUME NEW r \in Request, Start(r)
      PROVE  FALSE
  BY <1>1 DEF Start, StartPlan, StartApply, StartAlias, Arrive
<1>2. ASSUME NEW r \in Request, Handle(r)
      PROVE  \/ InsertKey(r) \/ CompleteKey(r) \/ FailKey(r)
  BY <1>2 DEF Handle, ReadDetails, ReadPolicy, Preview, CreateApproval,
     CheckApproval, SelectKey, SendUpstream, ReceiveReply, LinkApproval
<1>3. ASSUME NEW r \in Request, InsertKey(r)
      PROVE  keys[k].status = "ABSENT"
  BY <1>3 DEF InsertKey
<1>4. ASSUME NEW r \in Request, CompleteKey(r) \/ FailKey(r)
      PROVE  pc[r] \in {"complete", "fail"} /\ call[r].key = k
  BY <1>4 DEF CompleteKey, FailKey
<1>5. ASSUME NEW r \in Request PROVE ~LoseReply(r) /\ ~DbError(r)
  BY DEF LoseReply, DbError
<1>6. ASSUME \/ \E r \in Request, outcome \in {"applied", "rejected"} :
                   UpstreamAnswers(r, outcome)
             \/ Crash
             \/ \E a \in Approval : Approve(a)
             \/ \E act \in Action, required \in BOOLEAN :
                  SetPolicy(act, required)
             \/ UNCHANGED vars
      PROVE  FALSE
  BY <1>6 DEF UpstreamAnswers, Crash, Approve, SetPolicy, vars
<1>7. QED
  BY <1>1, <1>2, <1>3, <1>4, <1>5, <1>6 DEF Next

THEOREM CompletedFinal ==
  ASSUME SerialAssumption PROVE Spec => CompletedIsFinal
<1>1. ASSUME TypeInv, SerialInv, [Next]_vars
      PROVE  \A k \in Key : keys[k].status = "COMPLETED" => keys'[k] = keys[k]
  <2> SUFFICES ASSUME NEW k \in Key, keys[k].status = "COMPLETED",
                      keys'[k] # keys[k]
               PROVE  FALSE
    OBVIOUS
  <2>1. PICK r \in Request : pc[r] \in {"complete", "fail"} /\ call[r].key = k
    BY <1>1, KeysStep
  <2>2. QED
    BY <1>1, <2>1 DEF SerialInv, BusyRow, Busy
<1>2. QED
  BY <1>1, SerialInvCorrect, TypeInvCorrect, PTL DEF Spec, CompletedIsFinal

-----------------------------------------------------------------------------
(* Refinement of the promise of an idempotency key *)

\* The effect a key stands for is unique.
LEMMA EffectIs ==
  ASSUME OneReached, NEW k \in Key
  PROVE  /\ \A e \in Effects : call[e].key = k => EffectOf(k) = e
         /\ (\A e \in Effects : call[e].key # k) => EffectOf(k) = NoRequest
<1>1. ASSUME NEW e \in Effects, call[e].key = k
      PROVE  EffectOf(k) = e
  <2>1. \A f \in Effects : call[f].key = k => f = e
    BY <1>1 DEF OneReached, SameKey, ReachedUpstream, Effects
  <2>2. QED
    BY <1>1, <2>1 DEF EffectOf
<1>2. ASSUME \A e \in Effects : call[e].key # k
      PROVE  EffectOf(k) = NoRequest
  BY <1>2 DEF EffectOf
<1>3. QED
  BY <1>1, <1>2

LEMMA EffectIsNext ==
  ASSUME OneReached', NEW k \in Key
  PROVE  /\ \A e \in Effects' : call'[e].key = k => EffectOf(k)' = e
         /\ (\A e \in Effects' : call'[e].key # k) => EffectOf(k)' = NoRequest
<1>1. ASSUME NEW e \in Effects', call'[e].key = k
      PROVE  EffectOf(k)' = e
  <2>1. \A f \in Effects' : call'[f].key = k => f = e
    BY <1>1 DEF OneReached, SameKey, ReachedUpstream, Effects
  <2>2. QED
    BY <1>1, <2>1 DEF EffectOf
<1>2. ASSUME \A e \in Effects' : call'[e].key # k
      PROVE  EffectOf(k)' = NoRequest
  BY <1>2 DEF EffectOf
<1>3. QED
  BY <1>1, <1>2

\* Requests are answered one at a time, and keep their answers.
LEMMA AnswerSteps ==
  ASSUME TypeInv, AnswerInv, AnswerInv', [Next]_vars, NEW r \in Request,
         AnswerOf(r)' # AnswerOf(r)
  PROVE  /\ Handle(r)
         /\ AnswerOf(r) = NoRequest
         /\ AnswerOf(r)' = result'[r]
         /\ Answered(r)'
<1> USE DEF AnswerOf
<1>1. Keeps
  BY StepKeeps
<1>2. pc[r] # "idle" => (Applies(r)' <=> Applies(r))
  BY <1>1 DEF Keeps, Committed, Applies
<1>3. CASE pc'[r] = pc[r] /\ result'[r] = result[r]
  BY <1>2, <1>3
<1>4. CASE Start(r)
  BY <1>4 DEF Start, StartPlan, StartApply, StartAlias, Arrive, Goto, TypeInv, TypeOK
<1>5. CASE Handle(r)
  <2>1. pc[r] # "ok"
    BY <1>5 DEF Handle, ReadDetails, ReadPolicy, Preview, CreateApproval,
       CheckApproval, SelectKey, InsertKey, SendUpstream, ReceiveReply,
       CompleteKey, FailKey, LinkApproval
  <2>2. QED
    BY <1>5, <2>1 DEF AnswerInv
<1>6. CASE pc[r] \in {"call", "reply", "complete"} /\ pc'[r] = "fail"
  BY <1>6
<1>7. CASE pc[r] \in Waiting /\ pc'[r] \in {"thrown", "lost"}
  BY <1>7 DEF Waiting
<1>8. QED
  BY <1>3, <1>4, <1>5, <1>6, <1>7, OwnSteps

LEMMA AppliedByUpstream ==
  ASSUME TypeInv, [Next]_vars, NEW r \in Request,
         upstream[r] # "applied", upstream'[r] = "applied"
  PROVE  UpstreamAnswers(r, "applied")
<1> USE DEF TypeInv, TypeOK
<1>1. ASSUME NEW q \in Request, Start(q) PROVE upstream' = upstream
  BY <1>1 DEF Start, StartPlan, StartApply, StartAlias, Arrive
<1>2. ASSUME NEW q \in Request, Handle(q)
      PROVE  upstream' = upstream \/ SendUpstream(q)
  BY <1>2 DEF Handle, ReadDetails, ReadPolicy, Preview, CreateApproval,
     CheckApproval, SelectKey, InsertKey, ReceiveReply, CompleteKey, FailKey,
     LinkApproval
<1>3. ASSUME NEW q \in Request PROVE ~SendUpstream(q)
  BY DEF SendUpstream
<1>4. ASSUME \/ \E q \in Request : LoseReply(q) \/ DbError(q)
             \/ Crash
             \/ \E a \in Approval : Approve(a)
             \/ \E act \in Action, required \in BOOLEAN :
                  SetPolicy(act, required)
             \/ UNCHANGED vars
      PROVE  upstream' = upstream
  BY <1>4 DEF LoseReply, DbError, Crash, Approve, SetPolicy, vars
<1>5. ASSUME NEW q \in Request, NEW outcome \in {"applied", "rejected"},
             UpstreamAnswers(q, outcome)
      PROVE  q = r /\ outcome = "applied"
  BY <1>5 DEF UpstreamAnswers
<1>6. QED
  BY <1>1, <1>2, <1>3, <1>4, <1>5 DEF Next

\* What every step does to the effects of the keys.
LEMMA EffectSteps ==
  ASSUME TypeInv, SerialInv, SerialInv', [Next]_vars, NEW k \in Key,
         EffectOf(k)' # EffectOf(k)
  PROVE  /\ EffectOf(k) = NoRequest
         /\ \E r \in Request : /\ UpstreamAnswers(r, "applied")
                              /\ call[r].key = k
                              /\ EffectOf(k)' = r
<1> USE DEF SerialInv
<1>1. Keeps
  BY StepKeeps
<1>2. ASSUME NEW e \in Effects, call[e].key = k
      PROVE  FALSE
  <2>1. e \in Effects' /\ call'[e].key = k
    BY <1>1, <1>2 DEF Effects, Keeps, Committed, TypeInv, ControlInv, BeforeCall
  <2>2. QED
    BY <1>2, <2>1, EffectIs, EffectIsNext
<1>3. EffectOf(k) = NoRequest
  BY <1>2, EffectIs
<1>4. PICK r \in Effects' : call'[r].key = k
  BY <1>3, EffectIsNext
<1>5. EffectOf(k)' = r
  BY <1>4, EffectIsNext
<1>6. upstream[r] # "applied"
  <2>1. upstream[r] = "applied" => pc[r] # "idle"
    BY <1>4 DEF Effects, TypeInv, ControlInv, BeforeCall
  <2>2. QED
    BY <1>1, <1>2, <1>4, <2>1 DEF Effects, Keeps, Committed
<1>7. UpstreamAnswers(r, "applied")
  BY <1>4, <1>6, AppliedByUpstream DEF Effects
<1>8. call[r].key = k
  BY <1>4, <1>7 DEF UpstreamAnswers, own
<1>9. QED
  BY <1>3, <1>4, <1>5, <1>7, <1>8 DEF Effects

LEMMA OnceStep ==
  ASSUME TypeInv, AnswerInv, AnswerInv', SerialInv, SerialInv', [Next]_vars
  PROVE  [Once!Next]_Once!onceVars
<1> DEFINE appliedBy == [k \in Key |-> EffectOf(k)]
           answers == [r \in Request |-> AnswerOf(r)]
<1>1. CASE \E k \in Key : EffectOf(k)' # EffectOf(k)
  <2>1. PICK k \in Key : EffectOf(k)' # EffectOf(k)
    BY <1>1
  <2>2. PICK r \in Request : /\ UpstreamAnswers(r, "applied")
                            /\ call[r].key = k
                            /\ EffectOf(k)' = r
    BY <2>1, EffectSteps
  <2>3. EffectOf(k) = NoRequest
    BY <2>1, EffectSteps
  <2>4. ASSUME NEW j \in Key, j # k PROVE EffectOf(j)' = EffectOf(j)
    <3>1. ASSUME NEW q \in Request, UpstreamAnswers(q, "applied")
          PROVE  q = r
      BY <2>2, <3>1 DEF UpstreamAnswers, TypeInv, TypeOK
    <3>2. QED
      BY <2>2, <2>4, <3>1, EffectSteps
  <2>5. ASSUME NEW q \in Request PROVE AnswerOf(q)' = AnswerOf(q)
    BY <2>2 DEF UpstreamAnswers, own, AnswerOf, Applies
  <2>6. answers' = answers
    BY <2>5
  <2>7. appliedBy' = [appliedBy EXCEPT ![k] = r]
    BY <2>2, <2>4
  <2>8. appliedBy[k] = NoRequest
    BY <2>3
  <2>9. Once!Apply(r, k)
    BY <2>6, <2>7, <2>8 DEF Once!Apply
  <2>10. QED
    BY <2>9 DEF Once!Next
<1>2. CASE /\ \A k \in Key : EffectOf(k)' = EffectOf(k)
           /\ \E r \in Request : AnswerOf(r)' # AnswerOf(r)
  <2>1. PICK r \in Request : AnswerOf(r)' # AnswerOf(r)
    BY <1>2
  <2>2. /\ Handle(r)
        /\ AnswerOf(r) = NoRequest
        /\ AnswerOf(r)' = result'[r]
        /\ Answered(r)'
    BY <2>1, AnswerSteps
  <2>3. ASSUME NEW q \in Request, q # r PROVE AnswerOf(q)' = AnswerOf(q)
    <3>1. pc'[q] = pc[q] /\ result'[q] = result[q]
      BY <2>2, <2>3, HandleAlone
    <3>2. pc[q] # "idle" => (Applies(q)' <=> Applies(q))
      BY StepKeeps DEF Keeps, Committed, Applies
    <3>3. QED
      BY <3>1, <3>2 DEF AnswerOf
  <2>4. PICK k \in Key : result'[r] \in Effects' /\ call'[result'[r]].key = k
    BY <2>2 DEF Answered
  <2>5. EffectOf(k)' = result'[r] /\ result'[r] \in Request
    BY <2>4, EffectIsNext DEF SerialInv, Effects
  <2>6. EffectOf(k) = result'[r]
    BY <1>2, <2>4, <2>5
  <2>7. appliedBy' = appliedBy
    BY <1>2
  <2>8. appliedBy[k] = result'[r] /\ appliedBy[k] # NoRequest
    BY <2>4, <2>5, <2>6, ConstantsAssumption
  <2>9. answers' = [answers EXCEPT ![r] = result'[r]] /\ answers[r] = NoRequest
    BY <2>2, <2>3
  <2>10. Once!Answer(r, k)
    BY <2>7, <2>8, <2>9 DEF Once!Answer
  <2>11. QED
    BY <2>4, <2>10 DEF Once!Next
<1>3. CASE /\ \A k \in Key : EffectOf(k)' = EffectOf(k)
           /\ \A r \in Request : AnswerOf(r)' = AnswerOf(r)
  BY <1>3 DEF Once!onceVars
<1>4. QED
  BY <1>1, <1>2, <1>3

\* To clients that keep to the assumption, the gateway implements the abstract
\* promise of an idempotency key: one effect, and everybody who is answered
\* is answered with it.
THEOREM OnceRefinement ==
  ASSUME SerialAssumption PROVE Spec => ImplementsOncePerKey
<1>1. Init => Once!Init
  BY DEF Init, Once!Init, EffectOf, AnswerOf, Effects
<1>2. QED
  BY <1>1, OnceStep, TypeInvCorrect, AnswerInvCorrect, SerialInvCorrect, PTL
     DEF Spec, ImplementsOncePerKey, Once!Spec
=============================================================================
