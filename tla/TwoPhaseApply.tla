---------------------------- MODULE TwoPhaseApply ----------------------------
(***************************************************************************)
(* The two-phase apply of the gateway: plan tools create approvals, an     *)
(* administrator approves them over HTTP, apply tools check policy,        *)
(* approval and idempotency key and then call the Altegio CRM.             *)
(*                                                                         *)
(* Every request is an interleaved asynchronous handler: one action is the *)
(* code between two awaits (a database query, the CRM call), and the value *)
(* a step read is kept in the request's own variables until it is used.    *)
(* The CRM may carry a call out after the gateway has given up on it.      *)
(***************************************************************************)
EXTENDS Naturals, FiniteSets

CONSTANTS
  Request,           \* calls of the plan and apply tools
  Key,               \* idempotency keys clients use
  Approval,          \* ids of rows of the approvals table
  Target,            \* appointments or payroll runs an action is about
  NoKey, NoApproval, NoRequest, NoTarget,
  Faults,            \* which of FaultKinds can happen
  Overlap            \* may two live requests carry the same key?

\* The process dies; the answer of the CRM is lost or late, or its audit row
\* cannot be written; the CRM refuses; a database query throws.
FaultKinds == {"crash", "lostReply", "reject", "dbError"}

ASSUME ConstantsAssumption ==
  /\ NoKey \notin Key
  /\ NoApproval \notin Approval
  /\ NoRequest \notin Request
  /\ NoTarget \notin Target
  /\ Faults \subseteq FaultKinds
  /\ Overlap \in BOOLEAN

Cancel == "crm.cancel_appointment"
Salary == "payroll.apply_salary_result"
Action == {Cancel, Salary}

\* "alias" is admin.cancel_appointment_apply, which takes its parameters
\* from the approval; "plan" and "apply" are the tools of either action.
Tool == {"plan", "apply", "alias"}

VARIABLES
  policy,       \* policy[act]: require_approval in approval_policies
  approvals,    \* the approvals table
  keys,         \* the idempotency_keys table
  pc,           \* pc[r]: the await request r is suspended at
  call,         \* call[r]: the tool and the parameters of r
  guarded,      \* guarded[r]: the policy.requireApproval that r read
  result,       \* result[r]: the request whose CRM answer r holds
  upstream,     \* upstream[r]: what became of r's call at the CRM
  everWaived    \* history: the actions an administrator ever waived

vars == <<policy, approvals, keys, pc, call, guarded, result, upstream,
          everWaived>>

-----------------------------------------------------------------------------
(* Types *)

ApprovalRow == [status : {"ABSENT", "PENDING", "APPROVED", "REJECTED"},
                action : Action, target : Target \cup {NoTarget},
                applyRequest : Request \cup {NoRequest}]

KeyRow == [status : {"ABSENT", "PENDING", "COMPLETED", "FAILED"},
           body : Request \cup {NoRequest}]

Call == [tool : Tool, action : Action, target : Target \cup {NoTarget},
         key : Key \cup {NoKey}, approval : Approval \cup {NoApproval}]

NoCall == [tool |-> "plan", action |-> Cancel, target |-> NoTarget,
           key |-> NoKey, approval |-> NoApproval]

Waiting == {"details", "policy", "approval", "preview", "create",
            "select", "insert", "call", "reply", "complete", "fail", "link"}

Ended == {"ok", "error", "thrown", "lost"}

TypeOK ==
  /\ policy \in [Action -> BOOLEAN]
  /\ approvals \in [Approval -> ApprovalRow]
  /\ keys \in [Key -> KeyRow]
  /\ pc \in [Request -> {"idle"} \cup Waiting \cup Ended]
  /\ call \in [Request -> Call]
  /\ guarded \in [Request -> BOOLEAN]
  /\ result \in [Request -> Request \cup {NoRequest}]
  /\ upstream \in [Request -> {"none", "sent", "applied", "rejected"}]
  /\ everWaived \subseteq Action

\* Migration 001 seeds both policies with require_approval = TRUE.
Init ==
  /\ policy = [act \in Action |-> TRUE]
  /\ approvals = [a \in Approval |->
                    [status |-> "ABSENT", action |-> Cancel,
                     target |-> NoTarget, applyRequest |-> NoRequest]]
  /\ keys = [k \in Key |-> [status |-> "ABSENT", body |-> NoRequest]]
  /\ pc = [r \in Request |-> "idle"]
  /\ call = [r \in Request |-> NoCall]
  /\ guarded = [r \in Request |-> TRUE]
  /\ result = [r \in Request |-> NoRequest]
  /\ upstream = [r \in Request |-> "none"]
  /\ everWaived = {}

-----------------------------------------------------------------------------
(* Helpers *)

Goto(r, next) == pc' = [pc EXCEPT ![r] = next]

\* The rows written by a plan or an apply, for the UNCHANGED clauses.
tables == <<policy, approvals, keys, everWaived>>
own == <<call, guarded, result>>

\* Mutant: the policy row alone decides.
RequireApprovalByRow(act) == policy[act]

\* Cancelling needs an approval whatever the policy row says.
RequireApproval(act) == act = Cancel \/ policy[act]

ApprovalUsable(a, act) == /\ approvals[a].status = "APPROVED"
                          /\ approvals[a].action = act

\* After executeWithIdempotency returns, an apply that checked an approval
\* links it to itself; any other returns at once.
AfterApply(r) == IF guarded[r] /\ call[r].approval # NoApproval
                   THEN "link" ELSE "ok"

-----------------------------------------------------------------------------
(* Arrival of a tool call: the dispatch and the checks made before the     *)
(* first await.                                                            *)

\* What Overlap = FALSE assumes about clients.
ClientAllows(c) ==
  ~Overlap /\ c.key # NoKey =>
    \A q \in Request : pc[q] \in Waiting => call[q].key # c.key

Arrive(r, c, first) ==
  /\ pc[r] = "idle"
  /\ ClientAllows(c)
  /\ call' = [call EXCEPT ![r] = c]
  /\ Goto(r, first)
  /\ UNCHANGED <<tables, guarded, result, upstream>>

StartPlan(r, act, t) ==
  Arrive(r, [tool |-> "plan", action |-> act, target |-> t,
             key |-> NoKey, approval |-> NoApproval], "policy")

\* Without an idempotency key the apply tools throw before reading anything.
StartApply(r, act, t, k, a) ==
  Arrive(r, [tool |-> "apply", action |-> act, target |-> t,
             key |-> k, approval |-> a],
         IF k = NoKey THEN "error" ELSE "policy")

\* The alias needs an approval and a key; an appointment_id in its payload
\* (here: t) is accepted and ignored.
StartAlias(r, t, k, a) ==
  Arrive(r, [tool |-> "alias", action |-> Cancel, target |-> t,
             key |-> k, approval |-> a],
         IF k = NoKey \/ a = NoApproval THEN "error" ELSE "details")

-----------------------------------------------------------------------------
(* The handlers *)

\* Mutant: the caller's parameters override those of the approval.
ReadDetailsOverridden(r) ==
  /\ pc[r] = "details"
  /\ Goto(r, IF approvals[call[r].approval].action = Cancel
               THEN "policy" ELSE "error")
  /\ UNCHANGED <<tables, own, upstream>>

\* The alias reads the parameters stored by the plan.  An approval for a
\* payroll run has no appointment_id, and the handler rejects NaN.
ReadDetails(r) ==
  /\ pc[r] = "details"
  /\ LET row == approvals[call[r].approval]
     IN IF row.status # "ABSENT" /\ row.action = Cancel
          THEN /\ call' = [call EXCEPT ![r].target = row.target]
               /\ Goto(r, "policy")
          ELSE /\ Goto(r, "error")
               /\ UNCHANGED call
  /\ UNCHANGED <<tables, guarded, result, upstream>>

\* Where a handler goes on after getApprovalPolicy.
AfterPolicy(r, needed) ==
  CASE call[r].tool = "plan" /\ call[r].action = Salary   -> "preview"
    [] call[r].tool = "plan" /\ call[r].action = Cancel   ->
         IF needed THEN "create" ELSE "ok"
    [] call[r].tool # "plan" ->
         IF ~needed THEN "select"
         ELSE IF call[r].approval = NoApproval THEN "error" ELSE "approval"

ReadPolicy(r) ==
  /\ pc[r] = "policy"
  /\ LET needed == RequireApproval(call[r].action)
     IN /\ guarded' = [guarded EXCEPT ![r] = needed]
        /\ Goto(r, AfterPolicy(r, needed))
  /\ UNCHANGED <<tables, call, result, upstream>>

\* The payroll plan reads the staff calculations from the CRM first.
Preview(r, succeeds) ==
  /\ pc[r] = "preview"
  /\ Goto(r, IF ~succeeds THEN "error"
             ELSE IF guarded[r] THEN "create" ELSE "ok")
  /\ UNCHANGED <<tables, own, upstream>>

\* A new row gets a new UUID.  An absent id that a request names is an
\* unknown one, and stays unknown.
FreshApproval(a) == /\ approvals[a].status = "ABSENT"
                    /\ \A q \in Request : call[q].approval # a

CreateApproval(r, a) ==
  /\ pc[r] = "create"
  /\ FreshApproval(a)
  /\ approvals' = [approvals EXCEPT
       ![a] = [status |-> "PENDING", action |-> call[r].action,
               target |-> call[r].target, applyRequest |-> NoRequest]]
  /\ Goto(r, "ok")
  /\ UNCHANGED <<policy, keys, everWaived, own, upstream>>

CheckApproval(r) ==
  /\ pc[r] = "approval"
  /\ Goto(r, IF ApprovalUsable(call[r].approval, call[r].action)
               THEN "select" ELSE "error")
  /\ UNCHANGED <<tables, own, upstream>>

\* Mutant: a PENDING key is answered like a COMPLETED one.
SelectKeyPendingIsDone(r) ==
  /\ pc[r] = "select"
  /\ LET row == keys[call[r].key]
     IN /\ Goto(r, CASE row.status \in {"COMPLETED", "PENDING"} -> AfterApply(r)
                     [] row.status = "FAILED" -> "call"
                     [] row.status = "ABSENT" -> "insert")
        /\ result' = [result EXCEPT ![r] = row.body]
  /\ UNCHANGED <<tables, call, guarded, upstream>>

\* executeWithIdempotency: the SELECT.  A FAILED row is retried and keeps
\* its status until the new attempt ends.
SelectKey(r) ==
  /\ pc[r] = "select"
  /\ LET row == keys[call[r].key]
     IN /\ Goto(r, CASE row.status = "COMPLETED" -> AfterApply(r)
                     [] row.status = "PENDING"   -> "error"
                     [] row.status = "FAILED"    -> "call"
                     [] row.status = "ABSENT"    -> "insert")
        /\ result' = IF row.status = "COMPLETED"
                       THEN [result EXCEPT ![r] = row.body]
                       ELSE result
  /\ UNCHANGED <<tables, call, guarded, upstream>>

\* The INSERT ... ON CONFLICT DO NOTHING, whose row count nobody reads.
InsertKey(r) ==
  /\ pc[r] = "insert"
  /\ keys' = IF keys[call[r].key].status = "ABSENT"
               THEN [keys EXCEPT ![call[r].key].status = "PENDING"]
               ELSE keys
  /\ Goto(r, "call")
  /\ UNCHANGED <<policy, approvals, everWaived, own, upstream>>

\* fn(): the POST to the CRM leaves the gateway.
SendUpstream(r) ==
  /\ pc[r] = "call"
  /\ upstream' = [upstream EXCEPT ![r] = "sent"]
  /\ Goto(r, "reply")
  /\ UNCHANGED <<tables, own>>

\* The CRM works on its own: also on calls the gateway no longer waits for.
UpstreamAnswers(r, outcome) ==
  /\ upstream[r] = "sent"
  /\ outcome = "rejected" => "reject" \in Faults
  /\ upstream' = [upstream EXCEPT ![r] = outcome]
  /\ UNCHANGED <<tables, pc, own>>

\* Mutant: the HTTP status of the answer is not looked at.
ReceiveReplyUnchecked(r) ==
  /\ pc[r] = "reply"
  /\ upstream[r] # "sent"
  /\ result' = [result EXCEPT ![r] = r]
  /\ Goto(r, "complete")
  /\ UNCHANGED <<tables, call, guarded, upstream>>

ReceiveReply(r) ==
  /\ pc[r] = "reply"
  /\ \/ /\ upstream[r] = "applied"
        /\ result' = [result EXCEPT ![r] = r]
        /\ Goto(r, "complete")
     \/ /\ upstream[r] = "rejected"
        /\ Goto(r, "fail")
        /\ UNCHANGED result
  /\ UNCHANGED <<tables, call, guarded, upstream>>

\* Mutant: the error leaves executeWithIdempotency without the FAILED update.
LoseReplyUnrecorded(r) ==
  /\ "lostReply" \in Faults
  /\ pc[r] \in {"call", "reply"}
  /\ Goto(r, "error")
  /\ UNCHANGED <<tables, own, upstream>>

\* The abort timer (which also runs while the call waits for a token), a
\* broken connection, or the audit insert in the finally block: doRequest
\* throws whatever the CRM did or still does.
LoseReply(r) ==
  /\ "lostReply" \in Faults
  /\ pc[r] \in {"call", "reply"}
  /\ Goto(r, "fail")
  /\ UNCHANGED <<tables, own, upstream>>

CompleteKey(r) ==
  /\ pc[r] = "complete"
  /\ keys' = [keys EXCEPT ![call[r].key] =
                [status |-> "COMPLETED", body |-> result[r]]]
  /\ Goto(r, AfterApply(r))
  /\ UNCHANGED <<policy, approvals, everWaived, own, upstream>>

FailKey(r) ==
  /\ pc[r] = "fail"
  /\ keys' = [keys EXCEPT ![call[r].key].status = "FAILED"]
  /\ Goto(r, "error")
  /\ UNCHANGED <<policy, approvals, everWaived, own, upstream>>

LinkApproval(r) ==
  /\ pc[r] = "link"
  /\ approvals' = [approvals EXCEPT ![call[r].approval].applyRequest = r]
  /\ Goto(r, "ok")
  /\ UNCHANGED <<policy, keys, everWaived, own, upstream>>

\* A query throws.  The COMPLETED update is inside the try block, so its
\* failure is followed by the FAILED update; any other ends the request.
DbError(r) ==
  /\ "dbError" \in Faults
  /\ pc[r] \in {"details", "policy", "approval", "create", "select",
                "insert", "complete", "fail", "link"}
  /\ Goto(r, IF pc[r] = "complete" THEN "fail" ELSE "thrown")
  /\ UNCHANGED <<tables, own, upstream>>

\* The process dies and restarts; nothing looks at the requests it served.
Crash ==
  /\ "crash" \in Faults
  /\ \E r \in Request : pc[r] \in Waiting
  /\ pc' = [r \in Request |-> IF pc[r] \in Waiting THEN "lost" ELSE pc[r]]
  /\ UNCHANGED <<tables, own, upstream>>

-----------------------------------------------------------------------------
(* Administrators *)

\* POST /approvals/:id/approve: 404 for an unknown id, no write for an
\* approved one, and every other status becomes APPROVED.
Approve(a) ==
  /\ approvals[a].status \notin {"ABSENT", "APPROVED"}
  /\ approvals' = [approvals EXCEPT ![a].status = "APPROVED"]
  /\ UNCHANGED <<policy, keys, everWaived, pc, own, upstream>>

\* POST /admin/policies/set
SetPolicy(act, required) ==
  /\ policy' = [policy EXCEPT ![act] = required]
  /\ everWaived' = IF required THEN everWaived ELSE everWaived \cup {act}
  /\ UNCHANGED <<approvals, keys, pc, own, upstream>>

-----------------------------------------------------------------------------
(* The specification *)

Start(r) ==
  \/ \E act \in Action, t \in Target : StartPlan(r, act, t)
  \/ \E act \in Action, t \in Target, k \in Key \cup {NoKey},
        a \in Approval \cup {NoApproval} : StartApply(r, act, t, k, a)
  \/ \E t \in Target, k \in Key \cup {NoKey},
        a \in Approval \cup {NoApproval} : StartAlias(r, t, k, a)

\* One step of the gateway on behalf of r that no fault and no CRM causes.
Handle(r) ==
  \/ ReadDetails(r)
  \/ ReadPolicy(r)
  \/ \E succeeds \in BOOLEAN : Preview(r, succeeds)
  \/ \E a \in Approval : CreateApproval(r, a)
  \/ CheckApproval(r)
  \/ SelectKey(r)
  \/ InsertKey(r)
  \/ SendUpstream(r)
  \/ ReceiveReply(r)
  \/ CompleteKey(r)
  \/ FailKey(r)
  \/ LinkApproval(r)

Next ==
  \/ \E r \in Request : \/ Start(r)
                        \/ Handle(r)
                        \/ LoseReply(r)
                        \/ DbError(r)
  \/ \E r \in Request, outcome \in {"applied", "rejected"} :
        UpstreamAnswers(r, outcome)
  \/ Crash
  \/ \E a \in Approval : Approve(a)
  \/ \E act \in Action, required \in BOOLEAN : SetPolicy(act, required)

Spec == Init /\ [][Next]_vars

\* The event loop runs the continuation of every answered query, and the
\* CRM call ends with an answer or with the abort timer.  The CRM itself, the
\* administrators and the clients owe nothing.
Fairness == \A r \in Request :
  /\ WF_vars(Handle(r))
  /\ WF_vars(ReceiveReply(r) \/ LoseReply(r))

FairSpec == Spec /\ Fairness

-----------------------------------------------------------------------------
(* Properties *)

Applies(r) == call[r].tool # "plan"

\* The CRM has, or will get, the call of r.
ReachedUpstream(r) == upstream[r] \in {"sent", "applied"}

Effects == {r \in Request : upstream[r] = "applied"}

\* What the approval registry must have seen before r may have an effect:
\* a granted approval of the same action, or, for the payroll only, a policy
\* an administrator waived.
Authorised(r) ==
  \/ call[r].action # Cancel /\ call[r].action \in everWaived
  \/ /\ call[r].approval # NoApproval
     /\ ApprovalUsable(call[r].approval, call[r].action)

\* No cancellation or salary run is ever sent to the CRM, by any of the
\* tools and in any interleaving with administrators, crashes and retries,
\* without an approved approval of that very action; a waived policy excuses
\* the payroll only (cancelAppointment.ts:58-74, applySalaryResult.ts:67-83).
EffectsAreAuthorised == \A r \in Request : ReachedUpstream(r) => Authorised(r)

\* admin.cancel_appointment_apply cancels the appointment the approval was
\* planned for, whatever appointment its caller names (router.ts:97-102).
AliasHitsPlannedTarget ==
  \A r \in Request : call[r].tool = "alias" /\ ReachedUpstream(r)
                        => call[r].target = approvals[call[r].approval].target

\* A COMPLETED key holds the CRM's answer to a call that carried this key and
\* that the CRM did carry out: no crash, lost reply or overlapping retry
\* makes the table claim an effect that never was (idempotency.ts:39-49).
StoredAnswerIsReal ==
  \A k \in Key : keys[k].status = "COMPLETED" =>
     /\ keys[k].body \in Effects
     /\ call[keys[k].body].key = k

SameOperation(c, d) == c.action = d.action /\ c.target = d.target

\* A client that uses the key of r for one operation only.
OneOperation(r) ==
  \A q \in Request : pc[q] # "idle" /\ call[q].key = call[r].key
                       => SameOperation(call[q], call[r])

\* A client that keeps a key for one operation and is answered "cancelled" or
\* "applied" can rely on it: the CRM has carried out that operation, whatever
\* overlapped, was refused, got lost or died before (idempotency.ts:21-49).
OkMeansApplied ==
  \A r \in Request : pc[r] = "ok" /\ Applies(r) /\ OneOperation(r) =>
     \E e \in Effects : SameOperation(call[e], call[r])

\* DATABASE_STRUCTURE_AND_FLOWS.md:30 and mcp_tools_protocol_v1.md:462: the
\* CRM carries out at most one of the calls that carry a key.
AppliedAtMostOnce ==
  \A r, q \in Effects : call[r].key = call[q].key => r = q

\* Once a key is COMPLETED it stays so, with the answer first stored: every
\* later caller is answered with the same result.
CompletedIsFinal ==
  [][\A k \in Key : keys[k].status = "COMPLETED" => keys'[k] = keys[k]]_vars

\* A key does not stay PENDING, which refuses every retry, unless a call that
\* carries it was ended by a crash or by a query that threw.
PendingKeySettles ==
  \A k \in Key : keys[k].status = "PENDING" ~>
     \/ keys[k].status \in {"COMPLETED", "FAILED"}
     \/ \E r \in Request : call[r].key = k /\ pc[r] \in {"thrown", "lost"}

-----------------------------------------------------------------------------
(* Refinement *)

PlannedAction == [a \in Approval |-> IF approvals[a].status = "ABSENT"
                                       THEN "none" ELSE approvals[a].action]

PerformedAction == [r \in Request |-> IF upstream[r] = "applied"
                                        THEN call[r].action ELSE "none"]

Granted == {a \in Approval : approvals[a].status = "APPROVED"}

Guard == INSTANCE GuardedEffects
           WITH Waivable <- {Salary}, None <- "none",
                planned <- PlannedAction, granted <- Granted,
                waived <- everWaived \ {Cancel}, performed <- PerformedAction

\* The gateway implements the approval registry's promise.
ImplementsGuardedEffects == Guard!Spec

EffectOf(k) == IF \E r \in Effects : call[r].key = k
                 THEN CHOOSE r \in Effects : call[r].key = k
                 ELSE NoRequest

AnswerOf(r) == IF pc[r] = "ok" /\ Applies(r) THEN result[r] ELSE NoRequest

Once == INSTANCE OncePerKey
          WITH None <- NoRequest,
               appliedBy <- [k \in Key |-> EffectOf(k)],
               answer <- [r \in Request |-> AnswerOf(r)]

\* When the calls with one key do not overlap, no reply is lost and no query
\* fails, and either the process never dies or the CRM never refuses, the
\* gateway implements the promise of an idempotency key.
ImplementsOncePerKey == Once!Spec
=============================================================================
