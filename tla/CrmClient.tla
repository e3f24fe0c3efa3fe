------------------------------- MODULE CrmClient ------------------------------
(***************************************************************************)
(* The gateway's calls of the CRM: doRequest takes a token of the bucket   *)
(* in rateLimit.ts, fetches under a deadline and writes an audit row in    *)
(* its finally. Callers that find no token sleep and look again.           *)
(*                                                                         *)
(* A tick is the 50 ms of that sleep. Timers are urgent: node runs the     *)
(* ones that are due before time goes on, in any order.                    *)
(***************************************************************************)
EXTENDS Naturals, FiniteSets

CONSTANTS
  Call,           \* invocations of doRequest
  MaxTokens,      \* DEFAULT_MAX_TOKENS
  RefillTicks,    \* DEFAULT_REFILL_INTERVAL_MS, in ticks
  TimeoutTicks,   \* timeouts.altegios_http_ms, in ticks
  Faults          \* which of FaultKinds can happen

\* fetch or the CRM fails; writeHttpCall throws.
FaultKinds == {"crmError", "dbError"}

ASSUME CrmClientAssumption ==
  /\ IsFiniteSet(Call)
  /\ MaxTokens \in Nat \ {0} /\ RefillTicks \in Nat \ {0}
  /\ TimeoutTicks \in Nat \ {0}
  /\ Faults \subseteq FaultKinds

VARIABLES
  tokens,     \* TokenBucket.tokens
  phase,      \* ticks since the bucket was last filled
  pc,         \* pc[c]: where doRequest(c) is
  asleep,     \* asleep[c]: ticks left of the 50 ms sleep
  age,        \* age[c]: ticks since the deadline was set
  outcome,    \* outcome[c]: how the try block ended
  flight      \* flight[c]: ticks since c took its token, up to RefillTicks

vars == <<tokens, phase, pc, asleep, age, outcome, flight>>

-----------------------------------------------------------------------------
TypeOK ==
  /\ tokens \in 0..MaxTokens
  /\ phase \in 0..RefillTicks
  /\ pc \in [Call -> {"new", "acquire", "fetch", "finally", "ok", "error"}]
  /\ asleep \in [Call -> {0, 1}]
  /\ age \in [Call -> 0..TimeoutTicks]
  /\ outcome \in [Call -> {"none", "ok", "error"}]
  /\ flight \in [Call -> 0..RefillTicks]

Init ==
  /\ tokens = MaxTokens
  /\ phase = 0
  /\ pc = [c \in Call |-> "new"]
  /\ asleep = [c \in Call |-> 0]
  /\ age = [c \in Call |-> 0]
  /\ outcome = [c \in Call |-> "none"]
  /\ flight = [c \in Call |-> 0]

-----------------------------------------------------------------------------
(* doRequest *)

Goto(c, next) == pc' = [pc EXCEPT ![c] = next]

\* The deadline's timer is set before the call queues for a token.
Start(c) ==
  /\ pc[c] = "new"
  /\ Goto(c, "acquire")
  /\ UNCHANGED <<tokens, phase, asleep, age, outcome, flight>>

Sleep(c) ==
  /\ pc[c] = "acquire" /\ asleep[c] = 0
  /\ tokens = 0
  /\ asleep' = [asleep EXCEPT ![c] = 1]
  /\ UNCHANGED <<tokens, phase, pc, age, outcome, flight>>

Expired(c) == age[c] = TimeoutTicks

\* Mutant: a caller that has slept does not look again.
AcquireAfterSleep(c) ==
  /\ pc[c] = "acquire" /\ asleep[c] = 0
  /\ tokens > 0 \/ age[c] > 0
  /\ tokens' = IF tokens > 0 THEN tokens - 1 ELSE 0
  /\ flight' = [flight EXCEPT ![c] = 0]
  /\ IF Expired(c)
       THEN /\ outcome' = [outcome EXCEPT ![c] = "error"]
            /\ Goto(c, "finally")
       ELSE Goto(c, "fetch") /\ UNCHANGED outcome
  /\ UNCHANGED <<phase, asleep, age>>

\* The token is spent in any case; with the deadline passed, fetch throws
\* at once and nothing reaches the CRM.
Acquire(c) ==
  /\ pc[c] = "acquire" /\ asleep[c] = 0
  /\ tokens > 0
  /\ tokens' = tokens - 1
  /\ flight' = [flight EXCEPT ![c] = 0]
  /\ IF Expired(c)
       THEN /\ outcome' = [outcome EXCEPT ![c] = "error"]
            /\ Goto(c, "finally")
       ELSE Goto(c, "fetch") /\ UNCHANGED outcome
  /\ UNCHANGED <<phase, asleep, age>>

\* A 2xx answer; any other status, or a broken connection, throws.
Answered(c) ==
  /\ pc[c] = "fetch"
  /\ \E end \in {"ok"} \cup {e \in {"error"} : "crmError" \in Faults} :
       outcome' = [outcome EXCEPT ![c] = end]
  /\ Goto(c, "finally")
  /\ UNCHANGED <<tokens, phase, asleep, age, flight>>

\* Mutant: the deadline of a call that had to queue is gone.
AbortUnqueued(c) ==
  /\ pc[c] = "fetch" /\ Expired(c) /\ flight[c] = TimeoutTicks
  /\ outcome' = [outcome EXCEPT ![c] = "error"]
  /\ Goto(c, "finally")
  /\ UNCHANGED <<tokens, phase, asleep, age, flight>>

\* controller.abort()
Abort(c) ==
  /\ pc[c] = "fetch" /\ Expired(c)
  /\ outcome' = [outcome EXCEPT ![c] = "error"]
  /\ Goto(c, "finally")
  /\ UNCHANGED <<tokens, phase, asleep, age, flight>>

\* The call is over: its deadline is cleared.
End(c, result) ==
  /\ Goto(c, result)
  /\ age' = [age EXCEPT ![c] = 0]
  /\ outcome' = [outcome EXCEPT ![c] = "none"]
  /\ UNCHANGED <<tokens, phase, asleep, flight>>

\* writeHttpCall, and the value or exception of the try block after it.
Finally(c) ==
  /\ pc[c] = "finally"
  /\ End(c, outcome[c])

\* An exception in the finally takes the place of the answer.
FinallyThrows(c) ==
  /\ "dbError" \in Faults
  /\ pc[c] = "finally"
  /\ End(c, "error")

-----------------------------------------------------------------------------
(* Timers *)

\* Mutant: the bucket is also filled at half time.
RefillTwice ==
  /\ phase >= RefillTicks \div 2 /\ phase > 0
  /\ tokens' = MaxTokens
  /\ phase' = 0
  /\ UNCHANGED <<pc, asleep, age, outcome, flight>>

Refill ==
  /\ phase = RefillTicks
  /\ tokens' = MaxTokens
  /\ phase' = 0
  /\ UNCHANGED <<pc, asleep, age, outcome, flight>>

\* Is a timer due that must run before time goes on?
Due ==
  \/ phase = RefillTicks
  \/ \E c \in Call : \/ pc[c] = "acquire" /\ asleep[c] = 0
                     \/ pc[c] = "fetch" /\ Expired(c)

\* Counts ticks up to the last value anything depends on.
Older(n, cap) == IF n < cap THEN n + 1 ELSE n

Tick ==
  /\ ~Due
  /\ phase' = phase + 1
  /\ asleep' = [c \in Call |-> 0]
  /\ age' = [c \in Call |-> IF pc[c] \in {"acquire", "fetch"}
                              THEN Older(age[c], TimeoutTicks) ELSE age[c]]
  /\ flight' = [c \in Call |-> Older(flight[c], RefillTicks)]
  /\ UNCHANGED <<tokens, pc, outcome>>

-----------------------------------------------------------------------------
(* Specification *)

Acquires(c) == Sleep(c) \/ Acquire(c)

Ends(c) == Abort(c) \/ Finally(c)

Next ==
  \/ \E c \in Call : \/ Start(c) \/ Acquires(c) \/ Answered(c) \/ Ends(c)
                     \/ FinallyThrows(c)
  \/ Refill
  \/ Tick

Spec == Init /\ [][Next]_vars

\* Timers and promises run and time goes on; the CRM need not answer.
FairSpec == /\ Spec
            /\ \A c \in Call : WF_vars(Acquires(c)) /\ WF_vars(Ends(c))
            /\ WF_vars(Refill) /\ WF_vars(Tick)

-----------------------------------------------------------------------------
(* Properties *)

\* Calls that took a token in the last interval of n ticks.
TakenWithin(n) ==
  {c \in Call : pc[c] \notin {"new", "acquire"} /\ flight[c] < n}

\* What the bucket really promises: in no stretch of a refill interval do
\* more than two buckets full of calls go out, however they queue and
\* wherever the stretch begins.
AtMostTwoBuckets == Cardinality(TakenWithin(RefillTicks)) <= 2 * MaxTokens

\* The calls since the tick of the last refill and the tokens left are no more
\* than a bucket full: sleepers that wake together share what is there.
BucketBalance == Cardinality(TakenWithin(phase)) + tokens <= MaxTokens

\* A caller gets its answer or an exception at the deadline, also when it had
\* to queue and when the CRM is silent.
EveryCallEnds == \A c \in Call : pc[c] = "acquire" ~> pc[c] \in {"ok", "error"}
=============================================================================
