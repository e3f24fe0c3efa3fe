--------------------------- MODULE CrmClient_proofs ---------------------------
(***************************************************************************)
(* Type correctness, the balance of the bucket and what it promises of any *)
(* stretch of time, for every number of calls, size of the bucket and pair *)
(* of timers.                                                              *)
(***************************************************************************)
EXTENDS CrmClient, FiniteSetTheorems, TLAPS

USE DEF Goto

\* The try block has an outcome by the time its finally runs: what makes
\* TypeOK inductive.
Decided == \A c \in Call : pc[c] = "finally" => outcome[c] # "none"

TypeInv == TypeOK /\ Decided

\* Every variable keeps its type: no refill or queue takes tokens out of
\* range, and the clocks stay at the caps that they are read with.
THEOREM TypeCorrect == Spec => []TypeOK
<1> USE CrmClientAssumption
<1>1. Init => TypeInv
  BY DEF Init, TypeOK, TypeInv, Decided
<1>2. TypeInv /\ [Next]_vars => TypeOK'
  <2> SUFFICES ASSUME TypeOK, Decided, [Next]_vars PROVE TypeOK'
    BY DEF TypeInv
  <2> USE DEF TypeOK
  <2>1. ASSUME NEW c \in Call, Start(c) PROVE TypeOK'
    BY <2>1 DEF Start
  <2>2. ASSUME NEW c \in Call, Sleep(c) PROVE TypeOK'
    BY <2>2 DEF Sleep
  <2>3. ASSUME NEW c \in Call, Acquire(c) PROVE TypeOK'
    <3>1. tokens' \in 0..MaxTokens
      BY <2>3 DEF Acquire
    <3>2. pc' \in [Call -> {"new", "acquire", "fetch", "finally", "ok", "error"}]
      BY <2>3 DEF Acquire
    <3>3. outcome' \in [Call -> {"none", "ok", "error"}]
      BY <2>3 DEF Acquire
    <3>4. flight' \in [Call -> 0..RefillTicks]
      BY <2>3 DEF Acquire
    <3> QED BY <2>3, <3>1, <3>2, <3>3, <3>4 DEF Acquire
  <2>4. ASSUME NEW c \in Call, Answered(c) PROVE TypeOK'
    <3>1. PICK end \in {"ok", "error"} : outcome' = [outcome EXCEPT ![c] = end]
      BY <2>4 DEF Answered
    <3> QED BY <2>4, <3>1 DEF Answered
  <2>5. ASSUME NEW c \in Call, Abort(c) PROVE TypeOK'
    BY <2>5 DEF Abort
  <2>6. ASSUME NEW c \in Call, Finally(c) PROVE TypeOK'
    <3>1. pc' \in [Call -> {"new", "acquire", "fetch", "finally", "ok", "error"}]
      BY <2>6 DEF Finally, End, Decided
    <3> QED BY <2>6, <3>1 DEF Finally, End
  <2>7. ASSUME NEW c \in Call, FinallyThrows(c) PROVE TypeOK'
    BY <2>7 DEF FinallyThrows, End
  <2>8. CASE Refill
    BY <2>8 DEF Refill
  <2>9. CASE Tick
    <3>1. phase' \in 0..RefillTicks
      BY <2>9 DEF Tick, Due
    <3>2. \A n, cap \in Nat : n \in 0..cap => Older(n, cap) \in 0..cap
      BY DEF Older
    <3>3. age' \in [Call -> 0..TimeoutTicks]
      <4>1. ASSUME NEW c \in Call
            PROVE  (IF pc[c] \in {"acquire", "fetch"}
                      THEN Older(age[c], TimeoutTicks) ELSE age[c]) \in 0..TimeoutTicks
        BY <3>2
      <4> QED BY <2>9, <4>1 DEF Tick
    <3>4. flight' \in [Call -> 0..RefillTicks]
      <4>1. ASSUME NEW c \in Call
            PROVE  Older(flight[c], RefillTicks) \in 0..RefillTicks
        BY <3>2
      <4> QED BY <2>9, <4>1 DEF Tick
    <3>5. asleep' \in [Call -> {0, 1}]
      BY <2>9 DEF Tick
    <3> QED BY <2>9, <3>1, <3>3, <3>4, <3>5 DEF Tick
  <2>10. CASE UNCHANGED vars
    BY <2>10 DEF vars
  <2> QED BY <2>1, <2>2, <2>3, <2>4, <2>5, <2>6, <2>7, <2>8, <2>9, <2>10
          DEF Next, Acquires, Ends
<1>3. TypeInv /\ [Next]_vars => Decided'
  <2> SUFFICES ASSUME TypeOK, Decided, [Next]_vars, NEW d \in Call,
                      pc'[d] = "finally"
               PROVE  outcome'[d] # "none"
    BY DEF TypeInv, Decided
  <2> USE DEF TypeOK, Decided
  <2>1. ASSUME NEW c \in Call, Start(c) \/ Acquires(c) PROVE outcome'[d] # "none"
    BY <2>1 DEF Start, Acquires, Sleep, Acquire
  <2>2. ASSUME NEW c \in Call, Answered(c) \/ Abort(c) PROVE outcome'[d] # "none"
    <3>1. PICK end \in {"ok", "error"} : outcome' = [outcome EXCEPT ![c] = end]
      BY <2>2 DEF Answered, Abort
    <3>2. pc' = [pc EXCEPT ![c] = "finally"]
      BY <2>2 DEF Answered, Abort
    <3> QED BY <3>1, <3>2
  <2>3. ASSUME NEW c \in Call, Finally(c) \/ FinallyThrows(c)
        PROVE  outcome'[d] # "none"
    <3>1. outcome' = [outcome EXCEPT ![c] = "none"]
      BY <2>3 DEF Finally, FinallyThrows, End
    <3>2. PICK end : end # "finally" /\ pc' = [pc EXCEPT ![c] = end]
      BY <2>3 DEF Finally, FinallyThrows, End
    <3> QED BY <3>1, <3>2
  <2>4. CASE Refill \/ Tick \/ UNCHANGED vars
    BY <2>4 DEF Refill, Tick, vars
  <2> QED BY <2>1, <2>2, <2>3, <2>4 DEF Next, Ends
<1>4. TypeInv /\ [Next]_vars => TypeInv'
  BY <1>2, <1>3 DEF TypeInv
<1>5. TypeInv => TypeOK
  BY DEF TypeInv
<1> QED BY <1>1, <1>4, <1>5, PTL DEF Spec

-----------------------------------------------------------------------------
\* The calls counted by the balance are finitely many.
LEMMA TakenFinite ==
  ASSUME NEW n \in Nat
  PROVE  IsFiniteSet(TakenWithin(n)) /\ Cardinality(TakenWithin(n)) \in Nat
<1>1. IsFiniteSet(TakenWithin(n))
  BY CrmClientAssumption, FS_Subset DEF TakenWithin
<1> QED BY <1>1, FS_CardinalityType

\* No step but that of taking a token lets a call out, or back in.
LEMMA StaysTaken ==
  ASSUME TypeOK, NEW c \in Call,
         Start(c) \/ Sleep(c) \/ Answered(c) \/ Abort(c) \/ Finally(c)
           \/ FinallyThrows(c)
  PROVE  \A d \in Call : pc'[d] \in {"new", "acquire"} <=> pc[d] \in {"new", "acquire"}
<1>1. CASE Start(c) \/ Sleep(c)
  BY <1>1 DEF Start, Sleep, TypeOK
<1>2. CASE Answered(c) \/ Abort(c)
  BY <1>2 DEF Answered, Abort, TypeOK
<1>3. CASE FinallyThrows(c)
  BY <1>3 DEF FinallyThrows, End, TypeOK
<1>4. CASE Finally(c)
  <2>1. outcome[c] \notin {"new", "acquire"}
    BY DEF TypeOK
  <2> QED BY <1>4, <2>1 DEF Finally, End, TypeOK
<1> QED BY <1>1, <1>2, <1>3, <1>4

\* As time passes, the calls since the last refill stay the same calls.
LEMMA TickKeepsTaken ==
  ASSUME TypeOK, Tick
  PROVE  TakenWithin(phase)' = TakenWithin(phase)
<1> USE CrmClientAssumption DEF TypeOK, Tick, Due
<1>1. phase' = phase + 1 /\ phase < RefillTicks /\ pc' = pc
  OBVIOUS
<1>2. ASSUME NEW c \in Call PROVE flight'[c] < phase' <=> flight[c] < phase
  <2>1. flight'[c] = Older(flight[c], RefillTicks)
    OBVIOUS
  <2> QED BY <1>1, <2>1 DEF Older
<1> QED BY <1>1, <1>2 DEF TakenWithin

\* Since the tick of the last refill no more calls have gone out than the
\* bucket held, however many callers wake in one tick (TokenBucket.acquire).
THEOREM Balance == Spec => []BucketBalance
<1> USE CrmClientAssumption
<1>1. Init => BucketBalance
  <2> SUFFICES ASSUME Init PROVE BucketBalance
    OBVIOUS
  <2>1. TakenWithin(phase) = {}
    BY DEF Init, TakenWithin
  <2> QED BY <2>1, FS_EmptySet DEF Init, BucketBalance
<1>2. TypeOK /\ BucketBalance /\ [Next]_vars => BucketBalance'
  <2> SUFFICES ASSUME TypeOK, BucketBalance, [Next]_vars PROVE BucketBalance'
    OBVIOUS
  <2>0. Cardinality(TakenWithin(phase)) \in Nat /\ IsFiniteSet(TakenWithin(phase))
    BY TakenFinite DEF TypeOK
  <2>1. ASSUME TakenWithin(phase)' = TakenWithin(phase), tokens' = tokens
        PROVE  BucketBalance'
    BY <2>1 DEF BucketBalance
  <2>2. ASSUME NEW c \in Call, Acquire(c) PROVE BucketBalance'
    <3>1. tokens' = tokens - 1 /\ phase' = phase /\ tokens \in Nat
      BY <2>2 DEF Acquire, TypeOK
    <3>2. TakenWithin(phase)' \subseteq TakenWithin(phase) \cup {c}
      BY <2>2, <3>1 DEF Acquire, TakenWithin, TypeOK
    <3>3. c \notin TakenWithin(phase)
      BY <2>2 DEF Acquire, TakenWithin
    <3>4. Cardinality(TakenWithin(phase) \cup {c}) = Cardinality(TakenWithin(phase)) + 1
          /\ IsFiniteSet(TakenWithin(phase) \cup {c})
      BY <2>0, <3>3, FS_AddElement
    <3>5. Cardinality(TakenWithin(phase)') <= Cardinality(TakenWithin(phase)) + 1
          /\ Cardinality(TakenWithin(phase)') \in Nat
      BY <3>2, <3>4, FS_Subset, FS_CardinalityType
    <3> QED BY <2>0, <3>1, <3>5 DEF BucketBalance, TypeOK
  <2>3. CASE Refill
    <3>1. phase' = 0 /\ tokens' = MaxTokens
      BY <2>3 DEF Refill
    <3>2. TakenWithin(phase)' = {}
      BY <2>3, <3>1 DEF Refill, TakenWithin, TypeOK
    <3> QED BY <3>1, <3>2, FS_EmptySet DEF BucketBalance
  <2>4. CASE Tick
    BY <2>1, <2>4, TickKeepsTaken DEF Tick
  <2>5. ASSUME NEW c \in Call,
               Start(c) \/ Sleep(c) \/ Answered(c) \/ Abort(c) \/ Finally(c)
                 \/ FinallyThrows(c)
        PROVE  BucketBalance'
    <3>1. tokens' = tokens /\ phase' = phase /\ flight' = flight
      BY <2>5 DEF Start, Sleep, Answered, Abort, Finally, FinallyThrows, End
    <3>2. \A d \in Call : pc'[d] \in {"new", "acquire"} <=> pc[d] \in {"new", "acquire"}
      BY <2>5, StaysTaken
    <3>3. TakenWithin(phase)' = TakenWithin(phase)
      BY <3>1, <3>2 DEF TakenWithin
    <3> QED BY <2>1, <3>1, <3>3
  <2>6. CASE UNCHANGED vars
    BY <2>1, <2>6 DEF vars, TakenWithin
  <2> QED BY <2>2, <2>3, <2>4, <2>5, <2>6 DEF Next, Acquires, Ends
<1> QED BY <1>1, <1>2, TypeCorrect, PTL DEF Spec

-----------------------------------------------------------------------------
(* Two buckets. Calls that went out in the tick of a refill, before it or  *)
(* after it, are the same age; the set S tells them apart.                 *)

InInterval == TakenWithin(RefillTicks)

\* S is what has gone out since the last refill, and fits into one bucket with
\* the tokens left; the rest of the interval's calls were in the one before.
Since(S) ==
  /\ Cardinality(S) + tokens <= MaxTokens
  /\ Cardinality(InInterval \ S) <= MaxTokens
  /\ \A c \in S : flight[c] <= phase
  /\ \A c \in InInterval \ S : flight[c] >= phase

TwoBucketInv == \E S \in SUBSET InInterval : Since(S)

LEMMA IntervalFinite ==
  ASSUME NEW S \in SUBSET InInterval
  PROVE  IsFiniteSet(S) /\ Cardinality(S) \in Nat
<1>1. IsFiniteSet(InInterval)
  BY CrmClientAssumption, TakenFinite DEF InInterval
<1> QED BY <1>1, FS_Subset, FS_CardinalityType

\* Fewer calls in either bucket, with the ages on the same side of the phase.
LEMMA SinceShrinks ==
  ASSUME TypeOK, TypeOK', NEW S \in SUBSET InInterval, Since(S), tokens' = tokens,
         InInterval' \subseteq InInterval,
         \A c \in InInterval' : /\ flight[c] <= phase => flight'[c] <= phase'
                                /\ flight[c] >= phase => flight'[c] >= phase'
  PROVE  TwoBucketInv'
<1>0. PICK R \in SUBSET InInterval' : R = S \cap InInterval'
  OBVIOUS
<1>1. /\ IsFiniteSet(S) /\ Cardinality(S) \in Nat
      /\ IsFiniteSet(InInterval \ S) /\ Cardinality(InInterval \ S) \in Nat
  BY IntervalFinite
<1>2. Cardinality(R) <= Cardinality(S) /\ Cardinality(R) \in Nat
  BY <1>0, <1>1, FS_Subset, FS_CardinalityType
<1>3. /\ Cardinality(InInterval' \ R) <= Cardinality(InInterval \ S)
      /\ Cardinality(InInterval' \ R) \in Nat
  <2>1. InInterval' \ R \subseteq InInterval \ S
    BY <1>0
  <2> QED BY <1>1, <2>1, FS_Subset, FS_CardinalityType
<1>4. Cardinality(R) + tokens' <= MaxTokens /\ Cardinality(InInterval' \ R) <= MaxTokens
  BY <1>1, <1>2, <1>3, CrmClientAssumption DEF Since, TypeOK
<1>5. /\ \A c \in R : flight'[c] <= phase'
      /\ \A c \in InInterval' \ R : flight'[c] >= phase'
  BY <1>0 DEF Since
<1>6. Since(R)'
  BY <1>4, <1>5 DEF Since
<1> QED BY <1>6 DEF TwoBucketInv

LEMMA TwoBucketStep ==
  ASSUME TypeOK, TypeOK', TwoBucketInv, [Next]_vars
  PROVE  TwoBucketInv'
<1> USE CrmClientAssumption
<1>1. PICK S \in SUBSET InInterval : Since(S)
  BY DEF TwoBucketInv
<1>2. /\ IsFiniteSet(S) /\ Cardinality(S) \in Nat
      /\ IsFiniteSet(InInterval) /\ Cardinality(InInterval \ S) \in Nat
  BY IntervalFinite
<1>3. ASSUME NEW c \in Call, Acquire(c) PROVE TwoBucketInv'
  <2> DEFINE R == S \cup {c}
  <2>1. /\ tokens' = tokens - 1 /\ tokens \in Nat /\ phase' = phase
        /\ flight'[c] = 0 /\ \A d \in Call \ {c} : flight'[d] = flight[d]
        /\ pc[c] = "acquire" /\ pc'[c] \in {"fetch", "finally"}
        /\ \A d \in Call \ {c} : pc'[d] = pc[d]
    BY <1>3 DEF Acquire, TypeOK
  <2>2. InInterval' = InInterval \cup {c} /\ c \notin InInterval
    BY <2>1 DEF InInterval, TakenWithin
  <2>3. R \in SUBSET InInterval' /\ InInterval' \ R = InInterval \ S
    BY <2>2
  <2>4. Cardinality(R) = Cardinality(S) + 1
    BY <1>2, <2>2, FS_AddElement
  <2>5. Cardinality(R) + tokens' <= MaxTokens /\ Cardinality(InInterval' \ R) <= MaxTokens
    BY <1>1, <1>2, <2>1, <2>3, <2>4 DEF Since
  <2>6. \A d \in R : flight'[d] <= phase'
    <3>1. \A d \in S : flight'[d] <= phase'
      BY <1>1, <2>1, <2>2 DEF Since, InInterval, TakenWithin
    <3> QED BY <2>1, <3>1 DEF TypeOK
  <2>7. \A d \in InInterval' \ R : flight'[d] >= phase'
    BY <1>1, <2>1, <2>2, <2>3 DEF Since, InInterval, TakenWithin
  <2> HIDE DEF R
  <2>8. Since(R)'
    BY <2>5, <2>6, <2>7 DEF Since
  <2> QED BY <2>3, <2>8 DEF TwoBucketInv
<1>4. CASE Refill
  <2>1. phase = RefillTicks /\ phase' = 0 /\ tokens' = MaxTokens /\ UNCHANGED <<pc, flight>>
    BY <1>4 DEF Refill
  <2>2. InInterval' = InInterval
    BY <2>1 DEF InInterval, TakenWithin
  <2>3. InInterval \ S = {}
    BY <1>1, <2>1 DEF Since, InInterval, TakenWithin, TypeOK
  <2>4. Cardinality(InInterval) <= MaxTokens
    <3>1. InInterval = S /\ tokens \in Nat
      BY <2>3 DEF TypeOK
    <3> QED BY <1>1, <1>2, <3>1 DEF Since
  <2>5. \A d \in InInterval : flight'[d] >= phase'
    BY <2>1 DEF InInterval, TakenWithin, TypeOK
  <2>6. InInterval' \ {} = InInterval
    BY <2>2
  <2>7. Since({})'
    BY <2>1, <2>4, <2>5, <2>6, FS_EmptySet DEF Since
  <2> QED BY <2>7 DEF TwoBucketInv
<1>5. CASE Tick
  <2>1. /\ phase' = phase + 1 /\ pc' = pc /\ tokens' = tokens
        /\ \A c \in Call : flight'[c] = Older(flight[c], RefillTicks)
    BY <1>5 DEF Tick
  <2>2. ASSUME NEW c \in InInterval'
        PROVE  c \in InInterval /\ flight'[c] = flight[c] + 1
    <3>1. c \in Call /\ flight[c] \in 0..RefillTicks /\ flight'[c] < RefillTicks
      BY <2>2 DEF InInterval, TakenWithin, TypeOK
    <3>2. flight[c] < RefillTicks /\ flight'[c] = flight[c] + 1
      BY <2>1, <3>1 DEF Older
    <3> QED BY <2>1, <2>2, <3>2 DEF InInterval, TakenWithin
  <2>3. \A c \in InInterval' : /\ flight[c] <= phase => flight'[c] <= phase'
                               /\ flight[c] >= phase => flight'[c] >= phase'
    <3>1. \A c \in InInterval : flight[c] \in Nat
      BY DEF InInterval, TakenWithin, TypeOK
    <3> QED BY <2>1, <2>2, <3>1 DEF TypeOK
  <2> QED BY <1>1, <2>1, <2>2, <2>3, SinceShrinks
<1>6. ASSUME NEW c \in Call,
             Start(c) \/ Sleep(c) \/ Answered(c) \/ Abort(c) \/ Finally(c)
               \/ FinallyThrows(c)
      PROVE  TwoBucketInv'
  <2>1. tokens' = tokens /\ phase' = phase /\ flight' = flight
    BY <1>6 DEF Start, Sleep, Answered, Abort, Finally, FinallyThrows, End
  <2>2. \A d \in Call : pc'[d] \in {"new", "acquire"} <=> pc[d] \in {"new", "acquire"}
    BY <1>6, StaysTaken
  <2>3. InInterval' = InInterval
    BY <2>1, <2>2 DEF InInterval, TakenWithin
  <2> QED BY <1>1, <2>1, <2>3, SinceShrinks
<1>7. CASE UNCHANGED vars
  <2>1. InInterval' = InInterval /\ UNCHANGED <<tokens, phase, flight>>
    BY <1>7 DEF vars, InInterval, TakenWithin
  <2> QED BY <1>1, <2>1, SinceShrinks
<1> QED BY <1>3, <1>4, <1>5, <1>6, <1>7 DEF Next, Acquires, Ends

\* In no stretch of a refill interval do more than two buckets full of calls
\* reach the CRM, wherever it begins, however many callers queue and whatever
\* the length of the timers.
THEOREM TwoBuckets == Spec => []AtMostTwoBuckets
<1> USE CrmClientAssumption
<1>1. Init => TwoBucketInv
  <2> SUFFICES ASSUME Init PROVE TwoBucketInv
    OBVIOUS
  <2>1. InInterval = {}
    BY DEF Init, InInterval, TakenWithin
  <2>2. Since({})
    BY <2>1, FS_EmptySet DEF Init, Since
  <2> QED BY <2>2 DEF TwoBucketInv
<1>2. TypeOK /\ TypeOK' /\ TwoBucketInv /\ [Next]_vars => TwoBucketInv'
  BY TwoBucketStep
<1>3. TypeOK /\ TwoBucketInv => AtMostTwoBuckets
  <2> SUFFICES ASSUME TypeOK, TwoBucketInv PROVE AtMostTwoBuckets
    OBVIOUS
  <2>1. PICK S \in SUBSET InInterval : Since(S)
    BY DEF TwoBucketInv
  <2> DEFINE rest == InInterval \ S
  <2>2. /\ IsFiniteSet(S) /\ Cardinality(S) \in Nat
        /\ IsFiniteSet(rest) /\ Cardinality(rest) \in Nat
    BY IntervalFinite
  <2>3. Cardinality(S \cup rest) = Cardinality(S) + Cardinality(rest) - Cardinality(S \cap rest)
    BY <2>2, FS_Union
  <2>4. S \cup rest = InInterval /\ S \cap rest = {}
    OBVIOUS
  <2>5. Cardinality(InInterval) = Cardinality(S) + Cardinality(rest)
    BY <2>2, <2>3, <2>4, FS_EmptySet
  <2> QED BY <2>1, <2>2, <2>5 DEF Since, TypeOK, AtMostTwoBuckets, InInterval
<1> QED BY <1>1, <1>2, <1>3, TypeCorrect, PTL DEF Spec
=============================================================================
