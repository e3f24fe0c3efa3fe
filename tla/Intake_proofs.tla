----------------------------- MODULE Intake_proofs -----------------------------
(***************************************************************************)
(* Theorems about the intake and its debounce buffers, for any deliveries, *)
(* conversations, times and limits.                                        *)
(***************************************************************************)
EXTENDS Intake, FiniteSetTheorems, TLAPS

-----------------------------------------------------------------------------
(* The clock arithmetic *)

LEMMA MaxTwo ==
  ASSUME NEW a \in Int, NEW b \in Int
  PROVE  Max({a, b}) = IF a >= b THEN a ELSE b
<1> DEFINE m == IF a >= b THEN a ELSE b
<1>1. m \in {a, b} /\ \A y \in {a, b} : m >= y
  OBVIOUS
<1>2. \A x \in {a, b} : (\A y \in {a, b} : x >= y) => x = m
  OBVIOUS
<1>3. Max({a, b}) \in {a, b} /\ \A y \in {a, b} : Max({a, b}) >= y
  BY <1>1 DEF Max
<1>4. QED
  BY <1>2, <1>3

LEMMA MinTwo ==
  ASSUME NEW a \in Int, NEW b \in Int
  PROVE  Min({a, b}) = IF a <= b THEN a ELSE b
<1> DEFINE m == IF a <= b THEN a ELSE b
<1>1. m \in {a, b} /\ \A y \in {a, b} : m <= y
  OBVIOUS
<1>2. \A x \in {a, b} : (\A y \in {a, b} : x <= y) => x = m
  OBVIOUS
<1>3. Min({a, b}) \in {a, b} /\ \A y \in {a, b} : Min({a, b}) <= y
  BY <1>1 DEF Min
<1>4. QED
  BY <1>2, <1>3

LEMMA Bounds ==
  /\ AgeCap \in Nat /\ MaxWait \in Nat
  /\ DebounceMs <= MaxWait /\ QuietMs <= MaxWait
<1>1. DebounceMs \in Nat /\ QuietMs \in Nat /\ MaxTotalMs \in Nat
        /\ MaxBuffered \in Nat
  BY IntakeAssumption
<1>2. MaxBuffered * QuietMs \in Nat
  BY <1>1
<1>3. QED
  BY <1>1, <1>2, MaxTwo DEF AgeCap, MaxWait

\* The wait set by a new message stays within the two windows.
LEMMA NextWaitBound ==
  ASSUME NEW d \in Delivery, age[d] \in 0..AgeCap
  PROVE  NextWait(d) \in 0..MaxWait /\ NextWait(d) >= QuietMs
<1>1. DebounceMs \in Nat /\ QuietMs \in Nat /\ MaxTotalMs \in Nat
        /\ age[d] \in Int
  BY IntakeAssumption, Bounds
<1> DEFINE rest == MaxTotalMs - age[d]
           open == Max({0, rest})
           step == Min({DebounceMs, open})
<1>2. open \in Nat
  BY <1>1, MaxTwo
<1> HIDE DEF open
<1>3. step \in Nat /\ step <= DebounceMs
  BY <1>1, <1>2, MinTwo
<1> HIDE DEF step
<1>4. Max({QuietMs, step}) = IF QuietMs >= step THEN QuietMs ELSE step
  BY <1>1, <1>3, MaxTwo
<1>5. NextWait(d) = Max({QuietMs, step})
  BY DEF NextWait, step, open
<1>6. QED
  BY <1>1, <1>3, <1>4, <1>5, Bounds

LEMMA CountType ==
  ASSUME NEW s \in Seq(Delivery), NEW d \in Delivery
  PROVE  Cardinality({i \in DOMAIN s : s[i] = d}) \in Nat
<1>1. IsFiniteSet(1..Len(s))
  BY FS_Interval
<1>2. {i \in DOMAIN s : s[i] = d} \subseteq 1..Len(s)
  OBVIOUS
<1>3. QED
  BY <1>1, <1>2, FS_Subset, FS_CardinalityType

-----------------------------------------------------------------------------
(* Type correctness *)

LEMMA ChatType == ChatOf \in [Delivery -> Conversation]
BY IntakeAssumption DEF ChatOf

\* Where append_messages is, there is a message.
LEMMA CopyType ==
  ASSUME TypeOK
  PROVE  /\ Len(Copied) \in Nat
         /\ at # Len(Copied) + 1 => Copied[at] \in Message
                                       /\ at + 1 \in 1..(Len(Copied) + 1)
<1>1. Copied \in Seq(Message) /\ Len(Copied) \in Nat
  BY IntakeAssumption
<1>2. at # Len(Copied) + 1 => at \in 1..Len(Copied)
  BY <1>1 DEF TypeOK
<1>3. QED
  BY <1>1, <1>2

LEMMA TypeInit == Init => TypeOK
<1> SUFFICES ASSUME Init PROVE TypeOK
  OBVIOUS
<1>1. 0 \in 0..AgeCap
  BY Bounds
<1>2. QED
  BY <1>1, IntakeAssumption DEF Init, TypeOK

LEMMA HandType ==
  ASSUME TypeOK, NEW s \in Seq(Delivery), HandToAgent(s)
  PROVE  handed' \in [Delivery -> Nat]
<1> DEFINE count(d) == Cardinality({i \in DOMAIN s : s[i] = d})
<1>1. \A d \in Delivery : count(d) \in Nat
  BY CountType
<1>2. handed' = [d \in Delivery |-> handed[d] + count(d)]
  BY DEF HandToAgent
<1> HIDE DEF count
<1>3. QED
  BY <1>1, <1>2 DEF TypeOK

\* The three ways a message enters a buffer.
LEMMA QueueType ==
  ASSUME TypeOK, NEW d \in Delivery,
         OpenBuffer(d) \/ ExtendBuffer(d) \/ FillBuffer(d)
  PROVE  TypeOK'
<1>1. CASE OpenBuffer(d)
  <2>1. [array |-> d, left |-> DebounceMs] \in Timer
    BY Bounds, IntakeAssumption DEF Timer
  <2>2. timers' \subseteq Timer
    BY <1>1, <2>1 DEF OpenBuffer, TypeOK
  <2>3. list' \in [Delivery -> Seq(Delivery)]
    BY <1>1 DEF OpenBuffer, TypeOK
  <2>4. pending' \in [Conversation -> Delivery \cup {NoBuffer}]
    BY <1>1, ChatType DEF OpenBuffer, TypeOK
  <2>5. QED
    BY <1>1, <2>2, <2>3, <2>4 DEF OpenBuffer, TypeOK, Goto, tool
<1>2. CASE ExtendBuffer(d)
  <2> DEFINE array == pending[ChatOf[d]]
  <2>1. array \in Delivery
    BY <1>2, ChatType DEF ExtendBuffer, TypeOK
  <2>2. list' = [list EXCEPT ![array] = Append(list[array], d)]
    BY <1>2 DEF ExtendBuffer
  <2>3. list' \in [Delivery -> Seq(Delivery)]
    BY <2>1, <2>2 DEF TypeOK
  <2>4. [array |-> array, left |-> NextWait(array)] \in Timer
    BY <2>1, NextWaitBound DEF Timer, TypeOK
  <2>5. timers' \subseteq Timer
    BY <1>2, <2>4 DEF ExtendBuffer, TypeOK, StopTimer
  <2>6. since' \in [Delivery -> 0..AgeCap]
    BY <1>2, <2>1, Bounds DEF ExtendBuffer, TypeOK
  <2>7. QED
    BY <1>2, <2>3, <2>5, <2>6 DEF ExtendBuffer, TypeOK, Goto, tool
<1>3. CASE FillBuffer(d)
  <2> DEFINE array == pending[ChatOf[d]]
  <2>1. array \in Delivery
    BY <1>3, ChatType DEF FillBuffer, TypeOK
  <2>2. list' = [list EXCEPT ![array] = Append(list[array], d)]
    BY <1>3 DEF FillBuffer
  <2>3. list' \in [Delivery -> Seq(Delivery)]
    BY <2>1, <2>2 DEF TypeOK
  <2>4. handed' \in [Delivery -> Nat]
    <3>1. HandToAgent(list'[array])
      BY <1>3 DEF FillBuffer
    <3>2. list'[array] \in Seq(Delivery)
      BY <2>1, <2>3
    <3>3. QED
      BY <3>1, <3>2, HandType
  <2>5. pending' \in [Conversation -> Delivery \cup {NoBuffer}]
    BY <1>3, ChatType DEF FillBuffer, TypeOK
  <2>6. timers' \subseteq Timer
    BY <1>3 DEF FillBuffer, TypeOK, StopTimer
  <2>7. QED
    BY <1>3, <2>3, <2>4, <2>5, <2>6 DEF FillBuffer, TypeOK, Goto, tool
<1>4. QED
  BY <1>1, <1>2, <1>3

LEMMA TickType == ASSUME TypeOK, Tick PROVE TypeOK'
<1>1. timers' \subseteq Timer
  <2> SUFFICES ASSUME NEW t \in timers
               PROVE  [t EXCEPT !.left = @ - 1] \in Timer
    BY DEF Tick
  <2>1. t \in Timer /\ t.left \in 0..MaxWait /\ t.left > 0
    BY DEF Tick, TypeOK, Timer
  <2>2. t.left - 1 \in 0..MaxWait
    BY <2>1, Bounds
  <2>3. QED
    BY <2>1, <2>2 DEF Timer
<1>2. ASSUME NEW n \in 0..AgeCap PROVE Min({AgeCap, n + 1}) \in 0..AgeCap
  BY Bounds, MinTwo
<1>3. age' \in [Delivery -> 0..AgeCap]
  BY <1>2 DEF Tick, TypeOK
<1>4. since' \in [Delivery -> 0..AgeCap]
  BY <1>2 DEF Tick, TypeOK
<1>5. QED
  BY <1>1, <1>3, <1>4 DEF Tick, TypeOK, tool

LEMMA TypeStep == TypeOK /\ [Next]_vars => TypeOK'
<1> SUFFICES ASSUME TypeOK, [Next]_vars PROVE TypeOK'
  OBVIOUS
<1>1. ASSUME NEW d \in Delivery,
             \/ Arrive(d) \/ OpenConversation(d) \/ SelectMessage(d)
             \/ UpdateLastInbound(d) \/ CheckIgnore(d) \/ CheckAllowed(d)
             \/ HandlerThrows(d)
      PROVE  TypeOK'
  <2>1. UNCHANGED <<stored, ignored, buffers, tool>>
    BY <1>1 DEF Arrive, OpenConversation, SelectMessage, UpdateLastInbound,
       CheckIgnore, CheckAllowed, HandlerThrows
  <2>2. \E next \in {"open", "select", "insert", "ignore", "allow", "enqueue",
                      "done"} : pc' = [pc EXCEPT ![d] = next]
    BY <1>1 DEF Arrive, OpenConversation, SelectMessage, UpdateLastInbound,
       CheckIgnore, CheckAllowed, HandlerThrows, Goto
  <2>3. QED
    BY <2>1, <2>2 DEF TypeOK, buffers, tool
<1>2. ASSUME NEW d \in Delivery, InsertMessage(d) PROVE TypeOK'
  <2>1. MsgOf[d] \in Message /\ stored[MsgOf[d]] \in Nat
    BY IntakeAssumption DEF TypeOK
  <2>2. stored' \in [Message -> Nat]
    BY <1>2, <2>1 DEF InsertMessage, TypeOK
  <2>3. pc' = [pc EXCEPT ![d] = "done"] \/ pc' = [pc EXCEPT ![d] = "touch"]
    BY <1>2 DEF InsertMessage, Goto
  <2>4. QED
    BY <1>2, <2>2, <2>3 DEF InsertMessage, TypeOK, buffers, tool
<1>3. ASSUME NEW c \in Conversation, SetIgnore(c) PROVE TypeOK'
  BY <1>3 DEF SetIgnore, TypeOK, buffers, tool
<1>4. ASSUME NEW t \in timers, Fire(t) PROVE TypeOK'
  <2>1. t \in Timer /\ t.array \in Delivery
    BY DEF TypeOK, Timer
  <2>2. list[t.array] \in Seq(Delivery)
    BY <2>1 DEF TypeOK
  <2>3. handed' \in [Delivery -> Nat]
    BY <1>4, <2>2, HandType DEF Fire
  <2>4. pending' \in [Conversation -> Delivery \cup {NoBuffer}]
    BY <1>4, <2>1, ChatType DEF Fire, TypeOK
  <2>5. QED
    BY <1>4, <2>3, <2>4 DEF Fire, TypeOK, tool
<1>5. CASE Crash
  BY <1>5 DEF Crash, TypeOK, tool
<1>6. CASE AppendMessages
  <2>1. UNCHANGED <<ignored, pc, buffers>>
    BY <1>6 DEF AppendMessages, CopySelect, CopyInsert, CopyEnds
  <2>2. CASE CopySelect
    BY <2>1, <2>2, CopyType DEF CopySelect, TypeOK, buffers
  <2>3. CASE CopyInsert
    <3>1. Copied[at] \in Message /\ at + 1 \in 1..(Len(Copied) + 1)
      BY <2>3, CopyType DEF CopyInsert, TypeOK
    <3>2. stored' \in [Message -> Nat]
      <4>1. stored \in [Message -> Nat]
        BY DEF TypeOK
      <4>2. \/ stored' = stored
            \/ stored' = [stored EXCEPT ![Copied[at]] = @ + 1]
        BY <2>3 DEF CopyInsert
      <4>3. QED
        BY <3>1, <4>1, <4>2
    <3>3. at' \in 1..(Len(Copied) + 1) /\ copier' = "select"
      BY <2>3, <3>1, CopyType DEF CopyInsert
    <3>4. QED
      BY <2>1, <3>2, <3>3 DEF TypeOK, buffers
  <2>4. CASE CopyEnds
    BY <2>1, <2>4, CopyType DEF CopyEnds, TypeOK, buffers
  <2>5. QED
    BY <1>6, <2>2, <2>3, <2>4 DEF AppendMessages
<1>7. CASE UNCHANGED vars
  BY <1>7 DEF vars, TypeOK
<1>8. QED
  BY <1>1, <1>2, <1>3, <1>4, <1>5, <1>6, <1>7, QueueType, TickType
  DEF Next, Step, FireSome

\* The type invariant of module Intake, for any deliveries, times and limits.
THEOREM TypeCorrect == Spec => []TypeOK
<1>1. QED
  BY TypeInit, TypeStep, PTL DEF Spec
-----------------------------------------------------------------------------
(* One timer for each buffer                                               *)


\* An array belongs to the conversation that holds it, and was created by a
\* delivery whose handler has left the queue: a new array is never taken for
\* one that is still in use.
ArraysInUse ==
  /\ \A c \in Conversation : pending[c] # NoBuffer =>
       ChatOf[pending[c]] = c /\ pc[pending[c]] = "done"
  /\ \A t \in timers : pc[t.array] = "done"

QueueInv == TypeOK /\ ArraysInUse /\ OneTimerPerBuffer

LEMMA QueueInvInit == Init => QueueInv
<1> SUFFICES ASSUME Init PROVE QueueInv
  OBVIOUS
<1>1. QED
  BY TypeInit DEF Init, QueueInv, ArraysInUse, OneTimerPerBuffer

\* A step that leaves the map and the timers alone and ends no handler the
\* invariant speaks of.
LEMMA OtherStep ==
  ASSUME QueueInv, TypeOK', UNCHANGED <<pending, timers>>,
         \A d \in Delivery : pc[d] = "done" => pc'[d] = "done"
  PROVE  QueueInv'
<1>1. \A c \in Conversation : pending[c] # NoBuffer => pending[c] \in Delivery
  BY DEF QueueInv, TypeOK
<1>2. \A t \in timers : t.array \in Delivery
  BY DEF QueueInv, TypeOK, Timer
<1>3. ArraysInUse'
  BY <1>1, <1>2 DEF QueueInv, ArraysInUse
<1>4. OneTimerPerBuffer'
  BY DEF QueueInv, OneTimerPerBuffer
<1>5. QED
  BY <1>3, <1>4 DEF QueueInv

LEMMA OpenBufferInv ==
  ASSUME QueueInv, TypeOK', NEW d \in Delivery, OpenBuffer(d)
  PROVE  QueueInv'
<1> DEFINE c == ChatOf[d]
           new == [array |-> d, left |-> DebounceMs]
<1>1. /\ c \in Conversation /\ pending[c] = NoBuffer /\ pc[d] = "enqueue"
      /\ pending' = [pending EXCEPT ![c] = d]
      /\ timers' = timers \cup {new} /\ pc' = [pc EXCEPT ![d] = "done"]
  BY ChatType DEF OpenBuffer, Goto
<1>2. \A t \in timers : t.array \in Delivery /\ t.array # d
  BY <1>1 DEF QueueInv, ArraysInUse, TypeOK, Timer
<1>3. d # NoBuffer
  BY IntakeAssumption
<1>4. \A b \in Conversation : pending[b] # NoBuffer =>
        pending[b] \in Delivery /\ pending[b] # d
  BY <1>1 DEF QueueInv, ArraysInUse, TypeOK
<1>5. ArraysInUse'
  <2>1. pc'[d] = "done" /\ \A q \in Delivery : q # d => pc'[q] = pc[q]
    BY <1>1 DEF QueueInv, TypeOK
  <2>2. pending'[c] = d
          /\ \A b \in Conversation : b # c => pending'[b] = pending[b]
    BY <1>1 DEF QueueInv, TypeOK
  <2>3. QED
    BY <1>1, <1>2, <1>3, <1>4, <2>1, <2>2 DEF QueueInv, ArraysInUse
<1>6. \A t \in timers : ChatOf[t.array] # c
  BY <1>1, <1>2, IntakeAssumption DEF QueueInv, OneTimerPerBuffer
<1>7. \A t \in timers : ChatOf[t.array] \in Conversation
  BY <1>2, ChatType
<1>8. \A t \in timers' : pending'[ChatOf[t.array]] = t.array
  <2>1. new.array = d /\ pending'[c] = d
    BY <1>1 DEF QueueInv, TypeOK
  <2>2. ASSUME NEW t \in timers
        PROVE  pending'[ChatOf[t.array]] = t.array
    BY <1>1, <1>6, <1>7 DEF QueueInv, OneTimerPerBuffer, TypeOK
  <2>3. QED
    BY <1>1, <2>1, <2>2
<1>9. \A b \in Conversation : pending'[b] # NoBuffer =>
        \E t \in timers' : t.array = pending'[b]
  <2> SUFFICES ASSUME NEW b \in Conversation, pending'[b] # NoBuffer
               PROVE  \E t \in timers' : t.array = pending'[b]
    OBVIOUS
  <2>1. CASE b = c
    <3>1. new \in timers' /\ new.array = pending'[b]
      BY <1>1, <2>1 DEF QueueInv, TypeOK
    <3>2. QED
      BY <3>1
  <2>2. CASE b # c
    BY <1>1, <2>2 DEF QueueInv, OneTimerPerBuffer, TypeOK
  <2>3. QED
    BY <2>1, <2>2
<1>10. \A t, u \in timers' : t.array = u.array => t = u
  BY <1>1, <1>2 DEF QueueInv, OneTimerPerBuffer
<1>11. QED
  BY <1>5, <1>8, <1>9, <1>10 DEF QueueInv, OneTimerPerBuffer

LEMMA ExtendBufferInv ==
  ASSUME QueueInv, TypeOK', NEW d \in Delivery, ExtendBuffer(d)
  PROVE  QueueInv'
<1> DEFINE c == ChatOf[d]
           array == pending[c]
           new == [array |-> array, left |-> NextWait(array)]
<1>1. /\ c \in Conversation /\ array \in Delivery /\ array # NoBuffer
      /\ pending' = pending /\ pc' = [pc EXCEPT ![d] = "done"]
      /\ timers' = {t \in timers : t.array # array} \cup {new}
  BY ChatType DEF ExtendBuffer, Goto, StopTimer, QueueInv, TypeOK
<1>2. new.array = array
  OBVIOUS
<1> HIDE DEF new
<1>3. \A t \in timers' : t = new \/ (t \in timers /\ t.array # array)
  BY <1>1
<1>4. \A t \in timers : t.array \in Delivery
  BY DEF QueueInv, TypeOK, Timer
<1>5. \A b \in Conversation : pending[b] # NoBuffer => pending[b] \in Delivery
  BY DEF QueueInv, TypeOK
<1>6. \A q \in Delivery : pc[q] = "done" => pc'[q] = "done"
  BY <1>1 DEF QueueInv, TypeOK
<1>7. ChatOf[array] = c /\ pc[array] = "done"
  BY <1>1 DEF QueueInv, ArraysInUse
<1>8. ArraysInUse'
  BY <1>1, <1>2, <1>3, <1>4, <1>5, <1>6, <1>7 DEF QueueInv, ArraysInUse
<1>9. \A t \in timers' : pending'[ChatOf[t.array]] = t.array
  BY <1>1, <1>2, <1>3, <1>7 DEF QueueInv, OneTimerPerBuffer
<1>10. \A b \in Conversation : pending'[b] # NoBuffer =>
        \E t \in timers' : t.array = pending'[b]
  BY <1>1, <1>2 DEF QueueInv, OneTimerPerBuffer
<1>11. \A t, u \in timers' : t.array = u.array => t = u
  BY <1>2, <1>3 DEF QueueInv, OneTimerPerBuffer
<1>12. QED
  BY <1>8, <1>9, <1>10, <1>11 DEF QueueInv, OneTimerPerBuffer

\* A buffer leaves the map together with its timer.
LEMMA CloseInv ==
  ASSUME QueueInv, TypeOK', NEW c \in Conversation, pending[c] # NoBuffer,
         pending' = [pending EXCEPT ![c] = NoBuffer],
         timers' = {t \in timers : t.array # pending[c]},
         \A d \in Delivery : pc[d] = "done" => pc'[d] = "done"
  PROVE  QueueInv'
<1>1. \A t \in timers : t.array \in Delivery
  BY DEF QueueInv, TypeOK, Timer
<1>2. \A b \in Conversation : pending'[b] # NoBuffer =>
        b # c /\ pending'[b] = pending[b] /\ pending[b] \in Delivery
  BY DEF QueueInv, TypeOK
<1>3. \A b \in Conversation : pending[b] # NoBuffer => ChatOf[pending[b]] = b
  BY DEF QueueInv, ArraysInUse
<1>4. ArraysInUse'
  BY <1>1, <1>2 DEF QueueInv, ArraysInUse
<1>5. \A t \in timers' : ChatOf[t.array] # c
  BY DEF QueueInv, OneTimerPerBuffer
<1>6. \A t \in timers' : ChatOf[t.array] \in Conversation
  BY <1>1, ChatType
<1>7. \A t \in timers' : pending'[ChatOf[t.array]] = t.array
  BY <1>5, <1>6 DEF QueueInv, OneTimerPerBuffer, TypeOK
<1>8. \A b \in Conversation : pending'[b] # NoBuffer =>
        \E t \in timers' : t.array = pending'[b]
  BY <1>2, <1>3 DEF QueueInv, OneTimerPerBuffer
<1>9. \A t, u \in timers' : t.array = u.array => t = u
  BY DEF QueueInv, OneTimerPerBuffer
<1>10. QED
  BY <1>4, <1>7, <1>8, <1>9 DEF QueueInv, OneTimerPerBuffer

LEMMA FillBufferInv ==
  ASSUME QueueInv, TypeOK', NEW d \in Delivery, FillBuffer(d)
  PROVE  QueueInv'
<1>1. ChatOf[d] \in Conversation
  BY ChatType
<1>2. \A q \in Delivery : pc[q] = "done" => pc'[q] = "done"
  BY DEF FillBuffer, Goto, QueueInv, TypeOK
<1>3. QED
  BY <1>1, <1>2, CloseInv DEF FillBuffer, StopTimer

LEMMA FireInv ==
  ASSUME QueueInv, TypeOK', NEW t \in timers, Fire(t)
  PROVE  QueueInv'
<1> DEFINE c == ChatOf[t.array]
<1>1. t.array \in Delivery
  BY DEF QueueInv, TypeOK, Timer
<1>2. c \in Conversation /\ pending[c] = t.array /\ pending[c] # NoBuffer
  BY <1>1, ChatType, IntakeAssumption DEF QueueInv, OneTimerPerBuffer
<1>3. timers' = {u \in timers : u.array # pending[c]}
  BY <1>2 DEF Fire, QueueInv, OneTimerPerBuffer
<1>4. QED
  BY <1>2, <1>3, CloseInv DEF Fire

LEMMA TickInv ==
  ASSUME QueueInv, TypeOK', Tick
  PROVE  QueueInv'
<1> DEFINE older(t) == [t EXCEPT !.left = @ - 1]
<1>1. timers' = {older(t) : t \in timers} /\ UNCHANGED <<pending, pc>>
  BY DEF Tick
<1>2. \A t \in timers : older(t).array = t.array
  BY DEF QueueInv, TypeOK, Timer
<1> HIDE DEF older
<1>3. ArraysInUse'
  BY <1>1, <1>2 DEF QueueInv, ArraysInUse
<1>4. OneTimerPerBuffer'
  BY <1>1, <1>2 DEF QueueInv, OneTimerPerBuffer
<1>5. QED
  BY <1>3, <1>4 DEF QueueInv

LEMMA QueueInvStep == QueueInv /\ [Next]_vars => QueueInv'
<1> SUFFICES ASSUME QueueInv, [Next]_vars PROVE QueueInv'
  OBVIOUS
<1>1. TypeOK'
  BY TypeStep DEF QueueInv
<1>2. ASSUME NEW d \in Delivery,
             \/ Arrive(d) \/ OpenConversation(d) \/ SelectMessage(d)
             \/ InsertMessage(d) \/ UpdateLastInbound(d) \/ CheckIgnore(d)
             \/ CheckAllowed(d) \/ HandlerThrows(d)
      PROVE  QueueInv'
  <2>1. UNCHANGED <<pending, timers>> /\ pc[d] # "done"
    BY <1>2 DEF Arrive, OpenConversation, SelectMessage, InsertMessage,
       UpdateLastInbound, CheckIgnore, CheckAllowed, HandlerThrows, buffers
  <2>2. \E next : pc' = [pc EXCEPT ![d] = next]
    BY <1>2 DEF Arrive, OpenConversation, SelectMessage, InsertMessage,
       UpdateLastInbound, CheckIgnore, CheckAllowed, HandlerThrows, Goto
  <2>3. \A q \in Delivery : pc[q] = "done" => pc'[q] = "done"
    BY <2>1, <2>2 DEF QueueInv, TypeOK
  <2>4. QED
    BY <1>1, <2>1, <2>3, OtherStep
<1>3. ASSUME NEW c \in Conversation, SetIgnore(c) PROVE QueueInv'
  BY <1>1, <1>3, OtherStep DEF SetIgnore, buffers, tool
<1>4. CASE Crash
  BY <1>1, <1>4 DEF Crash, QueueInv, ArraysInUse, OneTimerPerBuffer
<1>5. CASE AppendMessages
  BY <1>1, <1>5, OtherStep
  DEF AppendMessages, CopySelect, CopyInsert, CopyEnds, buffers
<1>6. CASE UNCHANGED vars
  BY <1>1, <1>6, OtherStep DEF vars
<1>7. QED
  BY <1>1, <1>2, <1>3, <1>4, <1>5, <1>6, OpenBufferInv, ExtendBufferInv,
     FillBufferInv, FireInv, TickInv DEF Next, Step, FireSome

\* No buffer is ever without the timer that closes it, and no timer closes a
\* buffer that is not its own, whatever handlers overlap and whenever the
\* process dies.
THEOREM BuffersAndTimers == Spec => []OneTimerPerBuffer
<1>1. QueueInv => OneTimerPerBuffer
  BY DEF QueueInv
<1>2. QED
  BY <1>1, QueueInvInit, QueueInvStep, PTL DEF Spec

-----------------------------------------------------------------------------
(* One row for each message *)

\* A delivery that has passed the store has its row, wherever it is now.
HasRow(d) == stored[MsgOf[d]] > 0

StoreInv ==
  /\ \A m \in Ided : stored[m] <= 1
  /\ \A d \in Delivery :
       /\ pc[d] \in {"touch", "ignore", "allow", "enqueue"} => HasRow(d)
       /\ \A i \in DOMAIN list[d] : HasRow(list[d][i])
       /\ handed[d] > 0 => HasRow(d)

LEMMA ListType ==
  ASSUME TypeOK, NEW q \in Delivery, NEW i \in DOMAIN list[q]
  PROVE  list[q][i] \in Delivery
<1>1. list[q] \in Seq(Delivery)
  BY DEF TypeOK
<1>2. QED
  BY <1>1

\* What the agent is given comes from an array.
LEMMA HandStored ==
  ASSUME TypeOK, StoreInv, NEW s \in Seq(Delivery), HandToAgent(s),
         \A i \in DOMAIN s : HasRow(s[i]),
         NEW d \in Delivery, handed'[d] > 0
  PROVE  HasRow(d)
<1>1. CASE \E i \in DOMAIN s : s[i] = d
  BY <1>1
<1>2. CASE \A i \in DOMAIN s : s[i] # d
  <2>1. {i \in DOMAIN s : s[i] = d} = {}
    BY <1>2
  <2>2. handed'[d] = handed[d] + 0
    BY <2>1, FS_EmptySet DEF HandToAgent
  <2>3. QED
    BY <2>2 DEF StoreInv, TypeOK
<1>3. QED
  BY <1>1, <1>2

LEMMA StoreInvStep ==
  ASSUME TypeOK, TypeOK', StoreInv, [Next]_vars
  PROVE  StoreInv'
<1> USE IntakeAssumption
<1>1. ASSUME NEW d \in Delivery,
             \/ Arrive(d) \/ OpenConversation(d) \/ SelectMessage(d)
             \/ UpdateLastInbound(d) \/ CheckIgnore(d) \/ CheckAllowed(d)
             \/ HandlerThrows(d)
      PROVE  StoreInv'
  <2>1. UNCHANGED <<stored, list, handed>>
    BY <1>1 DEF Arrive, OpenConversation, SelectMessage, UpdateLastInbound,
       CheckIgnore, CheckAllowed, HandlerThrows, buffers
  <2>2. PICK next : /\ pc' = [pc EXCEPT ![d] = next]
                    /\ next \in {"touch", "ignore", "allow", "enqueue"}
                         => HasRow(d)
    <3>1. CASE SelectMessage(d)
      <4>1. \/ HasRow(d) /\ pc' = [pc EXCEPT ![d] = "ignore"]
            \/ pc' = [pc EXCEPT ![d] = "insert"]
        BY <3>1 DEF SelectMessage, Goto, HasRow
      <4>2. QED
        BY <4>1
    <3>2. CASE \/ Arrive(d) \/ OpenConversation(d) \/ HandlerThrows(d)
      <4>1. \/ pc' = [pc EXCEPT ![d] = "open"]
            \/ pc' = [pc EXCEPT ![d] = "select"]
            \/ pc' = [pc EXCEPT ![d] = "done"]
        BY <3>2 DEF Arrive, OpenConversation, HandlerThrows, Goto
      <4>2. QED
        BY <4>1
    <3>3. CASE \/ UpdateLastInbound(d) \/ CheckIgnore(d) \/ CheckAllowed(d)
      <4>1. HasRow(d)
        BY <3>3 DEF UpdateLastInbound, CheckIgnore, CheckAllowed, StoreInv
      <4>2. QED
        BY <3>3, <4>1 DEF UpdateLastInbound, CheckIgnore, CheckAllowed, Goto
    <3>4. QED
      BY <1>1, <3>1, <3>2, <3>3
  <2>3. \A q \in Delivery : pc'[q] = IF q = d THEN next ELSE pc[q]
    BY <2>2 DEF TypeOK
  <2>4. QED
    BY <2>1, <2>2, <2>3 DEF StoreInv, HasRow
<1>2. ASSUME NEW d \in Delivery, InsertMessage(d) PROVE StoreInv'
  <2> DEFINE m == MsgOf[d]
  <2>1. m \in Message
    OBVIOUS
  <2>2. UNCHANGED <<list, handed>>
    BY <1>2 DEF InsertMessage, buffers
  <2>3. CASE m \in Ided /\ stored[m] > 0
    BY <1>2, <2>1, <2>2, <2>3 DEF InsertMessage, Goto, StoreInv, HasRow, TypeOK
  <2>4. CASE ~(m \in Ided /\ stored[m] > 0)
    <3>1. stored' = [stored EXCEPT ![m] = stored[m] + 1]
            /\ pc' = [pc EXCEPT ![d] = "touch"]
      BY <1>2, <2>4 DEF InsertMessage, Goto
    <3>2. stored'[m] > 0 /\ (m \in Ided => stored'[m] = 1)
      <4>1. stored \in [Message -> Nat]
        BY DEF TypeOK
      <4>2. m \in Ided => stored[m] = 0
        BY <2>1, <2>4, <4>1
      <4>3. QED
        BY <2>1, <3>1, <4>1, <4>2
    <3>3. \A n \in Message : n # m => stored'[n] = stored[n]
      BY <3>1 DEF TypeOK
    <3>4. \A q \in Delivery : HasRow(q) => HasRow(q)'
      BY <3>2, <3>3 DEF HasRow
    <3>5. \A q \in Delivery : q # d => pc'[q] = pc[q]
      BY <3>1 DEF TypeOK
    <3>6. HasRow(d)'
      BY <3>2 DEF HasRow
    <3>7. \A q \in Delivery : \A i \in DOMAIN list[q] : list[q][i] \in Delivery
      BY ListType
    <3>8. \A n \in Ided : stored'[n] <= 1
      BY <3>2, <3>3 DEF StoreInv
    <3>9. QED
      BY <2>2, <3>4, <3>5, <3>6, <3>7, <3>8 DEF StoreInv
  <2>5. QED
    BY <2>3, <2>4
<1>3. ASSUME NEW d \in Delivery, OpenBuffer(d) PROVE StoreInv'
  BY <1>3, SMTT(30) DEF OpenBuffer, Goto, StoreInv, HasRow, TypeOK
<1>4. ASSUME NEW d \in Delivery, NEW array \in Delivery,
             pc[d] = "enqueue", pc' = [pc EXCEPT ![d] = "done"],
             list' = [list EXCEPT ![array] = Append(@, d)],
             stored' = stored
      PROVE  /\ \A i \in DOMAIN list'[array] : HasRow(list'[array][i])
             /\ \A q \in Delivery :
                  /\ pc'[q] \in {"touch", "ignore", "allow", "enqueue"}
                       => HasRow(q)'
                  /\ \A i \in DOMAIN list'[q] : HasRow(list[q][i])'
  <2>1. HasRow(d)
    BY <1>4 DEF StoreInv
  <2>2. \A q \in Delivery : list[q] \in Seq(Delivery)
    BY DEF TypeOK
  <2>3. list'[array] = Append(list[array], d)
    BY <1>4 DEF TypeOK
  <2>4. \A i \in DOMAIN list'[array] : HasRow(list'[array][i])
    <3>1. \A i \in DOMAIN Append(list[array], d) :
            \/ Append(list[array], d)[i] = d
            \/ i \in DOMAIN list[array]
                 /\ Append(list[array], d)[i] = list[array][i]
      BY <2>2
    <3>2. QED
      BY <2>1, <2>3, <3>1 DEF StoreInv
  <2>5. \A q \in Delivery : q # array => list'[q] = list[q]
    BY <1>4 DEF TypeOK
  <2>6. \A q : HasRow(q)' <=> HasRow(q)
    BY <1>4 DEF HasRow
  <2>7. \A q \in Delivery : pc'[q] = pc[q] \/ pc'[q] = "done"
    BY <1>4 DEF TypeOK
  <2>8. \A q \in Delivery : \A i \in DOMAIN list'[q] : HasRow(list[q][i])'
    <3>1. \A q \in Delivery : \A i \in DOMAIN list[q] : HasRow(list[q][i])
      BY DEF StoreInv
    <3>2. \A q \in Delivery : \A i \in DOMAIN list'[q] : HasRow(list'[q][i])
      BY <2>4, <2>5, <3>1
    <3>3. QED
      BY <1>4, <3>2 DEF HasRow
  <2>9. QED
    BY <2>4, <2>6, <2>7, <2>8 DEF StoreInv
<1>5. ASSUME NEW d \in Delivery, ExtendBuffer(d) PROVE StoreInv'
  <2> DEFINE array == pending[ChatOf[d]]
  <2>1. array \in Delivery
    BY <1>5, ChatType DEF ExtendBuffer, TypeOK
  <2>2. /\ pc[d] = "enqueue" /\ pc' = [pc EXCEPT ![d] = "done"]
        /\ list' = [list EXCEPT ![array] = Append(@, d)]
        /\ stored' = stored /\ handed' = handed
    BY <1>5 DEF ExtendBuffer, Goto
  <2> HIDE DEF array
  <2>3. QED
    BY <1>4, <2>1, <2>2 DEF StoreInv, HasRow
<1>6. ASSUME NEW d \in Delivery, FillBuffer(d) PROVE StoreInv'
  <2> DEFINE array == pending[ChatOf[d]]
  <2>1. array \in Delivery
    BY <1>6, ChatType DEF FillBuffer, TypeOK
  <2>2. /\ pc[d] = "enqueue" /\ pc' = [pc EXCEPT ![d] = "done"]
        /\ list' = [list EXCEPT ![array] = Append(@, d)]
        /\ stored' = stored /\ HandToAgent(list'[array])
    BY <1>6 DEF FillBuffer, Goto
  <2> HIDE DEF array
  <2>3. \A i \in DOMAIN list'[array] : HasRow(list'[array][i])
    BY <1>4, <2>1, <2>2
  <2>4. list'[array] \in Seq(Delivery)
    BY <2>1 DEF TypeOK
  <2>5. \A q \in Delivery : handed'[q] > 0 => HasRow(q)
    BY <2>2, <2>3, <2>4, HandStored
  <2>6. QED
    BY <1>4, <2>1, <2>2, <2>5 DEF StoreInv, HasRow
<1>7. ASSUME NEW t \in timers, Fire(t) PROVE StoreInv'
  <2>1. t.array \in Delivery
    BY DEF TypeOK, Timer
  <2>2. list[t.array] \in Seq(Delivery)
          /\ \A i \in DOMAIN list[t.array] : HasRow(list[t.array][i])
    BY <2>1 DEF TypeOK, StoreInv
  <2>3. \A q \in Delivery : handed'[q] > 0 => HasRow(q)
    BY <1>7, <2>2, HandStored DEF Fire
  <2>4. QED
    BY <1>7, <2>3 DEF Fire, StoreInv, HasRow
<1>8. CASE AppendMessages
  <2>1. UNCHANGED <<pc, list, handed>>
    BY <1>8 DEF AppendMessages, CopySelect, CopyInsert, CopyEnds, buffers
  <2>2. /\ \A m \in Message : stored'[m] >= stored[m]
        /\ \A m \in Ided : stored'[m] <= 1
    <3>1. CASE stored' = stored
      BY <3>1 DEF StoreInv, TypeOK
    <3>2. CASE stored' # stored
      <4> DEFINE m == Copied[at]
      <4>1. m \in Message /\ ~(m \in Ided /\ stored[m] > 0)
              /\ stored' = [stored EXCEPT ![m] = @ + 1]
        BY <1>8, <3>2, CopyType
        DEF AppendMessages, CopySelect, CopyInsert, CopyEnds, TypeOK
      <4> HIDE DEF m
      <4>2. stored'[m] = stored[m] + 1 /\ (m \in Ided => stored[m] = 0)
        BY <4>1 DEF TypeOK
      <4>3. \A n \in Message : n # m => stored'[n] = stored[n]
        BY <4>1 DEF TypeOK
      <4>4. QED
        <5>1. \A n \in Message : stored[n] \in Nat
          BY DEF TypeOK
        <5>2. \A n \in Ided : stored[n] <= 1
          BY DEF StoreInv
        <5>3. QED
          BY <4>2, <4>3, <5>1, <5>2
    <3>3. QED
      BY <3>1, <3>2
  <2>3. \A q \in Delivery : HasRow(q) => HasRow(q)'
    BY <2>2, SMTT(30) DEF HasRow, TypeOK
  <2>4. \A q \in Delivery : \A i \in DOMAIN list[q] : list[q][i] \in Delivery
    BY ListType
  <2>5. QED
    BY <2>1, <2>2, <2>3, <2>4 DEF StoreInv
<1>9. ASSUME UNCHANGED <<stored, list, handed>>,
             \A q \in Delivery : pc'[q] \in {pc[q], "idle", "done"}
      PROVE  StoreInv'
  BY <1>9 DEF StoreInv, HasRow
<1>10. ASSUME NEW c \in Conversation, SetIgnore(c) PROVE StoreInv'
  BY <1>9, <1>10 DEF SetIgnore, buffers
<1>11. CASE Tick
  BY <1>9, <1>11 DEF Tick
<1>12. CASE Crash
  BY <1>9, <1>12 DEF Crash
<1>13. CASE UNCHANGED vars
  BY <1>9, <1>13 DEF vars
<1>14. QED
  BY <1>1, <1>2, <1>3, <1>5, <1>6, <1>7, <1>8, <1>10, <1>11, <1>12, <1>13
  DEF Next, Step, FireSome

\* No message that carries an id has two rows, although the orchestrator and
\* the gateway look and insert in two steps each, and the agent is given no
\* message that has no row.
THEOREM MessagesStoredOnce == Spec => []StoredOnce
<1>1. Init => TypeOK /\ StoreInv
  <2> SUFFICES ASSUME Init PROVE StoreInv
    BY TypeInit
  <2>1. QED
    BY IntakeAssumption DEF Init, StoreInv, HasRow
<1>2. (TypeOK /\ StoreInv) /\ [Next]_vars => (TypeOK /\ StoreInv)'
  BY TypeStep, StoreInvStep
<1>3. TypeOK /\ StoreInv => StoredOnce
  <2> SUFFICES ASSUME TypeOK, StoreInv PROVE StoredOnce
    OBVIOUS
  <2>1. \A d \in Delivery : MsgOf[d] \in Message
    BY IntakeAssumption
  <2>2. QED
    BY <2>1 DEF StoreInv, StoredOnce, HasRow, TypeOK
<1>4. QED
  BY <1>1, <1>2, <1>3, PTL DEF Spec
-----------------------------------------------------------------------------
(* Buffers close on time. The bound moves with the messages pushed after   *)
(* the first one.                                                          *)

\* With k such messages, n ticks after the first one is not too late.
Limit(k, n) == \/ n <= DebounceMs + k * QuietMs
               \/ k > 0 /\ n <= MaxTotalMs + (k - 1) * QuietMs

Pushes(d) == Len(list[d]) - 1

\* An array that is not in use yet has no age.
OnTime ==
  /\ \A d \in Delivery : pc[d] # "done" => age[d] = 0 /\ since[d] = 0
  /\ \A t \in timers :
       /\ Pushes(t.array) \in 0..(MaxBuffered - 2)
       /\ since[t.array] + t.left >= Min({DebounceMs, QuietMs})
       /\ Limit(Pushes(t.array), age[t.array] + t.left)

LEMMA Times ==
  /\ DebounceMs \in Nat /\ QuietMs \in Nat /\ MaxTotalMs \in Nat
  /\ QuietMs > 0 /\ MaxBuffered \in Nat /\ MaxBuffered >= 2
  /\ AgeCap \in Nat /\ AgeCap >= DebounceMs
  /\ Min({DebounceMs, QuietMs}) = IF DebounceMs <= QuietMs THEN DebounceMs ELSE QuietMs
<1>1. /\ DebounceMs \in Nat /\ QuietMs \in Nat /\ MaxTotalMs \in Nat
      /\ QuietMs > 0 /\ MaxBuffered \in Nat /\ MaxBuffered >= 2
  BY IntakeAssumption
<1>2. MaxBuffered * QuietMs \in Nat
  BY <1>1
<1>3. AgeCap \in Nat /\ AgeCap >= DebounceMs
  BY <1>1, <1>2 DEF AgeCap
<1> QED BY <1>1, <1>3, MinTwo

LEMMA LimitMoves ==
  ASSUME NEW k \in Nat, NEW n \in Nat
  PROVE  /\ Limit(k, n) => Limit(k + 1, n + QuietMs)
         /\ n <= MaxTotalMs => Limit(k + 1, n)
         /\ \A m \in Nat : m <= n /\ Limit(k, n) => Limit(k, m)
<1>1. (k + 1) * QuietMs = k * QuietMs + QuietMs /\ k * QuietMs \in Nat
  BY Times
<1>2. k > 0 => k * QuietMs = (k - 1) * QuietMs + QuietMs /\ (k - 1) * QuietMs \in Nat
  BY Times
<1>3. k + 1 - 1 = k
  OBVIOUS
<1> QED BY <1>1, <1>2, <1>3, Times DEF Limit

LEMMA LimitAtMost ==
  ASSUME NEW p \in Nat, NEW k \in 0..p, NEW n \in Nat, Limit(k, n)
  PROVE  n <= Max({DebounceMs + p * QuietMs, MaxTotalMs + (p - 1) * QuietMs})
<1>1. \A i \in Nat : i * QuietMs \in Nat
  BY Times
<1>2. p * QuietMs = k * QuietMs + (p - k) * QuietMs
  BY Times
<1>3. k > 0 => (p - 1) * QuietMs = (k - 1) * QuietMs + (p - k) * QuietMs
  BY Times
<1>4. /\ p * QuietMs \in Nat /\ k * QuietMs \in Nat /\ (p - k) * QuietMs \in Nat
      /\ (p - 1) * QuietMs \in Int
      /\ k > 0 => (k - 1) * QuietMs \in Nat
  BY <1>1, Times
<1>5. \/ n <= DebounceMs + p * QuietMs
      \/ n <= MaxTotalMs + (p - 1) * QuietMs
  BY <1>2, <1>3, <1>4, Times DEF Limit
<1>6. DebounceMs + p * QuietMs \in Int /\ MaxTotalMs + (p - 1) * QuietMs \in Int
  BY <1>4, Times
<1> QED BY <1>5, <1>6, MaxTwo

\* A new wait ends by the limit on the total, or is one of quiet_ms.
LEMMA NextWaitLimit ==
  ASSUME NEW d \in Delivery, age[d] \in Nat
  PROVE  /\ NextWait(d) \in Nat
         /\ age[d] + NextWait(d) <= MaxTotalMs \/ NextWait(d) = QuietMs
<1> DEFINE rest == MaxTotalMs - age[d]
           open == Max({0, rest})
           step == Min({DebounceMs, open})
<1>1. open = IF 0 >= rest THEN 0 ELSE rest
  BY Times, MaxTwo
<1>2. open \in Nat
  BY <1>1, Times
<1> HIDE DEF open
<1>3. step = IF DebounceMs <= open THEN DebounceMs ELSE open
  BY <1>2, Times, MinTwo
<1> HIDE DEF step
<1>4. step \in Nat
  BY <1>2, <1>3, Times
<1>5. Max({QuietMs, step}) = IF QuietMs >= step THEN QuietMs ELSE step
  BY <1>4, Times, MaxTwo
<1>6. NextWait(d) = Max({QuietMs, step})
  BY DEF NextWait, step, open
<1> QED BY <1>1, <1>2, <1>3, <1>4, <1>5, <1>6, Times

\* A step that moves no clock and no buffer.
LEMMA OnTimeOther ==
  ASSUME OnTime, UNCHANGED <<list, age, since>>, timers' \subseteq timers,
         \A d \in Delivery : pc[d] = "done" => pc'[d] = "done"
  PROVE  OnTime'
BY DEF OnTime, Pushes

LEMMA OpenOnTime ==
  ASSUME QueueInv, OnTime, NEW d \in Delivery, OpenBuffer(d)
  PROVE  OnTime'
<1> DEFINE new == [array |-> d, left |-> DebounceMs]
<1>1. /\ pc[d] = "enqueue" /\ list' = [list EXCEPT ![d] = <<d>>]
      /\ timers' = timers \cup {new} /\ UNCHANGED <<age, since>>
      /\ pc' = [pc EXCEPT ![d] = "done"]
  BY DEF OpenBuffer, Goto
<1>2. \A t \in timers : t.array \in Delivery /\ t.array # d
  BY <1>1 DEF QueueInv, ArraysInUse, TypeOK, Timer
<1>3. \A t \in timers : list'[t.array] = list[t.array]
  BY <1>1, <1>2 DEF QueueInv, TypeOK
<1>4. list'[d] = <<d>> /\ age[d] = 0 /\ since[d] = 0
  BY <1>1 DEF OnTime, QueueInv, TypeOK
<1>5. Len(list'[d]) - 1 = 0
  BY <1>4
<1>6. 0 + DebounceMs >= Min({DebounceMs, QuietMs}) /\ Limit(0, 0 + DebounceMs)
  BY Times DEF Limit
<1>7. \A q \in Delivery : pc'[q] # "done" => pc[q] # "done"
  BY <1>1 DEF QueueInv, TypeOK
<1>8. new.array = d /\ new.left = DebounceMs
  OBVIOUS
<1> HIDE DEF new
<1>9. ASSUME NEW t \in timers'
      PROVE  /\ Pushes(t.array)' \in 0..(MaxBuffered - 2)
             /\ since'[t.array] + t.left >= Min({DebounceMs, QuietMs})
             /\ Limit(Pushes(t.array)', age'[t.array] + t.left)
  <2>1. CASE t \in timers
    BY <1>1, <1>3, <2>1 DEF OnTime, Pushes
  <2>2. CASE t = new
    <3>1. t.array = d /\ t.left = DebounceMs /\ age'[d] = 0 /\ since'[d] = 0
      BY <1>1, <1>4, <1>8, <2>2
    <3>2. Pushes(t.array)' = 0 /\ age'[t.array] + t.left = DebounceMs
      BY <1>5, <3>1, Times DEF Pushes
    <3>3. Limit(0, DebounceMs)
      BY Times DEF Limit
    <3> QED BY <1>6, <3>1, <3>2, <3>3, Times
  <2> QED BY <1>1, <2>1, <2>2
<1> QED BY <1>1, <1>7, <1>9 DEF OnTime, Limit

LEMMA ExtendOnTime ==
  ASSUME QueueInv, OnTime, NEW d \in Delivery, ExtendBuffer(d)
  PROVE  OnTime'
<1>0. PICK array : array = pending[ChatOf[d]]
  OBVIOUS
<1> DEFINE new == [array |-> array, left |-> NextWait(array)]
<1>1. /\ array \in Delivery /\ array # NoBuffer
      /\ list' = [list EXCEPT ![array] = Append(list[array], d)]
      /\ Len(list[array]) + 1 < MaxBuffered
      /\ timers' = {t \in timers : t.array # array} \cup {new}
      /\ since' = [since EXCEPT ![array] = 0] /\ age' = age
      /\ pc' = [pc EXCEPT ![d] = "done"]
  BY <1>0, ChatType DEF ExtendBuffer, Goto, StopTimer, QueueInv, TypeOK
<1>2. PICK old \in timers : old.array = array
  BY <1>0, <1>1, ChatType DEF QueueInv, OneTimerPerBuffer
<1>3. new.array = array /\ new.left = NextWait(array)
  OBVIOUS
<1> HIDE DEF new
<1>4. /\ age[array] \in Nat /\ since \in [Delivery -> 0..AgeCap]
      /\ list \in [Delivery -> Seq(Delivery)] /\ old.left \in Nat
      /\ \A t \in timers : t.array \in Delivery
  <2>1. /\ age \in [Delivery -> 0..AgeCap] /\ since \in [Delivery -> 0..AgeCap]
        /\ list \in [Delivery -> Seq(Delivery)] /\ timers \subseteq Timer
    BY DEF QueueInv, TypeOK
  <2>2. age[array] \in Nat
    BY <1>1, <2>1, Times
  <2>3. \A t \in timers : t.array \in Delivery /\ t.left \in Nat
    BY <2>1, Bounds DEF Timer
  <2> QED BY <1>2, <2>1, <2>2, <2>3
<1>5. /\ list'[array] = Append(list[array], d) /\ list[array] \in Seq(Delivery)
      /\ since'[array] = 0
      /\ \A q \in Delivery : q # array => list'[q] = list[q] /\ since'[q] = since[q]
  BY <1>1, <1>4
<1>6. /\ Pushes(array) \in Nat /\ Pushes(array)' = Pushes(array) + 1
      /\ Pushes(array)' \in 0..(MaxBuffered - 2)
  <2>1. Pushes(array) \in Nat
    BY <1>2, Times DEF OnTime
  <2>2. Len(list'[array]) = Len(list[array]) + 1 /\ Len(list[array]) \in Nat
    BY <1>5
  <2> QED BY <1>1, <2>1, <2>2, Times DEF Pushes
<1>7. Limit(Pushes(array), age[array] + old.left)
  BY <1>2 DEF OnTime
<1>8. Limit(Pushes(array) + 1, age[array] + NextWait(array))
  <2>1. /\ NextWait(array) \in Nat
        /\ age[array] + NextWait(array) <= MaxTotalMs \/ NextWait(array) = QuietMs
    BY <1>1, <1>4, NextWaitLimit
  <2>2. CASE age[array] + NextWait(array) <= MaxTotalMs
    BY <1>4, <1>6, <2>1, <2>2, LimitMoves
  <2>3. CASE NextWait(array) = QuietMs
    <3>1. Limit(Pushes(array), age[array])
      BY <1>4, <1>6, <1>7, LimitMoves
    <3> QED BY <1>4, <1>6, <2>3, <3>1, LimitMoves
  <2> QED BY <2>1, <2>2, <2>3
<1>9. 0 + NextWait(array) >= Min({DebounceMs, QuietMs})
  BY <1>1, NextWaitBound, Times, Bounds, SMTT(30) DEF QueueInv, TypeOK
<1>10. ASSUME NEW t \in timers'
       PROVE  /\ Pushes(t.array)' \in 0..(MaxBuffered - 2)
              /\ since'[t.array] + t.left >= Min({DebounceMs, QuietMs})
              /\ Limit(Pushes(t.array)', age'[t.array] + t.left)
  <2>1. CASE t \in timers /\ t.array # array
    BY <1>1, <1>4, <1>5, <2>1 DEF OnTime, Pushes
  <2>2. CASE t = new
    BY <1>1, <1>3, <1>5, <1>6, <1>8, <1>9, <2>2
  <2> QED BY <1>1, <2>1, <2>2
<1>11. \A q \in Delivery : pc'[q] # "done" =>
          pc[q] # "done" /\ age'[q] = 0 /\ since'[q] = 0
  BY <1>1, <1>4, <1>5 DEF OnTime, QueueInv, TypeOK
<1> QED BY <1>10, <1>11 DEF OnTime, Limit

LEMMA FillOnTime ==
  ASSUME QueueInv, OnTime, NEW d \in Delivery, FillBuffer(d)
  PROVE  OnTime'
<1> DEFINE array == pending[ChatOf[d]]
<1>1. /\ list' = [list EXCEPT ![array] = Append(list[array], d)]
      /\ timers' = {t \in timers : t.array # array} /\ UNCHANGED <<age, since>>
      /\ pc' = [pc EXCEPT ![d] = "done"]
  BY DEF FillBuffer, Goto, StopTimer
<1>2. \A t \in timers : t.array \in Delivery
  BY DEF QueueInv, TypeOK, Timer
<1> HIDE DEF array
<1>3. \A t \in timers' : t \in timers /\ list'[t.array] = list[t.array]
  BY <1>1, <1>2 DEF QueueInv, TypeOK
<1>4. \A q \in Delivery : pc'[q] # "done" => pc[q] # "done"
  BY <1>1 DEF QueueInv, TypeOK
<1> QED BY <1>1, <1>3, <1>4 DEF OnTime, Pushes

LEMMA TickOnTime ==
  ASSUME QueueInv, TypeOK', OnTime, Tick
  PROVE  OnTime'
<1>1. /\ timers' = {[t EXCEPT !.left = @ - 1] : t \in timers}
      /\ UNCHANGED <<list, pc>>
  BY DEF Tick
<1>2. ASSUME NEW q \in Delivery, pc[q] # "done"
      PROVE  age'[q] = age[q] /\ since'[q] = since[q]
  <2>1. ~\E t \in timers : t.array = q
    BY <1>2 DEF QueueInv, ArraysInUse
  <2> QED BY <2>1 DEF Tick
<1>3. ASSUME NEW t \in timers
      PROVE  LET u == [t EXCEPT !.left = @ - 1]
             IN  /\ Pushes(u.array)' \in 0..(MaxBuffered - 2)
                 /\ since'[u.array] + u.left >= Min({DebounceMs, QuietMs})
                 /\ Limit(Pushes(u.array)', age'[u.array] + u.left)
  <2> DEFINE u == [t EXCEPT !.left = @ - 1]
  <2>1. /\ t.array \in Delivery /\ t.left \in Nat /\ t.left > 0
        /\ u.array = t.array /\ u.left = t.left - 1
    BY Bounds DEF Tick, QueueInv, TypeOK, Timer
  <2> HIDE DEF u
  <2>2. age[t.array] \in 0..AgeCap /\ since[t.array] \in 0..AgeCap
    BY <2>1 DEF QueueInv, TypeOK
  <2>3. /\ age'[t.array] = Min({AgeCap, age[t.array] + 1})
        /\ since'[t.array] = Min({AgeCap, since[t.array] + 1})
    BY <2>1 DEF Tick
  <2>4. /\ age'[t.array] \in Nat /\ age'[t.array] <= age[t.array] + 1
        /\ since'[t.array] \in Nat
        /\ since'[t.array] = since[t.array] + 1 \/ since'[t.array] = AgeCap
    BY <2>2, <2>3, MinTwo, Times
  <2>5. Pushes(t.array)' = Pushes(t.array) /\ Pushes(t.array) \in 0..(MaxBuffered - 2)
    BY <1>1 DEF Pushes, OnTime
  <2>6. since'[t.array] + u.left >= Min({DebounceMs, QuietMs})
    <3>1. since[t.array] + t.left >= Min({DebounceMs, QuietMs})
      BY DEF OnTime
    <3> QED BY <2>1, <2>2, <2>4, <3>1, Times
  <2>7. Limit(Pushes(t.array), age'[t.array] + u.left)
    <3>1. Limit(Pushes(t.array), age[t.array] + t.left)
      BY DEF OnTime
    <3>2. /\ age[t.array] + t.left \in Nat /\ age'[t.array] + u.left \in Nat
          /\ age'[t.array] + u.left <= age[t.array] + t.left
      BY <2>1, <2>2, <2>4
    <3>3. Pushes(t.array) \in Nat
      BY <2>5, Times
    <3> QED BY <3>1, <3>2, <3>3, LimitMoves
  <2>8. QED BY <2>1, <2>5, <2>6, <2>7 DEF u
<1> QED BY <1>1, <1>2, <1>3 DEF OnTime, Limit

LEMMA OnTimeStep ==
  ASSUME QueueInv, QueueInv', OnTime, [Next]_vars
  PROVE  OnTime'
<1>1. ASSUME NEW d \in Delivery,
             \/ Arrive(d) \/ OpenConversation(d) \/ SelectMessage(d)
             \/ InsertMessage(d) \/ UpdateLastInbound(d) \/ CheckIgnore(d)
             \/ CheckAllowed(d) \/ HandlerThrows(d)
      PROVE  OnTime'
  <2>1. UNCHANGED <<list, age, since, timers>> /\ pc[d] # "done"
    BY <1>1 DEF Arrive, OpenConversation, SelectMessage, InsertMessage,
       UpdateLastInbound, CheckIgnore, CheckAllowed, HandlerThrows, buffers
  <2>2. \E next : pc' = [pc EXCEPT ![d] = next]
    BY <1>1 DEF Arrive, OpenConversation, SelectMessage, InsertMessage,
       UpdateLastInbound, CheckIgnore, CheckAllowed, HandlerThrows, Goto
  <2>3. \A q \in Delivery : pc[q] = "done" => pc'[q] = "done"
    BY <2>1, <2>2 DEF QueueInv, TypeOK
  <2> QED BY <2>1, <2>3, OnTimeOther
<1>2. ASSUME NEW c \in Conversation, SetIgnore(c) PROVE OnTime'
  BY <1>2, OnTimeOther DEF SetIgnore, buffers
<1>3. ASSUME NEW t \in timers, Fire(t) PROVE OnTime'
  BY <1>3, OnTimeOther DEF Fire
<1>4. CASE Crash
  BY <1>4, OnTimeOther DEF Crash, QueueInv, TypeOK
<1>5. CASE AppendMessages
  BY <1>5, OnTimeOther DEF AppendMessages, CopySelect, CopyInsert, CopyEnds, buffers
<1>6. CASE UNCHANGED vars
  BY <1>6, OnTimeOther DEF vars
<1> QED
  BY <1>1, <1>2, <1>3, <1>4, <1>5, <1>6, OpenOnTime, ExtendOnTime, FillOnTime,
     TickOnTime DEF Next, Step, FireSome, QueueInv

\* No timer closes a buffer before its client has been quiet, and none later
\* than the limits allow, for any windows and limits and however the messages
\* of a conversation and of others come.
THEOREM BuffersCloseOnTime == Spec => []ClosesOnTime
<1>1. Init => OnTime
  BY DEF Init, OnTime
<1>2. QueueInv /\ QueueInv' /\ OnTime /\ [Next]_vars => OnTime'
  BY OnTimeStep
<1>3. QueueInv /\ OnTime => ClosesOnTime
  <2> SUFFICES ASSUME QueueInv, OnTime, NEW t \in timers
               PROVE  age[t.array] + t.left
                        <= Max({DebounceMs + (MaxBuffered - 2) * QuietMs,
                                MaxTotalMs + (MaxBuffered - 2 - 1) * QuietMs})
    BY DEF ClosesOnTime, OnTime
  <2>1. age[t.array] + t.left \in Nat
    BY Bounds DEF QueueInv, TypeOK, Timer
  <2>2. MaxBuffered - 2 \in Nat
    BY Times
  <2> QED BY <2>1, <2>2, LimitAtMost DEF OnTime
<1>4. Spec => []QueueInv
  BY QueueInvInit, QueueInvStep, PTL DEF Spec
<1> QED BY <1>1, <1>2, <1>3, <1>4, PTL DEF Spec
-----------------------------------------------------------------------------
(* Refinement of HandOver. A delivery is at one place of one array, and    *)
(* has not been handed over while the array has a timer.                   *)

Lists ==
  /\ \A q \in Delivery : \A i \in DOMAIN list[q] :
       ChatOf[list[q][i]] = ChatOf[q] /\ pc[list[q][i]] = "done"
  /\ \A q, r \in Delivery : \A i \in DOMAIN list[q], j \in DOMAIN list[r] :
       list[q][i] = list[r][j] => q = r /\ i = j

ListInv ==
  /\ Lists
  /\ \A q \in Delivery : pc[q] # "done" => list[q] = <<>> /\ handed[q] = 0
  /\ \A t \in timers : \A i \in DOMAIN list[t.array] :
       handed[list[t.array][i]] = 0

\* What a push to an array, new or not, does to the arrays.
LEMMA PushLists ==
  ASSUME QueueInv, ListInv, NEW d \in Delivery, NEW array \in Delivery,
         pc[d] = "enqueue", pc' = [pc EXCEPT ![d] = "done"],
         ChatOf[array] = ChatOf[d],
         list' = [list EXCEPT ![array] = Append(list[array], d)]
  PROVE  /\ Lists'
         /\ ToSet(list'[array]) = ToSet(list[array]) \cup {d}
         /\ \A q \in Delivery \ {array} : list'[q] = list[q]
         /\ Accepted' = Accepted \cup {d} /\ d \notin Accepted
<1>1. list \in [Delivery -> Seq(Delivery)]
  BY DEF QueueInv, TypeOK
<1>2. /\ list'[array] = Append(list[array], d)
      /\ \A q \in Delivery \ {array} : list'[q] = list[q]
      /\ list[array] \in Seq(Delivery)
  BY <1>1
<1>3. \A q \in Delivery : \A i \in DOMAIN list[q] : list[q][i] # d
  BY DEF ListInv, Lists
<1>4. \A i \in DOMAIN list'[array] :
        \/ i = Len(list[array]) + 1 /\ list'[array][i] = d
        \/ i \in DOMAIN list[array] /\ list'[array][i] = list[array][i]
  BY <1>2
<1>5. \A i \in DOMAIN list[array] :
        i \in DOMAIN list'[array] /\ list'[array][i] = list[array][i]
  BY <1>2
<1>6. /\ Len(list[array]) + 1 \in DOMAIN list'[array]
      /\ list'[array][Len(list[array]) + 1] = d
  BY <1>2
<1>7. ToSet(list'[array]) = ToSet(list[array]) \cup {d}
  BY <1>4, <1>5, <1>6 DEF ToSet
<1>8. \A q \in Delivery : pc'[q] = "done" <=> q = d \/ pc[q] = "done"
  BY DEF QueueInv, TypeOK
<1>9. \A q \in Delivery : \A i \in DOMAIN list[q] : list[q][i] \in Delivery
  BY <1>1
<1>10. Lists'
  <2>1. ASSUME NEW q \in Delivery, NEW i \in DOMAIN list'[q]
        PROVE  ChatOf[list'[q][i]] = ChatOf[q] /\ pc'[list'[q][i]] = "done"
    BY <1>2, <1>4, <1>8, <1>9, <2>1 DEF ListInv, Lists
  <2>2. ASSUME NEW q \in Delivery, NEW r \in Delivery,
               NEW i \in DOMAIN list'[q], NEW j \in DOMAIN list'[r],
               list'[q][i] = list'[r][j]
        PROVE  q = r /\ i = j
    BY <1>2, <1>3, <1>4, <2>2 DEF ListInv, Lists
  <2> QED BY <2>1, <2>2 DEF Lists
<1>11. d \notin Accepted
  BY <1>3 DEF Accepted, ToSet
<1>12. Accepted' = Accepted \cup {d}
  <2>1. ASSUME NEW x
        PROVE  (\E q \in Delivery : x \in ToSet(list'[q]))
                 <=> x = d \/ \E q \in Delivery : x \in ToSet(list[q])
    <3>1. \A q \in Delivery \ {array} : ToSet(list'[q]) = ToSet(list[q])
      BY <1>2 DEF ToSet
    <3> QED BY <3>1, <1>7
  <2> QED BY <2>1 DEF Accepted
<1> QED BY <1>2, <1>7, <1>10, <1>11, <1>12

\* No delivery is twice in a batch, so that a batch counts each of its own once.
LEMMA Given ==
  ASSUME TypeOK, NEW s \in Seq(Delivery), HandToAgent(s),
         \A i, j \in DOMAIN s : s[i] = s[j] => i = j
  PROVE  handed' = [d \in Delivery |-> handed[d] + IF d \in ToSet(s) THEN 1 ELSE 0]
<1>1. ASSUME NEW d \in Delivery
      PROVE  Cardinality({i \in DOMAIN s : s[i] = d}) = IF d \in ToSet(s) THEN 1 ELSE 0
  <2>1. CASE d \in ToSet(s)
    <3>1. PICK j \in DOMAIN s : s[j] = d
      BY <2>1 DEF ToSet
    <3>2. {i \in DOMAIN s : s[i] = d} = {j}
      BY <3>1
    <3> QED BY <2>1, <3>2, FS_Singleton
  <2>2. CASE d \notin ToSet(s)
    <3>1. {i \in DOMAIN s : s[i] = d} = {}
      BY <2>2 DEF ToSet
    <3> QED BY <2>2, <3>1, FS_EmptySet
  <2> QED BY <2>1, <2>2
<1> QED BY <1>1 DEF HandToAgent

\* An instance of HandOver counts with a Cardinality of its own.
LEMMA SameSize ==
  ASSUME NEW S
  PROVE  AbstractHandOver!Cardinality(S) = Cardinality(S)
BY DEF AbstractHandOver!Cardinality, Cardinality, AbstractHandOver!IsFiniteSet,
   IsFiniteSet

\* A batch is as large as its array is long, at most.
LEMMA BatchSize ==
  ASSUME NEW s \in Seq(Delivery)
  PROVE  Cardinality(ToSet(s)) <= Len(s) /\ Cardinality(ToSet(s)) \in Nat
<1>1. s \in Surjection(1..Len(s), ToSet(s))
  BY DEF Surjection, ToSet
<1>2. IsFiniteSet(1..Len(s)) /\ Cardinality(1..Len(s)) = Len(s)
  <2>1. Len(s) \in Nat
    OBVIOUS
  <2> QED BY <2>1, FS_Interval, SMTT(30)
<1> QED BY <1>1, <1>2, FS_Surjection, FS_CardinalityType

\* The array of a timer, as a batch.
LEMMA TimerBatch ==
  ASSUME QueueInv, OnTime, ListInv, NEW t \in timers
  PROVE  /\ t.array \in Delivery /\ list[t.array] \in Seq(Delivery)
         /\ Len(list[t.array]) \in 1..(MaxBuffered - 1)
         /\ \A i, j \in DOMAIN list[t.array] :
              list[t.array][i] = list[t.array][j] => i = j
         /\ \A d \in ToSet(list[t.array]) :
              /\ d \in Delivery /\ handed[d] = 0 /\ pc[d] = "done"
              /\ ChatOf[d] = ChatOf[t.array]
         /\ ToSet(list[t.array]) # {} /\ ToSet(list[t.array]) \subseteq Accepted
<1>1. t.array \in Delivery /\ list[t.array] \in Seq(Delivery)
  BY DEF QueueInv, TypeOK, Timer
<1>2. Len(list[t.array]) \in 1..(MaxBuffered - 1)
  BY <1>1, Times DEF OnTime, Pushes
<1>3. \A i, j \in DOMAIN list[t.array] :
        list[t.array][i] = list[t.array][j] => i = j
  BY <1>1 DEF ListInv, Lists
<1>4. \A d \in ToSet(list[t.array]) :
        /\ d \in Delivery /\ handed[d] = 0 /\ pc[d] = "done"
        /\ ChatOf[d] = ChatOf[t.array]
  BY <1>1 DEF ToSet, ListInv, Lists
<1>5. ToSet(list[t.array]) # {}
  <2>1. 1 \in DOMAIN list[t.array]
    BY <1>1, <1>2
  <2> QED BY <2>1 DEF ToSet
<1>6. ToSet(list[t.array]) \subseteq Accepted
  BY <1>1 DEF Accepted
<1> QED BY <1>1, <1>2, <1>3, <1>4, <1>5, <1>6

\* The timer of the array a full conversation has in the map.
LEMMA PendingTimer ==
  ASSUME QueueInv, NEW d \in Delivery, pending[ChatOf[d]] # NoBuffer
  PROVE  \E t \in timers : t.array = pending[ChatOf[d]] /\ ChatOf[t.array] = ChatOf[d]
BY ChatType DEF QueueInv, ArraysInUse, OneTimerPerBuffer

LEMMA OpenList ==
  ASSUME QueueInv, ListInv, NEW d \in Delivery, OpenBuffer(d)
  PROVE  ListInv' /\ AbstractHandOver!Accept
<1>1. /\ pc[d] = "enqueue" /\ pc' = [pc EXCEPT ![d] = "done"]
      /\ list' = [list EXCEPT ![d] = <<d>>] /\ handed' = handed
      /\ timers' = timers \cup {[array |-> d, left |-> DebounceMs]}
  BY DEF OpenBuffer, Goto
<1>2. list[d] = <<>> /\ handed[d] = 0
  BY <1>1 DEF ListInv
<1>3. list' = [list EXCEPT ![d] = Append(list[d], d)]
  <2>1. Append(<<>>, d) = <<d>>
    OBVIOUS
  <2> QED BY <1>1, <1>2, <2>1
<1>4. /\ Lists' /\ Accepted' = Accepted \cup {d} /\ d \notin Accepted
      /\ \A q \in Delivery \ {d} : list'[q] = list[q]
  BY <1>1, <1>3, PushLists
<1>5. \A q \in Delivery : pc'[q] # "done" => q # d /\ pc[q] # "done"
  BY <1>1 DEF QueueInv, TypeOK
<1>6. \A q \in Delivery : pc'[q] # "done" => list'[q] = <<>> /\ handed'[q] = 0
  BY <1>1, <1>4, <1>5 DEF ListInv
<1>7. \A t \in timers : t.array \in Delivery /\ t.array # d
  BY <1>1 DEF QueueInv, ArraysInUse, TypeOK, Timer
<1>8. list'[d] = <<d>>
  BY <1>1 DEF QueueInv, TypeOK
<1>9. ASSUME NEW t \in timers', NEW i \in DOMAIN list'[t.array]
      PROVE  handed'[list'[t.array][i]] = 0
  <2>1. CASE t \in timers
    BY <1>1, <1>4, <1>7, <1>9, <2>1 DEF ListInv
  <2>2. CASE t.array = d
    BY <1>1, <1>2, <1>8, <1>9, <2>2
  <2> QED BY <1>1, <2>1, <2>2
<1> QED BY <1>1, <1>4, <1>6, <1>9 DEF ListInv, AbstractHandOver!Accept

LEMMA ExtendList ==
  ASSUME QueueInv, OnTime, ListInv, NEW d \in Delivery, ExtendBuffer(d)
  PROVE  ListInv' /\ AbstractHandOver!Accept
<1>1. PICK old \in timers :
        old.array = pending[ChatOf[d]] /\ ChatOf[old.array] = ChatOf[d]
  BY PendingTimer DEF ExtendBuffer
<1>2. PICK array : array = old.array
  OBVIOUS
<1>3. /\ pc[d] = "enqueue" /\ pc' = [pc EXCEPT ![d] = "done"] /\ handed' = handed
      /\ list' = [list EXCEPT ![array] = Append(list[array], d)]
      /\ \A t \in timers' : t \in timers \/ t.array = array
  BY <1>1, <1>2 DEF ExtendBuffer, Goto, StopTimer
<1>4. array \in Delivery /\ ChatOf[array] = ChatOf[d]
  BY <1>1, <1>2, TimerBatch
<1>5. /\ Lists' /\ Accepted' = Accepted \cup {d} /\ d \notin Accepted
      /\ ToSet(list'[array]) = ToSet(list[array]) \cup {d}
      /\ \A q \in Delivery \ {array} : list'[q] = list[q]
  BY <1>3, <1>4, PushLists
<1>6. handed[d] = 0
  BY <1>3 DEF ListInv
<1>7. pc[array] = "done"
  BY <1>2 DEF QueueInv, ArraysInUse
<1>8. \A q \in Delivery : pc'[q] # "done" => pc[q] # "done"
  BY <1>3 DEF QueueInv, TypeOK
<1>9. \A q \in Delivery : pc'[q] # "done" => list'[q] = <<>> /\ handed'[q] = 0
  BY <1>3, <1>5, <1>7, <1>8 DEF ListInv
<1>10. ASSUME NEW t \in timers', NEW i \in DOMAIN list'[t.array]
       PROVE  handed'[list'[t.array][i]] = 0
  <2>1. CASE t.array = array
    <3>1. list'[t.array][i] \in ToSet(list[array]) \cup {d}
      BY <1>5, <1>10, <2>1 DEF ToSet
    <3>2. \A e \in ToSet(list[array]) : handed[e] = 0
      BY <1>2, TimerBatch
    <3> QED BY <1>3, <1>6, <3>1, <3>2
  <2>2. CASE t.array # array
    <3>1. t \in timers /\ t.array \in Delivery
      BY <1>3, <2>2, TimerBatch
    <3> QED BY <1>3, <1>5, <1>10, <2>2, <3>1 DEF ListInv
  <2> QED BY <2>1, <2>2
<1> QED BY <1>3, <1>5, <1>9, <1>10 DEF ListInv, AbstractHandOver!Accept

LEMMA FillList ==
  ASSUME QueueInv, OnTime, ListInv, NEW d \in Delivery, FillBuffer(d)
  PROVE  ListInv' /\ AbstractHandOver!Next
<1>1. PICK old \in timers :
        old.array = pending[ChatOf[d]] /\ ChatOf[old.array] = ChatOf[d]
  BY PendingTimer DEF FillBuffer
<1>2. PICK array : array = old.array
  OBVIOUS
<1>3. /\ pc[d] = "enqueue" /\ pc' = [pc EXCEPT ![d] = "done"]
      /\ list' = [list EXCEPT ![array] = Append(list[array], d)]
      /\ timers' = {t \in timers : t.array # array}
      /\ HandToAgent(list'[array])
  BY <1>1, <1>2 DEF FillBuffer, Goto, StopTimer
<1>4. /\ array \in Delivery /\ ChatOf[array] = ChatOf[d]
      /\ list[array] \in Seq(Delivery) /\ Len(list[array]) \in 1..(MaxBuffered - 1)
      /\ \A e \in ToSet(list[array]) :
           /\ e \in Delivery /\ handed[e] = 0 /\ pc[e] = "done"
           /\ ChatOf[e] = ChatOf[array]
      /\ ToSet(list[array]) \subseteq Accepted
  BY <1>1, <1>2, TimerBatch
<1>5. /\ Lists' /\ Accepted' = Accepted \cup {d} /\ d \notin Accepted
      /\ ToSet(list'[array]) = ToSet(list[array]) \cup {d}
      /\ \A q \in Delivery \ {array} : list'[q] = list[q]
  BY <1>3, <1>4, PushLists
<1>6. handed[d] = 0
  BY <1>3 DEF ListInv
<1>7. /\ list'[array] \in Seq(Delivery) /\ Len(list'[array]) <= MaxBuffered
      /\ list'[array] = Append(list[array], d)
  <2>1. list'[array] = Append(list[array], d)
    BY <1>3, <1>4 DEF QueueInv, TypeOK
  <2> QED BY <1>4, <2>1, Times
<1> DEFINE batch == ToSet(list[array])
<1>8. handed' = [e \in Delivery |-> handed[e] + IF e \in batch \cup {d} THEN 1 ELSE 0]
  <2>1. \A i, j \in DOMAIN list'[array] :
          list'[array][i] = list'[array][j] => i = j
    BY <1>4, <1>5 DEF Lists
  <2>2. handed' = [e \in Delivery |->
                     handed[e] + IF e \in ToSet(list'[array]) THEN 1 ELSE 0]
    BY <1>3, <1>7, <2>1, Given DEF QueueInv
  <2> QED BY <1>5, <2>2
<1>9. ListInv'
  <2>1. \A q \in Delivery : pc'[q] # "done" => q # d /\ pc[q] # "done"
    BY <1>3 DEF QueueInv, TypeOK
  <2>2. pc[array] = "done"
    BY <1>2 DEF QueueInv, ArraysInUse
  <2>3. \A q \in Delivery : pc'[q] # "done" => list'[q] = <<>> /\ handed'[q] = 0
    <3> SUFFICES ASSUME NEW q \in Delivery, pc'[q] # "done"
                 PROVE  list'[q] = <<>> /\ handed'[q] = 0
      OBVIOUS
    <3>1. q # d /\ pc[q] # "done" /\ q # array
      BY <2>1, <2>2
    <3>2. q \notin batch \cup {d}
      BY <1>4, <3>1
    <3>3. list[q] = <<>> /\ handed[q] = 0
      BY <3>1 DEF ListInv
    <3> QED BY <1>5, <1>8, <3>1, <3>2, <3>3
  <2>4. ASSUME NEW t \in timers', NEW i \in DOMAIN list'[t.array]
        PROVE  handed'[list'[t.array][i]] = 0
    <3>1. t \in timers /\ t.array \in Delivery /\ t.array # array
      BY <1>3, TimerBatch
    <3>2. list'[t.array] = list[t.array]
      BY <1>5, <3>1
    <3> DEFINE e == list[t.array][i]
    <3>3. e \in Delivery /\ handed[e] = 0 /\ pc[e] = "done"
      BY <2>4, <3>1, <3>2, TimerBatch DEF ToSet
    <3>4. e \notin batch
      BY <1>4, <2>4, <3>1, <3>2 DEF ListInv, Lists, ToSet
    <3>5. e \notin batch \cup {d}
      BY <1>3, <3>3, <3>4
    <3> HIDE DEF e
    <3>6. handed'[e] = 0
      BY <1>8, <3>3, <3>5
    <3> QED BY <3>2, <3>6 DEF e
  <2> QED BY <1>5, <2>3, <2>4 DEF ListInv
<1>10. AbstractHandOver!Give(batch \cup {d})
  <2>1. Cardinality(batch \cup {d}) <= MaxBuffered
    <3>1. /\ Cardinality(ToSet(list'[array])) <= Len(list'[array])
          /\ Cardinality(ToSet(list'[array])) \in Nat
      BY <1>7, BatchSize
    <3>2. Len(list'[array]) \in Nat /\ MaxBuffered \in Nat
      BY <1>7, Times
    <3>3. ToSet(list'[array]) = batch \cup {d}
      BY <1>5
    <3> HIDE DEF batch
    <3> QED BY <1>7, <3>1, <3>2, <3>3
  <2>2. /\ ChatOf[d] \in Conversation
        /\ \A e \in batch \cup {d} : ChatOf[e] = ChatOf[d] /\ handed[e] = 0
    BY <1>4, <1>6, ChatType
  <2>3. handed' = [e \in Delivery |-> IF e \in batch \cup {d} THEN 1 ELSE handed[e]]
    <3>1. \A e \in Delivery : handed[e] \in Nat
      BY DEF QueueInv, TypeOK
    <3>2. \A e \in Delivery : handed[e] + (IF e \in batch \cup {d} THEN 1 ELSE 0)
                                = IF e \in batch \cup {d} THEN 1 ELSE handed[e]
      BY <2>2, <3>1
    <3> QED BY <1>8, <3>2
  <2> QED BY <2>1, <2>2, <2>3, SameSize DEF AbstractHandOver!Give
<1> QED BY <1>4, <1>5, <1>9, <1>10 DEF AbstractHandOver!Next

LEMMA FireList ==
  ASSUME QueueInv, OnTime, ListInv, NEW t \in timers, Fire(t)
  PROVE  ListInv' /\ AbstractHandOver!Next
<1> DEFINE batch == ToSet(list[t.array])
<1>1. /\ timers' = timers \ {t} /\ HandToAgent(list[t.array])
      /\ UNCHANGED <<pc, list>>
  BY DEF Fire
<1>2. /\ t.array \in Delivery /\ list[t.array] \in Seq(Delivery)
      /\ Len(list[t.array]) \in 1..(MaxBuffered - 1)
      /\ \A i, j \in DOMAIN list[t.array] :
           list[t.array][i] = list[t.array][j] => i = j
      /\ \A e \in batch : /\ e \in Delivery /\ handed[e] = 0 /\ pc[e] = "done"
                          /\ ChatOf[e] = ChatOf[t.array]
      /\ batch # {} /\ batch \subseteq Accepted
  BY TimerBatch
<1>3. handed' = [e \in Delivery |-> handed[e] + IF e \in batch THEN 1 ELSE 0]
  BY <1>1, <1>2, Given DEF QueueInv
<1>4. ListInv'
  <2>1. \A q \in Delivery : pc[q] # "done" => handed'[q] = 0
    <3> SUFFICES ASSUME NEW q \in Delivery, pc[q] # "done" PROVE handed'[q] = 0
      OBVIOUS
    <3>1. q \notin batch /\ handed[q] = 0
      BY <1>2 DEF ListInv
    <3> QED BY <1>3, <3>1
  <2>2. ASSUME NEW u \in timers', NEW i \in DOMAIN list[u.array]
        PROVE  handed'[list[u.array][i]] = 0
    <3>1. u \in timers /\ u.array \in Delivery /\ u.array # t.array
      BY <1>1, TimerBatch DEF QueueInv, OneTimerPerBuffer
    <3> DEFINE e == list[u.array][i]
    <3>2. e \in Delivery /\ handed[e] = 0
      BY <2>2, <3>1, TimerBatch DEF ToSet
    <3>3. e \notin batch
      BY <1>2, <2>2, <3>1 DEF ListInv, Lists, ToSet
    <3> HIDE DEF e
    <3>4. handed'[e] = 0
      BY <1>3, <3>2, <3>3
    <3> QED BY <3>4 DEF e
  <2> QED BY <1>1, <2>1, <2>2 DEF ListInv, Lists
<1>5. AbstractHandOver!Give(batch)
  <2>1. Cardinality(batch) <= MaxBuffered
    BY <1>2, BatchSize, Times
  <2>2. /\ ChatOf[t.array] \in Conversation
        /\ \A e \in batch : ChatOf[e] = ChatOf[t.array] /\ handed[e] = 0
    BY <1>2, ChatType
  <2>3. handed' = [e \in Delivery |-> IF e \in batch THEN 1 ELSE handed[e]]
    <3>1. \A e \in Delivery : handed[e] \in Nat
      BY DEF QueueInv, TypeOK
    <3>2. \A e \in Delivery : handed[e] + (IF e \in batch THEN 1 ELSE 0)
                                = IF e \in batch THEN 1 ELSE handed[e]
      BY <2>2, <3>1
    <3> QED BY <1>3, <3>2
  <2> QED BY <1>2, <2>1, <2>2, <2>3, SameSize DEF AbstractHandOver!Give
<1>6. Accepted' = Accepted
  BY <1>1 DEF Accepted
<1> QED BY <1>2, <1>4, <1>5, <1>6 DEF AbstractHandOver!Next

\* A step that pushes nothing and hands nothing over.
LEMMA OtherList ==
  ASSUME TypeOK, ListInv, UNCHANGED <<list, handed>>,
         \A d \in Delivery : pc[d] = "done" => pc'[d] = "done",
         \A t \in timers' : \E u \in timers : u.array = t.array
  PROVE  ListInv' /\ UNCHANGED <<Accepted, handed>>
<1>1. \A q \in Delivery : \A i \in DOMAIN list[q] : list[q][i] \in Delivery
  BY ListType
<1>2. Lists'
  BY <1>1 DEF ListInv, Lists
<1>3. \A t \in timers' : \A i \in DOMAIN list'[t.array] :
        handed'[list'[t.array][i]] = 0
  BY DEF ListInv
<1> QED BY <1>2, <1>3 DEF ListInv, Accepted

LEMMA HandOverStep ==
  ASSUME QueueInv, OnTime, ListInv, [Next]_vars
  PROVE  ListInv' /\ [AbstractHandOver!Next]_<<Accepted, handed>>
<1>1. TypeOK
  BY DEF QueueInv
<1>2. ASSUME NEW d \in Delivery,
             \/ Arrive(d) \/ OpenConversation(d) \/ SelectMessage(d)
             \/ InsertMessage(d) \/ UpdateLastInbound(d) \/ CheckIgnore(d)
             \/ CheckAllowed(d) \/ HandlerThrows(d)
      PROVE  ListInv' /\ UNCHANGED <<Accepted, handed>>
  <2>1. UNCHANGED <<list, handed, timers>> /\ pc[d] # "done"
    BY <1>2 DEF Arrive, OpenConversation, SelectMessage, InsertMessage,
       UpdateLastInbound, CheckIgnore, CheckAllowed, HandlerThrows, buffers
  <2>2. \E next : pc' = [pc EXCEPT ![d] = next]
    BY <1>2 DEF Arrive, OpenConversation, SelectMessage, InsertMessage,
       UpdateLastInbound, CheckIgnore, CheckAllowed, HandlerThrows, Goto
  <2>3. \A q \in Delivery : pc[q] = "done" => pc'[q] = "done"
    BY <1>1, <2>1, <2>2 DEF TypeOK
  <2> QED BY <1>1, <2>1, <2>3, OtherList
<1>3. ASSUME NEW c \in Conversation, SetIgnore(c)
      PROVE  ListInv' /\ UNCHANGED <<Accepted, handed>>
  BY <1>1, <1>3, OtherList DEF SetIgnore, buffers
<1>4. CASE Crash
  BY <1>1, <1>4, OtherList DEF Crash, TypeOK
<1>5. CASE AppendMessages
  BY <1>1, <1>5, OtherList
  DEF AppendMessages, CopySelect, CopyInsert, CopyEnds, buffers
<1>6. CASE Tick
  <2>1. \A t \in timers : [t EXCEPT !.left = @ - 1].array = t.array
    BY <1>1 DEF TypeOK, Timer
  <2>2. \A t \in timers' : \E u \in timers : u.array = t.array
    BY <1>6, <2>1 DEF Tick
  <2> QED BY <1>1, <1>6, <2>2, OtherList DEF Tick
<1>7. CASE UNCHANGED vars
  BY <1>1, <1>7, OtherList DEF vars
<1> QED
  BY <1>2, <1>3, <1>4, <1>5, <1>6, <1>7, OpenList, ExtendList, FillList, FireList
  DEF Next, Step, FireSome, AbstractHandOver!Next

\* The intake implements the promise of HandOver: whatever overlaps and dies,
\* the agent is given each accepted message once at most, in batches of one
\* conversation that are no larger than is configured.
THEOREM HandOverRefinement == Spec => ImplementsHandOver
<1>1. Init => OnTime /\ ListInv /\ AbstractHandOver!Init
  <2> SUFFICES ASSUME Init PROVE OnTime /\ ListInv /\ AbstractHandOver!Init
    OBVIOUS
  <2>1. \A d \in Delivery : list[d] = <<>> /\ DOMAIN list[d] = {}
    BY DEF Init
  <2>2. Accepted = {}
    BY <2>1 DEF Accepted, ToSet
  <2>3. ListInv
    BY <2>1 DEF Init, ListInv, Lists
  <2> QED BY <2>2, <2>3 DEF Init, OnTime, AbstractHandOver!Init
<1>2. QueueInv /\ QueueInv' /\ OnTime /\ ListInv /\ [Next]_vars
        => OnTime' /\ ListInv' /\ [AbstractHandOver!Next]_<<Accepted, handed>>
  BY OnTimeStep, HandOverStep
<1>3. Spec => []QueueInv
  BY QueueInvInit, QueueInvStep, PTL DEF Spec
<1> QED
  BY <1>1, <1>2, <1>3, PTL DEF Spec, ImplementsHandOver, AbstractHandOver!Spec
=============================================================================
