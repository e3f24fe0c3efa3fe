--------------------------- MODULE Reminders_proofs ---------------------------
(***************************************************************************)
(* Theorems about the reminder worker, for any actions, thresholds, limits *)
(* and faults.                                                             *)
(***************************************************************************)
EXTENDS Reminders, FiniteSetTheorems, TLAPS

LEMMA Constants ==
  /\ First \in Nat /\ Repeat \in Nat /\ MaxReminders \in Nat
  /\ First > 0 /\ Repeat > 0
  /\ SlowTicks \in Nat /\ MaxDeaths \in Nat
  /\ AgeCap \in Nat /\ AgeCap >= Repeat
  /\ OverdueCap \in Nat
<1>1. /\ First \in Nat /\ Repeat \in Nat /\ MaxReminders \in Nat
      /\ First > 0 /\ Repeat > 0
      /\ SlowTicks \in Nat /\ MaxDeaths \in Nat
  BY RemindersAssumption
<1>2. QED
  BY <1>1 DEF AgeCap, OverdueCap

LEMMA LaterType ==
  ASSUME NEW cap \in Nat, NEW n \in 0..cap
  PROVE  Later(n, cap) \in 0..cap /\ Later(n, cap) >= n
BY DEF Later

-----------------------------------------------------------------------------
(* Type correctness. What is due is due until it is counted, which is what *)
(* keeps the count below its limit.                                        *)

WorkerInv ==
  /\ \A a \in due : count[a] < MaxReminders
  /\ current # NoAction => count[current] < MaxReminders /\ current \notin due
  /\ pc \in {"send", "update"} <=> current # NoAction

TypeInv == TypeOK /\ WorkerInv

LEMMA TypeInit == Init => TypeInv
<1> SUFFICES ASSUME Init PROVE TypeInv
  OBVIOUS
<1>1. QED
  BY Constants DEF Init, TypeInv, TypeOK, WorkerInv

LEMMA TickType == ASSUME TypeInv, Tick PROVE TypeInv'
<1>1. age' \in [Action -> 0..AgeCap]
  BY Constants, LaterType DEF Tick, TypeInv, TypeOK
<1>2. gap' \in [Action -> 0..AgeCap]
  BY Constants, LaterType DEF Tick, TypeInv, TypeOK
<1>3. overdue' \in [Action -> 0..OverdueCap]
  BY Constants, LaterType DEF Tick, TypeInv, TypeOK
<1>4. timer' \in 0..(First + Repeat) /\ slow' \in 0..SlowTicks
  BY Constants DEF Tick, TypeInv, TypeOK
<1>5. QED
  BY <1>1, <1>2, <1>3, <1>4 DEF Tick, TypeInv, TypeOK, WorkerInv

LEMMA TypeStep == TypeInv /\ [Next]_vars => TypeInv'
<1> SUFFICES ASSUME TypeInv, [Next]_vars PROVE TypeInv'
  OBVIOUS
<1> USE Constants
<1>1. CASE Run
  BY <1>1 DEF Run, SetTimer, TypeInv, TypeOK, WorkerInv, rows, history
<1>2. CASE ReadActions
  BY <1>2 DEF ReadActions, IsDue, TypeInv, TypeOK, WorkerInv, rows, history
<1>3. CASE NextAction
  <2>1. CASE due = {}
    BY <1>3, <2>1
    DEF NextAction, SetTimer, TypeInv, TypeOK, WorkerInv, rows, history
  <2>2. CASE due # {}
    <3>1. PICK a \in due : current' = a /\ due' = due \ {a}
      BY <1>3, <2>2 DEF NextAction
    <3>2. a \in open /\ a # NoAction /\ count[a] < MaxReminders
      BY RemindersAssumption DEF TypeInv, TypeOK, WorkerInv
    <3>3. pc' = "send" /\ UNCHANGED <<timer, slow, enabled, rows, deaths, history>>
      BY <1>3, <2>2 DEF NextAction
    <3>4. QED
      BY <3>1, <3>2, <3>3 DEF TypeInv, TypeOK, WorkerInv, rows, history
  <2>3. QED
    BY <2>1, <2>2
<1>4. CASE Send
  <2>1. current \in Action
    BY <1>4 DEF Send, TypeInv, TypeOK, WorkerInv
  <2>2. asked' \in [Action -> Nat] /\ gap' \in [Action -> 0..AgeCap]
    BY <1>4, <2>1 DEF Send, TypeInv, TypeOK
  <2>3. QED
    BY <1>4, <2>2 DEF Send, TypeInv, TypeOK, WorkerInv, rows
<1>5. CASE Update
  <2>1. /\ current \in open /\ current \in Action
        /\ count[current] < MaxReminders /\ current \notin due
    BY <1>5 DEF Update, TypeInv, TypeOK, WorkerInv
  <2>2. count' \in [Action -> 0..MaxReminders]
    <3>1. count[current] + 1 \in 0..MaxReminders
      BY <2>1 DEF TypeInv, TypeOK
    <3>2. QED
      BY <1>5, <3>1 DEF Update, TypeInv, TypeOK
  <2>3. age' \in [Action -> 0..AgeCap] /\ overdue' \in [Action -> 0..OverdueCap]
    <3>1. 0 \in 0..AgeCap /\ 0 \in 0..OverdueCap
      OBVIOUS
    <3>2. QED
      BY <1>5, <3>1 DEF Update, TypeInv, TypeOK
  <2>4. kept' \subseteq open
    BY <1>5, <2>1 DEF Update, TypeInv, TypeOK
  <2>5. \A a \in due : count'[a] < MaxReminders
    BY <1>5, <2>1 DEF Update, TypeInv, TypeOK, WorkerInv
  <2>6. QED
    BY <1>5, <2>2, <2>3, <2>4, <2>5 DEF Update, TypeInv, TypeOK, WorkerInv
<1>6. CASE Die
  <2>1. deaths' \in 0..MaxDeaths
    BY <1>6 DEF Die, TypeInv, TypeOK
  <2>2. overdue' \in [Action -> 0..OverdueCap] /\ kept' = {}
    BY <1>6 DEF Die, Off
  <2>3. QED
    BY <1>6, <2>1, <2>2 DEF Die, TypeInv, TypeOK, WorkerInv, rows
<1>7. CASE Restart
  BY <1>7 DEF Restart, TypeInv, TypeOK, WorkerInv, rows, history
<1>8. CASE Switch
  BY <1>8 DEF Switch, Off, TypeInv, TypeOK, WorkerInv, rows, worker
<1>9. ASSUME NEW a \in Action, AddPendingAction(a) PROVE TypeInv'
  BY <1>9 DEF AddPendingAction, TypeInv, TypeOK, WorkerInv, worker, history
<1>10. CASE UNCHANGED vars
  BY <1>10 DEF vars, TypeInv, TypeOK, WorkerInv, rows, worker, history
<1>11. QED
  BY <1>1, <1>2, <1>3, <1>4, <1>5, <1>6, <1>7, <1>8, <1>9, <1>10, TickType
  DEF Next, Round

\* The type invariant of the worker; above all no action is counted more often
\* than is configured, whatever dies between a message and its count.
THEOREM TypeCorrect == Spec => []TypeOK
<1>1. TypeInv => TypeOK
  BY DEF TypeInv
<1>2. QED
  BY <1>1, TypeInit, TypeStep, PTL DEF Spec

-----------------------------------------------------------------------------
(* Reminders are spaced. The worker goes by the age of the row; the row of *)
(* an action all of whose messages were counted is not older than its last *)
(* message.                                                                *)

\* The round has chosen a.
Chosen(a) == a \in due \/ (pc = "send" /\ a = current)

Spaced(a) ==
  /\ count[a] <= asked[a]
  /\ pc = "update" /\ a = current => count[a] < asked[a]
  /\ asked[a] = count[a] /\ asked[a] # 0 => gap[a] >= age[a]
  /\ Chosen(a) => count[a] = 0 \/ age[a] >= Repeat

SpacedInv == TypeInv /\ \A a \in Action : Spaced(a)

LEMMA SpacedInit == Init => SpacedInv
<1> SUFFICES ASSUME Init PROVE SpacedInv
  OBVIOUS
<1>1. QED
  BY TypeInit DEF Init, SpacedInv, Spaced, Chosen

\* A step after which fewer actions are chosen and no row or message differs.
LEMMA SpacedOther ==
  ASSUME SpacedInv, TypeInv', UNCHANGED <<count, age, asked, gap>>,
         \A a \in Action : Chosen(a)' => Chosen(a),
         pc' = "update" => UNCHANGED <<pc, current>>
  PROVE  SpacedInv'
BY DEF SpacedInv, Spaced

LEMMA SpacedStep == SpacedInv /\ [Next]_vars => SpacedInv'
<1> SUFFICES ASSUME SpacedInv, [Next]_vars PROVE SpacedInv'
  OBVIOUS
<1> USE Constants
<1>1. TypeInv /\ TypeInv'
  BY TypeStep DEF SpacedInv
<1>2. CASE Run
  BY <1>1, <1>2, SpacedOther DEF Run, SetTimer, Chosen, rows, history
<1>3. CASE ReadActions
  <2>1. \A a \in due' : count[a] = 0 \/ age[a] >= Repeat
    BY <1>3 DEF ReadActions, IsDue
  <2>2. QED
    BY <1>1, <1>3, <2>1
    DEF ReadActions, SpacedInv, Spaced, Chosen, rows, history
<1>4. CASE NextAction
  <2>1. \A a \in Action : Chosen(a)' => Chosen(a)
    BY <1>4 DEF NextAction, SetTimer, Chosen
  <2>2. UNCHANGED <<count, age, asked, gap>> /\ pc' # "update"
    BY <1>4 DEF NextAction, SetTimer, rows, history
  <2>3. QED
    BY <1>1, <2>1, <2>2, SpacedOther
<1>5. CASE Send
  <2>1. current \in Action
    BY <1>1, <1>5 DEF Send, TypeInv, TypeOK, WorkerInv
  <2>2. /\ asked'[current] = asked[current] + 1
        /\ \A a \in Action : a # current =>
              asked'[a] = asked[a] /\ gap'[a] = gap[a]
        /\ UNCHANGED <<count, age, due, current>> /\ pc' = "update"
    BY <1>1, <1>5, <2>1 DEF Send, TypeInv, TypeOK, rows
  <2>3. count[current] <= asked[current]
          /\ count[current] \in Nat /\ asked[current] \in Nat
    BY <1>1, <2>1 DEF SpacedInv, Spaced, TypeInv, TypeOK
  <2>4. current \notin due
    BY <1>1, <2>1, RemindersAssumption DEF TypeInv, WorkerInv
  <2>5. Spaced(current)'
    BY <2>1, <2>2, <2>3, <2>4 DEF Spaced, Chosen
  <2>6. ASSUME NEW a \in Action, a # current PROVE Spaced(a)'
    BY <2>2, <2>6 DEF SpacedInv, Spaced, Chosen
  <2>7. QED
    BY <1>1, <2>2, <2>5, <2>6 DEF SpacedInv
<1>6. CASE Update
  <2>1. current \in Action
    BY <1>1, <1>6 DEF Update, TypeInv, TypeOK, WorkerInv
  <2>2. /\ count'[current] = count[current] + 1 /\ age'[current] = 0
        /\ \A a \in Action : a # current =>
              count'[a] = count[a] /\ age'[a] = age[a]
        /\ UNCHANGED <<due, asked, gap>> /\ pc' = "loop"
    BY <1>1, <1>6, <2>1 DEF Update, TypeInv, TypeOK
  <2>3. /\ count[current] < asked[current] /\ current \notin due
        /\ gap[current] \in Nat /\ count[current] \in Nat
        /\ asked[current] \in Nat
    BY <1>1, <1>6, <2>1, RemindersAssumption
    DEF Update, SpacedInv, Spaced, TypeInv, TypeOK, WorkerInv
  <2>4. ASSUME NEW a \in Action, a = current PROVE Spaced(a)'
    BY <2>2, <2>3, <2>4 DEF Spaced, Chosen
  <2>5. ASSUME NEW a \in Action, a # current PROVE Spaced(a)'
    BY <2>2, <2>5 DEF SpacedInv, Spaced, Chosen
  <2>6. QED
    BY <1>1, <2>4, <2>5 DEF SpacedInv
<1>7. CASE Tick
  <2>1. /\ UNCHANGED <<count, asked, due, current>>
        /\ \A a \in Action : Chosen(a)' => Chosen(a)
        /\ pc' = pc
    BY <1>7 DEF Tick, Chosen
  <2>2. ASSUME NEW a \in Action PROVE Spaced(a)'
    <3>1. age[a] \in 0..AgeCap /\ gap[a] \in 0..AgeCap
      BY <1>1 DEF TypeInv, TypeOK
    <3>2. /\ age'[a] = IF a \in open THEN Later(age[a], AgeCap) ELSE 0
          /\ gap'[a] = Later(gap[a], AgeCap)
      BY <1>7 DEF Tick
    <3>3. gap[a] >= age[a] => gap'[a] >= age'[a]
      BY <3>1, <3>2 DEF Later
    <3>4. Chosen(a) => a \in open
      BY <1>1 DEF Chosen, TypeInv, TypeOK, WorkerInv
    <3>5. Chosen(a) => age'[a] >= age[a]
      BY <3>1, <3>2, <3>4 DEF Later
    <3>6. age'[a] \in Nat
      BY <1>1 DEF TypeInv, TypeOK
    <3>7. QED
      BY <2>1, <3>1, <3>3, <3>5, <3>6 DEF SpacedInv, Spaced
  <2>3. QED
    BY <1>1, <2>2 DEF SpacedInv
<1>8. CASE Die \/ Restart \/ Switch
  <2>1. UNCHANGED <<count, age, asked, gap>>
    BY <1>8 DEF Die, Restart, Switch, rows, history
  <2>2. \A a \in Action : Chosen(a)' => Chosen(a)
    BY <1>8 DEF Die, Restart, Switch, Chosen, worker
  <2>3. pc' = "update" => UNCHANGED <<pc, current>>
    BY <1>8 DEF Die, Restart, Switch, worker
  <2>4. QED
    BY <1>1, <2>1, <2>2, <2>3, SpacedOther
<1>9. ASSUME NEW a \in Action, AddPendingAction(a) PROVE SpacedInv'
  BY <1>1, <1>9, SpacedOther DEF AddPendingAction, Chosen, worker, history
<1>10. CASE UNCHANGED vars
  BY <1>1, <1>10, SpacedOther DEF vars, Chosen, rows, worker, history
<1>11. QED
  BY <1>2, <1>3, <1>4, <1>5, <1>6, <1>7, <1>8, <1>9, <1>10 DEF Next, Round

\* No action is brought up again before the configured time has passed, unless
\* a message about it was never counted, for any thresholds, however long
\* rounds take and whatever dies.
THEOREM Spacing == Spec => RemindersAreSpaced
<1>1. SpacedInv /\ [Next]_vars =>
        [\A a \in Action :
           asked[a] # 0 /\ asked'[a] # asked[a]
           => gap[a] >= Repeat \/ asked[a] > count[a]]_vars
  <2> SUFFICES ASSUME SpacedInv, [Next]_vars, NEW a \in Action,
                      asked[a] # 0, asked'[a] # asked[a]
               PROVE  gap[a] >= Repeat \/ asked[a] > count[a]
    OBVIOUS
  <2>1. Send
    BY DEF Next, Round, Run, ReadActions, NextAction, Update, Die, Restart,
       Switch, Tick, AddPendingAction, vars, history, SetTimer
  <2>2. pc = "send" /\ a = current
    BY <2>1 DEF Send, SpacedInv, TypeInv, TypeOK
  <2>3. /\ asked[a] \in Nat /\ count[a] \in Nat /\ gap[a] \in Nat
        /\ age[a] \in Nat /\ Repeat \in Nat
    BY Constants DEF SpacedInv, TypeInv, TypeOK
  <2>4. count[a] <= asked[a] /\ (count[a] = 0 \/ age[a] >= Repeat)
          /\ (asked[a] = count[a] => gap[a] >= age[a])
    BY <2>2 DEF SpacedInv, Spaced, Chosen
  <2>5. QED
    BY <2>3, <2>4
<1>2. QED
  BY <1>1, SpacedInit, SpacedStep, PTL DEF Spec, RemindersAreSpaced
-----------------------------------------------------------------------------
(* Counts. Uncounted grows by the message that is sent, and shrinks by one *)
(* when the worker gets to count it.                                       *)

CountInv ==
  /\ IsFiniteSet(Uncounted)
  /\ Cardinality(Uncounted) <= deaths + IF pc = "update" THEN 1 ELSE 0

LEMMA UncountedMember ==
  ASSUME NEW c \in [Action -> Nat], NEW s \in [Action -> Nat], NEW m
  PROVE  m \in UNION {{a} \X (c[a] + 1 .. s[a]) : a \in Action}
           <=> \E a \in Action, n \in Nat : m = <<a, n>> /\ c[a] < n /\ n <= s[a]
<1>1. \A a \in Action : c[a] + 1 .. s[a] = {n \in Nat : c[a] < n /\ n <= s[a]}
  OBVIOUS
<1>2. \A a \in Action : {a} \X (c[a] + 1 .. s[a])
                          = {<<a, n>> : n \in {k \in Nat : c[a] < k /\ k <= s[a]}}
  BY <1>1
<1> QED BY <1>2

LEMMA CountStep ==
  ASSUME SpacedInv, SpacedInv', CountInv, [Next]_vars
  PROVE  CountInv'
<1>1. TypeInv /\ TypeInv'
  BY DEF SpacedInv
<1>0. /\ count \in [Action -> Nat] /\ asked \in [Action -> Nat]
      /\ count' \in [Action -> Nat] /\ asked' \in [Action -> Nat]
  BY <1>1 DEF TypeInv, TypeOK
<1>2. deaths \in Nat /\ Cardinality(Uncounted) \in Nat
  BY <1>1, FS_CardinalityType DEF CountInv, TypeInv, TypeOK
<1>3. CASE Send
  <2>1. /\ current \in Action /\ pc = "send" /\ pc' = "update" /\ count' = count
        /\ asked' = [asked EXCEPT ![current] = @ + 1] /\ deaths' = deaths
        /\ asked[current] \in Nat /\ asked'[current] = asked[current] + 1
        /\ \A a \in Action \ {current} : asked'[a] = asked[a]
        /\ count[current] \in Nat /\ count[current] <= asked[current]
    BY <1>1, <1>3 DEF Send, rows, TypeInv, TypeOK, WorkerInv, SpacedInv, Spaced
  <2> DEFINE m == <<current, asked[current] + 1>>
  <2>2. m \notin Uncounted
    BY <1>0, <2>1, UncountedMember DEF Uncounted
  <2>3. Uncounted' = Uncounted \cup {m}
    <3>1. ASSUME NEW x PROVE x \in Uncounted' <=> x \in Uncounted \/ x = m
      <4>1. x \in Uncounted' <=> \E a \in Action, n \in Nat :
                                x = <<a, n>> /\ count[a] < n /\ n <= asked'[a]
        BY <1>0, <2>1, UncountedMember DEF Uncounted
      <4>2. x \in Uncounted <=> \E a \in Action, n \in Nat :
                                x = <<a, n>> /\ count[a] < n /\ n <= asked[a]
        BY <1>0, UncountedMember DEF Uncounted
      <4>3. \A a \in Action, n \in Nat :
               count[a] < n /\ n <= asked'[a]
                 <=> (count[a] < n /\ n <= asked[a])
                       \/ (a = current /\ n = asked[current] + 1)
        BY <1>1, <2>1 DEF TypeInv, TypeOK
      <4>4. /\ current \in Action /\ asked[current] + 1 \in Nat
            /\ \A a, n : <<a, n>> = m <=> a = current /\ n = asked[current] + 1
        BY <2>1
      <4> HIDE DEF m
      <4> QED BY <4>1, <4>2, <4>3, <4>4
    <3> QED BY <3>1
  <2>4. IsFiniteSet(Uncounted') /\ Cardinality(Uncounted') = Cardinality(Uncounted) + 1
    BY <2>2, <2>3, FS_AddElement DEF CountInv
  <2> QED BY <1>2, <2>1, <2>4 DEF CountInv
<1>4. CASE Update
  <2>1. /\ current \in Action /\ pc = "update" /\ pc' = "loop"
        /\ asked' = asked /\ deaths' = deaths
        /\ count'[current] = count[current] + 1
        /\ \A a \in Action \ {current} : count'[a] = count[a]
        /\ count[current] \in Nat /\ asked[current] \in Nat
        /\ count[current] < asked[current]
    BY <1>1, <1>4 DEF Update, TypeInv, TypeOK, WorkerInv, SpacedInv, Spaced
  <2> DEFINE m == <<current, count[current] + 1>>
  <2>2. m \in Uncounted
    BY <1>0, <2>1, UncountedMember DEF Uncounted
  <2>3. Uncounted' = Uncounted \ {m}
    <3>1. ASSUME NEW x PROVE x \in Uncounted' <=> x \in Uncounted /\ x # m
      <4>1. x \in Uncounted' <=> \E a \in Action, n \in Nat :
                                x = <<a, n>> /\ count'[a] < n /\ n <= asked[a]
        BY <1>0, <2>1, UncountedMember DEF Uncounted
      <4>2. x \in Uncounted <=> \E a \in Action, n \in Nat :
                                x = <<a, n>> /\ count[a] < n /\ n <= asked[a]
        BY <1>0, UncountedMember DEF Uncounted
      <4>3. \A a \in Action, n \in Nat :
               count'[a] < n /\ n <= asked[a]
                 <=> (count[a] < n /\ n <= asked[a])
                       /\ ~(a = current /\ n = count[current] + 1)
        BY <1>1, <2>1 DEF TypeInv, TypeOK
      <4>4. /\ current \in Action /\ count[current] + 1 \in Nat
            /\ \A a, n : <<a, n>> = m <=> a = current /\ n = count[current] + 1
        BY <2>1
      <4> HIDE DEF m
      <4> QED BY <4>1, <4>2, <4>3, <4>4
    <3> QED BY <3>1
  <2>4. IsFiniteSet(Uncounted') /\ Cardinality(Uncounted') = Cardinality(Uncounted) - 1
    BY <2>2, <2>3, FS_RemoveElement DEF CountInv
  <2> QED BY <1>2, <2>1, <2>4 DEF CountInv
<1>5. CASE Die
  <2>1. Uncounted' = Uncounted /\ deaths' = deaths + 1
    BY <1>5 DEF Die, rows, Uncounted
  <2> QED BY <1>2, <2>1 DEF CountInv
<1>6. CASE ~(Send \/ Update \/ Die)
  <2>1. /\ UNCHANGED <<count, asked, deaths>>
        /\ pc' = "update" <=> pc = "update"
    BY <1>6 DEF Next, Round, Run, SetTimer, ReadActions, NextAction, Restart,
       Switch, Tick, AddPendingAction, vars, rows, worker, history
  <2>2. Uncounted' = Uncounted
    BY <2>1 DEF Uncounted
  <2> QED BY <2>1, <2>2 DEF CountInv
<1> QED BY <1>3, <1>4, <1>5, <1>6

\* Nothing is counted that was not sent, and every death of the process costs
\* at most one message that was sent and is not counted, however many actions
\* there are and wherever in a round it dies.
THEOREM Counts == Spec => []CountsAreSent
<1>1. Init => CountInv
  <2> SUFFICES ASSUME Init PROVE CountInv
    OBVIOUS
  <2>1. ~\E m : m \in Uncounted
    BY UncountedMember DEF Init, Uncounted
  <2>2. Uncounted = {}
    BY <2>1
  <2> QED BY <2>2, FS_EmptySet DEF Init, CountInv
<1>2. SpacedInv /\ SpacedInv' /\ CountInv /\ [Next]_vars => CountInv'
  BY CountStep
<1>3. SpacedInv /\ CountInv => CountsAreSent
  BY DEF SpacedInv, Spaced, CountInv, CountsAreSent
<1>4. Spec => []SpacedInv
  BY SpacedInit, SpacedStep, PTL DEF Spec
<1> QED BY <1>1, <1>2, <1>3, <1>4, PTL DEF Spec
-----------------------------------------------------------------------------
(* Reminders come in time. What an action has waited is charged to the     *)
(* pause before a round, to the round that ran while it became due, and to *)
(* the one that brings it up.                                              *)

InRound == pc \in {"loop", "send", "update"}

ToDo(a) == a \in due \/ a = current

Waits(a) ==
  /\ overdue[a] > 0 => a \in open /\ Ripe(a) /\ enabled /\ pc # "down"
  /\ pc = "timer" => overdue[a] + timer <= Pause
  /\ pc = "read" \/ ToDo(a) => overdue[a] <= Pause + slow
  /\ InRound /\ ~ToDo(a) => overdue[a] <= slow
  /\ ToDo(a) => InRound

\* For one that the last round has brought up, the age says when it becomes
\* due again: not after the timer, and not much before it.
WaitsAgain(a) ==
  /\ pc # "down" /\ count[a] > 0
  /\ enabled /\ count[a] < MaxReminders =>
       /\ pc = "timer" => /\ age[a] + timer >= Repeat
                          /\ age[a] + timer <= Repeat + SlowTicks
                          /\ \/ overdue[a] = 0
                             \/ overdue[a] + timer <= SlowTicks
       /\ pc = "read" => age[a] >= Repeat /\ overdue[a] <= SlowTicks + slow
       /\ ToDo(a) => overdue[a] <= SlowTicks + slow
       /\ InRound /\ ~ToDo(a) =>
            age[a] <= slow /\ (overdue[a] = 0 \/ overdue[a] + Repeat <= slow)

InTime(a) == Waits(a) /\ (a \in kept => WaitsAgain(a))

TimeInv == \A a \in Action : InTime(a)

LEMMA PauseType ==
  Pause \in Nat /\ Pause >= First /\ Pause >= Repeat + SlowTicks
BY Constants DEF Pause

LEMMA TimeTick ==
  ASSUME TypeInv, TypeInv', NEW a \in Action, InTime(a), Tick
  PROVE  InTime(a)'
<1>1. /\ overdue[a] \in Nat /\ age[a] \in 0..AgeCap /\ count[a] \in Nat
      /\ timer \in Nat /\ slow \in Nat /\ timer' \in Nat /\ slow' \in Nat
      /\ overdue'[a] \in Nat /\ age'[a] \in Nat
  BY Constants DEF TypeInv, TypeOK
<1>2. /\ UNCHANGED <<enabled, open, count, pc, due, current, kept>>
      /\ \/ pc = "timer" /\ timer > 0 /\ timer' = timer - 1 /\ slow' = slow
         \/ pc = "down" /\ timer' = timer /\ slow' = slow
         \/ /\ pc \in {"read", "loop", "send", "update"}
            /\ slow' = slow + 1 /\ timer' = timer
  BY <1>1 DEF Tick, TypeInv, TypeOK
<1>3. \/ overdue'[a] = overdue[a]
      \/ /\ a \in open /\ Ripe(a) /\ enabled /\ pc # "down"
         /\ overdue'[a] = overdue[a] + 1
  BY <1>1 DEF Tick, Later
<1>4. a \in open => /\ age'[a] >= age[a] /\ age'[a] <= age[a] + 1
                    /\ age[a] >= Repeat \/ age'[a] = age[a] + 1
  BY <1>1, Constants DEF Tick, Later, AgeCap
<1>5. (InRound' <=> InRound) /\ (ToDo(a)' <=> ToDo(a))
  BY <1>2 DEF InRound, ToDo
<1>6. a \in open /\ Ripe(a) => Ripe(a)'
  BY <1>1, <1>2, <1>4, Constants DEF Ripe
<1>7. Waits(a)'
  BY <1>1, <1>2, <1>3, <1>5, <1>6, PauseType, Constants DEF InTime, Waits, InRound
<1>8. ASSUME a \in kept PROVE WaitsAgain(a)'
  <2>1. a \in open /\ WaitsAgain(a)
    BY <1>8 DEF InTime, TypeInv, TypeOK
  <2>2. Ripe(a) => count[a] < MaxReminders /\ age[a] >= Repeat
    BY <2>1 DEF Ripe, WaitsAgain
  <2>3. ToDo(a) => InRound
    BY DEF InTime, Waits
  <2> QED
    BY <1>1, <1>2, <1>3, <1>4, <1>5, <2>1, <2>2, <2>3, Constants
    DEF WaitsAgain, InRound
<1> QED BY <1>2, <1>7, <1>8 DEF InTime

LEMMA TimeStep ==
  ASSUME TypeInv, TypeInv', TimeInv, [Next]_vars PROVE TimeInv'
<1> SUFFICES ASSUME NEW a \in Action PROVE InTime(a)'
  BY DEF TimeInv
<1>0. InTime(a) /\ TypeOK /\ TypeOK' /\ (a = current => pc \in {"send", "update"})
  BY RemindersAssumption DEF TimeInv, TypeInv, WorkerInv
<1>1. /\ overdue[a] \in Nat /\ age[a] \in Nat /\ count[a] \in Nat
      /\ timer \in Nat /\ slow \in 0..SlowTicks
      /\ kept \subseteq open /\ due \subseteq open
      /\ MaxReminders \in Nat /\ count[a] <= MaxReminders
  BY <1>0, Constants DEF TypeOK
<1>2. CASE Run
  <2>1. pc = "timer" /\ timer = 0 /\ ~ToDo(a)
    BY <1>0, <1>2 DEF Run, InTime, Waits, ToDo, InRound
  <2>2. UNCHANGED <<enabled, rows, due, current, deaths, history>> /\ ~ToDo(a)'
    BY <1>2, <2>1 DEF Run, ToDo
  <2>3. CASE enabled
    <3>1. pc' = "read" /\ slow' = slow
      BY <1>2, <2>3 DEF Run
    <3> QED
      BY <1>0, <1>1, <2>1, <2>2, <3>1, PauseType, Constants
      DEF InTime, Waits, WaitsAgain, InRound, Ripe, rows, history
  <2>4. CASE ~enabled
    <3>1. pc' = "timer" /\ timer' = Repeat /\ slow' = 0
      BY <1>2, <2>4 DEF Run, SetTimer
    <3>2. overdue[a] = 0
      BY <1>0, <1>1, <2>4 DEF InTime, Waits
    <3> QED
      BY <1>0, <1>1, <2>1, <2>2, <2>4, <3>1, <3>2, PauseType, Constants
      DEF InTime, Waits, WaitsAgain, InRound, rows, history
  <2> QED BY <2>3, <2>4
<1>3. CASE ReadActions
  <2>1. /\ pc = "read" /\ pc' = "loop" /\ due' = {b \in open : Ripe(b)}
        /\ UNCHANGED <<enabled, rows, timer, current, slow, deaths, history>>
    BY <1>3 DEF ReadActions, IsDue, Ripe
  <2>2. ToDo(a)' <=> a \in open /\ Ripe(a)
    BY <1>0, <2>1 DEF ToDo
  <2>3. (Ripe(a)' <=> Ripe(a)) /\ InRound'
    BY <2>1 DEF Ripe, rows, InRound
  <2>4. ~ToDo(a)' => overdue[a] = 0
    BY <1>0, <1>1, <2>2 DEF InTime, Waits
  <2>5. Waits(a)'
    BY <1>0, <1>1, <2>1, <2>2, <2>3, <2>4 DEF InTime, Waits, rows, history
  <2>6. ASSUME a \in kept PROVE WaitsAgain(a)'
    <3>1. WaitsAgain(a) /\ a \in open
      BY <1>0, <1>1, <2>6 DEF InTime
    <3>2. enabled /\ count[a] < MaxReminders => ToDo(a)'
      BY <2>1, <2>2, <3>1 DEF WaitsAgain, Ripe
    <3> QED
      BY <1>1, <2>1, <2>3, <3>1, <3>2 DEF WaitsAgain, rows, history
  <2> QED BY <2>1, <2>5, <2>6 DEF InTime, history
<1>4. CASE NextAction
  <2>1. pc = "loop" /\ UNCHANGED <<enabled, rows, deaths, history>>
    BY <1>4 DEF NextAction
  <2>2. Ripe(a)' <=> Ripe(a)
    BY <2>1 DEF Ripe, rows
  <2>3. CASE due = {}
    <3>1. /\ pc' = "timer" /\ timer' = Repeat /\ slow' = 0 /\ ~ToDo(a) /\ ~ToDo(a)'
      BY <1>0, <1>4, <2>1, <2>3 DEF NextAction, SetTimer, ToDo
    <3>2. Waits(a)'
      BY <1>0, <1>1, <2>1, <2>2, <3>1, PauseType, Constants
      DEF InTime, Waits, InRound, rows, history
    <3>3. ASSUME a \in kept PROVE WaitsAgain(a)'
      BY <1>0, <1>1, <2>1, <3>1, <3>3, Constants
      DEF InTime, WaitsAgain, InRound, rows, history
    <3> QED BY <2>1, <3>2, <3>3 DEF InTime, history
  <2>4. CASE due # {}
    <3>1. pc' = "send" /\ UNCHANGED <<timer, slow>> /\ (ToDo(a)' <=> ToDo(a))
      BY <1>0, <1>4, <2>1, <2>4 DEF NextAction, ToDo
    <3> QED
      BY <1>0, <2>1, <2>2, <3>1
      DEF InTime, Waits, WaitsAgain, InRound, rows, history
  <2> QED BY <2>3, <2>4
<1>5. CASE Send
  <2>1. /\ pc = "send" /\ pc' = "update"
        /\ UNCHANGED <<enabled, rows, timer, due, current, slow, deaths, overdue, kept>>
    BY <1>5 DEF Send
  <2> QED
    BY <1>0, <2>1 DEF InTime, Waits, WaitsAgain, InRound, ToDo, Ripe, rows
<1>6. CASE Update
  <2>1. /\ pc = "update" /\ pc' = "loop" /\ current' = NoAction
        /\ UNCHANGED <<enabled, open, timer, due, slow>>
        /\ kept' = kept \cup {current} /\ current \in Action /\ current \notin due
    BY <1>6 DEF Update, TypeInv, TypeOK, WorkerInv
  <2>2. CASE a = current
    <3>1. /\ count'[a] = count[a] + 1 /\ age'[a] = 0 /\ overdue'[a] = 0
      BY <1>0, <1>6, <2>2 DEF Update, TypeOK
    <3>2. ~ToDo(a)' /\ InRound'
      BY <2>1, <2>2, RemindersAssumption DEF ToDo, InRound
    <3> QED
      BY <1>1, <2>1, <3>1, <3>2 DEF InTime, Waits, WaitsAgain
  <2>3. CASE a # current
    <3>1. count'[a] = count[a] /\ age'[a] = age[a] /\ overdue'[a] = overdue[a]
      BY <1>0, <1>6, <2>3 DEF Update, TypeOK
    <3>2. (ToDo(a)' <=> ToDo(a)) /\ InRound /\ InRound' /\ (a \in kept' <=> a \in kept)
      BY <2>1, <2>3, RemindersAssumption DEF ToDo, InRound
    <3> QED
      BY <1>0, <2>1, <3>1, <3>2 DEF InTime, Waits, WaitsAgain, Ripe
  <2> QED BY <2>2, <2>3
<1>7. CASE Die
  <2>1. overdue'[a] = 0 /\ kept' = {} /\ pc' = "down" /\ ~ToDo(a)'
    BY <1>7, RemindersAssumption DEF Die, Off, ToDo
  <2> QED BY <2>1 DEF InTime, Waits, InRound
<1>8. CASE Restart
  <2>1. /\ pc = "down" /\ pc' = "timer" /\ timer' = First
        /\ UNCHANGED <<due, current, overdue, kept>>
    BY <1>8 DEF Restart, history
  <2>2. overdue[a] = 0 /\ a \notin kept /\ ~ToDo(a)
    BY <1>0, <1>1, <2>1 DEF InTime, Waits, WaitsAgain, InRound
  <2> QED BY <2>1, <2>2, PauseType, Constants DEF InTime, Waits, InRound, ToDo
<1>9. CASE Switch
  <2>1. /\ overdue'[a] = 0 /\ kept' = {} /\ UNCHANGED <<pc, timer, due, current, slow>>
    BY <1>9 DEF Switch, Off, worker
  <2> QED
    BY <1>0, <1>1, <2>1, PauseType, Constants DEF InTime, Waits, InRound, ToDo
<1>10. ASSUME NEW b \in Action, AddPendingAction(b) PROVE InTime(a)'
  <2>1. open \subseteq open' /\ UNCHANGED <<enabled, count, age, worker, deaths, history>>
    BY <1>10 DEF AddPendingAction
  <2> QED
    BY <1>0, <2>1
    DEF InTime, Waits, WaitsAgain, InRound, ToDo, Ripe, worker, history
<1>11. CASE UNCHANGED vars
  BY <1>0, <1>11
  DEF vars, InTime, Waits, WaitsAgain, InRound, ToDo, Ripe, rows, worker, history
<1> QED
  BY <1>0, <1>2, <1>3, <1>4, <1>5, <1>6, <1>7, <1>8, <1>9, <1>10, <1>11, TimeTick
  DEF Next, Round

\* While the worker is on and alive, an action that is due is brought up within
\* a pause and the rounds around it; one that it has brought up before, within
\* two rounds: for any thresholds, any number of actions, and any time a round
\* may take. A death starts the count anew.
THEOREM InTimeAlways == Spec => []RemindedInTime
<1>1. Init => TimeInv
  <2> SUFFICES ASSUME Init, NEW a \in Action PROVE InTime(a)
    BY DEF TimeInv
  <2>1. /\ overdue[a] = 0 /\ kept = {} /\ due = {} /\ a # current /\ pc = "timer"
        /\ timer = First
    BY RemindersAssumption DEF Init
  <2> QED BY <2>1, PauseType, Constants DEF InTime, Waits, InRound, ToDo
<1>2. TypeInv /\ TypeInv' /\ TimeInv /\ [Next]_vars => TimeInv'
  BY TimeStep
<1>3. TypeInv /\ TimeInv => RemindedInTime
  <2> SUFFICES ASSUME TypeInv, TimeInv, NEW a \in Action
               PROVE  overdue[a] <= IF a \in kept THEN 2 * SlowTicks
                                                  ELSE Pause + SlowTicks
    BY DEF RemindedInTime
  <2>1. /\ InTime(a) /\ overdue[a] \in Nat /\ slow \in 0..SlowTicks
        /\ timer \in Nat /\ count[a] \in Nat
        /\ pc \in {"timer", "read", "loop", "send", "update", "down"}
    BY Constants DEF TypeInv, TypeOK, TimeInv
  <2>2. CASE a \notin kept
    BY <2>1, <2>2, PauseType, Constants DEF InTime, Waits, InRound
  <2>3. CASE a \in kept
    <3>1. overdue[a] > 0 => enabled /\ count[a] < MaxReminders /\ pc # "down"
      BY <2>1 DEF InTime, Waits, Ripe
    <3> QED BY <2>1, <2>3, <3>1, Constants DEF InTime, WaitsAgain, InRound
  <2> QED BY <2>2, <2>3
<1>4. Spec => []TypeInv
  BY TypeInit, TypeStep, PTL DEF Spec
<1> QED BY <1>1, <1>2, <1>3, <1>4, PTL DEF Spec
=============================================================================
