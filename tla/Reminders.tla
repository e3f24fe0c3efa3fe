------------------------------- MODULE Reminders ------------------------------
(***************************************************************************)
(* The reminder worker: a timer runs a round, which reads the open pending *)
(* actions once, sends a message for each that is due and then counts it,  *)
(* and sets the timer again. Nothing catches what a round throws: node     *)
(* ends the process, docker starts it again, and with it a new worker.     *)
(*                                                                         *)
(* Time is relative: an action has an age, the timer the time left. A tick *)
(* is a minute. No action the program creates has an approval, so neither  *)
(* /approve nor /reject closes one; all stay OPEN.                         *)
(***************************************************************************)
EXTENDS Naturals, FiniteSets

CONSTANTS
  Action,        \* rows of pending_admin_actions
  NoAction,      \* not one of them
  First,         \* admin_reminder.first_after_minutes
  Repeat,        \* admin_reminder.repeat_every_minutes
  MaxReminders,  \* admin_reminder.max_reminders
  SlowTicks,     \* bound: ticks that pass while a round waits for others
  MaxDeaths,     \* bound: deaths of the process
  Faults         \* which of FaultKinds can happen

\* The process dies; a query of a round throws.
FaultKinds == {"crash", "dbError"}

ASSUME RemindersAssumption ==
  /\ IsFiniteSet(Action) /\ NoAction \notin Action
  /\ First \in Nat \ {0} /\ Repeat \in Nat \ {0} /\ MaxReminders \in Nat
  /\ SlowTicks \in Nat /\ MaxDeaths \in Nat
  /\ Faults \subseteq FaultKinds

VARIABLES
  enabled,    \* admin_reminder.enabled
  open,       \* rows there are
  count,      \* count[a]: reminder_count
  age,        \* age[a]: since last_reminded_at, or created_at without one
  pc,         \* where the worker is
  timer,      \* ticks until the timer fires
  due,        \* the actions this round still has to bring up
  current,    \* the one it is at
  slow,       \* ticks this round has taken
  deaths,     \* deaths of the process so far
  asked,      \* asked[a]: messages handed to Telegram
  gap,        \* gap[a]: ticks since the last of them
  overdue,    \* overdue[a]: ticks a has been due, with the worker on
  kept        \* actions the last round brought up, with the worker on since

rows    == <<open, count, age>>
worker  == <<pc, timer, due, current, slow>>
history == <<asked, gap, overdue, kept>>
vars    == <<enabled, rows, worker, deaths, history>>

-----------------------------------------------------------------------------
AgeCap == First + Repeat
OverdueCap == First + Repeat + 3 * SlowTicks + 2

TypeOK ==
  /\ enabled \in BOOLEAN
  /\ open \subseteq Action
  /\ count \in [Action -> 0..MaxReminders]
  /\ age \in [Action -> 0..AgeCap]
  /\ pc \in {"timer", "read", "loop", "send", "update", "down"}
  /\ timer \in 0..(First + Repeat)
  /\ due \subseteq open
  /\ current \in open \cup {NoAction}
  /\ slow \in 0..SlowTicks
  /\ deaths \in 0..MaxDeaths
  /\ asked \in [Action -> Nat]
  /\ gap \in [Action -> 0..AgeCap]
  /\ overdue \in [Action -> 0..OverdueCap]
  /\ kept \subseteq open

Init ==
  /\ enabled \in BOOLEAN
  /\ open = {}
  /\ count = [a \in Action |-> 0]
  /\ age = [a \in Action |-> 0]
  /\ pc = "timer" /\ timer = First
  /\ due = {} /\ current = NoAction /\ slow = 0
  /\ deaths = 0
  /\ asked = [a \in Action |-> 0]
  /\ gap = [a \in Action |-> 0]
  /\ overdue = [a \in Action |-> 0]
  /\ kept = {}

-----------------------------------------------------------------------------
(* The round *)

\* setTimeout(run, repeatMin): from the end of a round to the next.
SetTimer ==
  /\ pc' = "timer" /\ timer' = Repeat
  /\ slow' = 0

\* Switched off, a round does nothing.
Run ==
  /\ pc = "timer" /\ timer = 0
  /\ IF enabled THEN pc' = "read" /\ UNCHANGED <<timer, slow>> ELSE SetTimer
  /\ UNCHANGED <<enabled, rows, due, current, deaths, history>>

\* Mutants: the thresholds must have passed; the first one counts for all;
\* one reminder less.
IsDueAfter(a) ==
  /\ count[a] < MaxReminders
  /\ age[a] > IF count[a] = 0 THEN First ELSE Repeat
IsDueFirst(a) == count[a] < MaxReminders /\ age[a] >= First
IsDueOnceLess(a) ==
  /\ count[a] + 1 < MaxReminders
  /\ age[a] >= IF count[a] = 0 THEN First ELSE Repeat

IsDue(a) ==
  /\ count[a] < MaxReminders
  /\ age[a] >= IF count[a] = 0 THEN First ELSE Repeat

\* getOpenPendingActions. The rows and now are read once, so what is due is
\* settled here.
ReadActions ==
  /\ pc = "read"
  /\ due' = {a \in open : IsDue(a)}
  /\ pc' = "loop"
  /\ UNCHANGED <<enabled, rows, timer, current, slow, deaths, history>>

NextAction ==
  /\ pc = "loop"
  /\ IF due = {}
       THEN SetTimer /\ UNCHANGED <<due, current>>
       ELSE /\ \E a \in due : current' = a /\ due' = due \ {a}
            /\ pc' = "send"
            /\ UNCHANGED <<timer, slow>>
  /\ UNCHANGED <<enabled, rows, deaths, history>>

\* Mutant: what Telegram does not take is not counted.
SendUncounted ==
  /\ pc = "send"
  /\ \/ pc' = "update" /\ UNCHANGED current
     \/ pc' = "loop" /\ current' = NoAction
  /\ asked' = [asked EXCEPT ![current] = @ + 1]
  /\ gap' = [gap EXCEPT ![current] = 0]
  /\ UNCHANGED <<enabled, rows, timer, due, slow, deaths, overdue, kept>>

\* sendToSummary returns also when Telegram has failed.
Send ==
  /\ pc = "send"
  /\ pc' = "update"
  /\ asked' = [asked EXCEPT ![current] = @ + 1]
  /\ gap' = [gap EXCEPT ![current] = 0]
  /\ UNCHANGED <<enabled, rows, timer, due, current, slow, deaths, overdue, kept>>

\* updateReminder
Update ==
  /\ pc = "update"
  /\ count' = [count EXCEPT ![current] = @ + 1]
  /\ age' = [age EXCEPT ![current] = 0]
  /\ overdue' = [overdue EXCEPT ![current] = 0]
  /\ kept' = kept \cup {current}
  /\ current' = NoAction
  /\ pc' = "loop"
  /\ UNCHANGED <<enabled, open, timer, due, slow, deaths, asked, gap>>

Round == Run \/ ReadActions \/ NextAction \/ Send \/ Update

-----------------------------------------------------------------------------
(* The process, the rest of it, and time *)

Off == overdue' = [a \in Action |-> 0] /\ kept' = {}

\* The process dies of itself or of what a query of the round has thrown.
Die ==
  /\ deaths < MaxDeaths
  /\ \/ "crash" \in Faults /\ pc # "down"
     \/ "dbError" \in Faults /\ \/ pc = "timer" /\ timer = 0
                                \/ pc \in {"read", "update"}
  /\ pc' = "down"
  /\ due' = {} /\ current' = NoAction /\ slow' = 0 /\ timer' = 0
  /\ deaths' = deaths + 1
  /\ Off
  /\ UNCHANGED <<enabled, rows, asked, gap>>

\* restart: unless-stopped, and startReminderWorker.
Restart ==
  /\ pc = "down"
  /\ pc' = "timer" /\ timer' = First
  /\ UNCHANGED <<enabled, rows, due, current, slow, deaths, history>>

\* addPendingAction, of a batch that hands over.
AddPendingAction(a) ==
  /\ pc # "down"
  /\ a \notin open
  /\ open' = open \cup {a}
  /\ UNCHANGED <<enabled, count, age, worker, deaths, history>>

\* admin_config is edited; getConfig's cache of 15 s is less than a tick.
Switch ==
  /\ enabled' = ~enabled
  /\ Off
  /\ UNCHANGED <<rows, worker, deaths, asked, gap>>

\* What the worker is meant to find due.
Ripe(a) ==
  /\ count[a] < MaxReminders
  /\ age[a] >= IF count[a] = 0 THEN First ELSE Repeat

Later(n, cap) == IF n < cap THEN n + 1 ELSE n

\* Timers are urgent; a round may wait for Postgres or Telegram.
Tick ==
  /\ \/ pc = "timer" /\ timer > 0 /\ timer' = timer - 1 /\ UNCHANGED slow
     \/ pc = "down" /\ UNCHANGED <<timer, slow>>
     \/ /\ pc \notin {"timer", "down"} /\ slow < SlowTicks
        /\ slow' = slow + 1 /\ UNCHANGED timer
  /\ age' = [a \in Action |-> IF a \in open THEN Later(age[a], AgeCap) ELSE 0]
  /\ gap' = [a \in Action |-> Later(gap[a], AgeCap)]
  /\ overdue' = [a \in Action |->
                   IF a \in open /\ Ripe(a) /\ enabled /\ pc # "down"
                     THEN Later(overdue[a], OverdueCap) ELSE overdue[a]]
  /\ UNCHANGED <<enabled, open, count, pc, due, current, deaths, asked, kept>>

Next ==
  \/ Round \/ Die \/ Restart \/ Switch \/ Tick
  \/ \E a \in Action : AddPendingAction(a)

Spec == Init /\ [][Next]_vars

\* Timers fire, what a round waits for answers, docker starts the process.
FairSpec == Spec /\ WF_vars(Round) /\ WF_vars(Tick) /\ WF_vars(Restart)

-----------------------------------------------------------------------------
(* Properties *)

\* A message about an action is only sent when Repeat has passed since the
\* last one, unless that one was not counted because the process died.
RemindersAreSpaced ==
  [][\A a \in Action :
       asked[a] # 0 /\ asked'[a] # asked[a]
       => gap[a] >= Repeat \/ asked[a] > count[a]]_vars

\* The messages of an action are numbered; the ones beyond its count.
Uncounted == UNION {{a} \X (count[a] + 1 .. asked[a]) : a \in Action}

\* No reminder is counted that was not sent, and each death of the process
\* costs at most one message that was sent and not counted.
CountsAreSent ==
  /\ \A a \in Action : count[a] <= asked[a]
  /\ Cardinality(Uncounted) <= deaths + IF pc = "update" THEN 1 ELSE 0

\* The pause between two rounds, or before the first one.
Pause == IF First > Repeat + SlowTicks THEN First ELSE Repeat + SlowTicks

\* While the worker is on, an action that is due waits for no more than a
\* pause between rounds (the first one after a start) and the rounds around
\* it. One that a round has brought up is in the next round, although the
\* threshold counts from the message and the timer from the round's end.
RemindedInTime ==
  \A a \in Action :
    overdue[a] <= IF a \in kept THEN 2 * SlowTicks ELSE Pause + SlowTicks

\* Whatever dies in between, every open action is brought up as often as is
\* configured, or the reminders were switched off.
EveryActionIsBroughtUp ==
  \A a \in Action : a \in open ~> count[a] = MaxReminders \/ ~enabled
=============================================================================
