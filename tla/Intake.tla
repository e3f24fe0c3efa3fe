-------------------------------- MODULE Intake --------------------------------
(***************************************************************************)
(* The orchestrator's intake: POST /ingest/whatsapp-web stores a message,  *)
(* filters it and puts it into the debounce buffer of its conversation,    *)
(* which timers and a size limit turn into batches for the agent.          *)
(*                                                                         *)
(* One action is the code of a handler between two awaits, or one timer.   *)
(* Time is discrete and relative: a buffer knows its age, a timer the time *)
(* it has left, and no timer stays due while time passes. Arrays and       *)
(* timers are objects, as in the closures of debounce.ts: an array is      *)
(* named by the delivery that created it.                                  *)
(*                                                                         *)
(* The gateway writes the same table: conversation.append_messages stores  *)
(* messages one after the other, in a process of its own.                  *)
(***************************************************************************)
EXTENDS Integers, Sequences, FiniteSets, SequencesExt, FiniteSetsExt

CONSTANTS
  Delivery,       \* POSTs of the WhatsApp service
  Message,        \* WhatsApp messages; a message may be delivered twice
  Conversation,
  MsgOf,          \* the message of a delivery
  ConvOf,         \* the conversation of a message
  Ided,           \* the messages that carry a provider_message_id
  Copied,         \* the messages of a call of conversation.append_messages
  DebounceMs,     \* whatsapp.debounce_ms, in clock ticks
  QuietMs,        \* whatsapp.quiet_ms
  MaxTotalMs,     \* whatsapp.max_debounce_total_ms
  MaxBuffered,    \* whatsapp.max_buffered_messages
  NoBuffer,
  Faults          \* which of FaultKinds can happen

\* A process dies; a query throws.
FaultKinds == {"crash", "dbError"}

\* The first message of a buffer is not counted against the limit, so that a
\* limit below two would not be kept.
ASSUME IntakeAssumption ==
  /\ MsgOf \in [Delivery -> Message]
  /\ ConvOf \in [Message -> Conversation]
  /\ Ided \subseteq Message
  /\ Copied \in Seq(Message)
  /\ {DebounceMs, QuietMs, MaxTotalMs} \subseteq Nat \ {0}
  /\ MaxBuffered \in Nat /\ MaxBuffered >= 2
  /\ NoBuffer \notin Delivery
  /\ Faults \subseteq FaultKinds

VARIABLES
  stored,     \* stored[m]: rows of conversation_messages with message m
  ignored,    \* conversations whose phone is in agent_ignore_phones
  pc,         \* pc[d]: the await the handler of d is suspended at
  pending,    \* pending[c]: the array the map holds for c
  list,       \* list[d]: the array created by d
  age,        \* age[d]: ticks since that array was created (firstAt)
  since,      \* since[d]: ticks since a message was last pushed to it
  timers,     \* the timers that run
  handed,     \* handed[d]: how often processBatch was given d
  copier,     \* the query append_messages is suspended at
  at          \* the message of Copied it is at

vars == <<stored, ignored, pc, pending, list, age, since, timers, handed,
          copier, at>>

tool == <<copier, at>>

buffers == <<pending, list, age, since, timers, handed>>

ChatOf == [d \in Delivery |-> ConvOf[MsgOf[d]]]

-----------------------------------------------------------------------------
(* Types *)

\* Ages are counted up to a bound no buffer reaches.
AgeCap == MaxTotalMs + DebounceMs + MaxBuffered * QuietMs

MaxWait == Max({DebounceMs, QuietMs})

Timer == [array : Delivery, left : 0..MaxWait]

TypeOK ==
  /\ stored \in [Message -> Nat]
  /\ ignored \subseteq Conversation
  /\ pc \in [Delivery -> {"idle", "open", "select", "insert", "touch",
                          "ignore", "allow", "enqueue", "done"}]
  /\ pending \in [Conversation -> Delivery \cup {NoBuffer}]
  /\ list \in [Delivery -> Seq(Delivery)]
  /\ age \in [Delivery -> 0..AgeCap]
  /\ since \in [Delivery -> 0..AgeCap]
  /\ timers \subseteq Timer
  /\ handed \in [Delivery -> Nat]
  /\ copier \in {"select", "insert"}
  /\ at \in 1..(Len(Copied) + 1)
  /\ copier = "insert" => at # Len(Copied) + 1

Init ==
  /\ stored = [m \in Message |-> 0]
  /\ ignored = {}
  /\ pc = [d \in Delivery |-> "idle"]
  /\ pending = [c \in Conversation |-> NoBuffer]
  /\ list = [d \in Delivery |-> <<>>]
  /\ age = [d \in Delivery |-> 0]
  /\ since = [d \in Delivery |-> 0]
  /\ timers = {}
  /\ handed = [d \in Delivery |-> 0]
  /\ copier = "select"
  /\ at = 1

-----------------------------------------------------------------------------
(* The ingest handler up to the queue *)

Goto(d, next) == pc' = [pc EXCEPT ![d] = next]

\* The token and the body are checked; a refusal changes nothing.
Arrive(d) ==
  /\ pc[d] = "idle"
  /\ \E next \in {"open", "done"} : Goto(d, next)
  /\ UNCHANGED <<stored, ignored, buffers, tool>>

\* getOrCreateConversation: an upsert, the row's state is left alone.
OpenConversation(d) ==
  /\ pc[d] = "open"
  /\ Goto(d, "select")
  /\ UNCHANGED <<stored, ignored, buffers, tool>>

SelectMessage(d) ==
  /\ pc[d] = "select"
  /\ Goto(d, IF stored[MsgOf[d]] > 0 THEN "ignore" ELSE "insert")
  /\ UNCHANGED <<stored, ignored, buffers, tool>>

\* The unique index on (conversation_id, message_id) refuses the second row
\* of a message, with an exception; it leaves out rows without message_id, and
\* there is none on (conversation_id, ts, direction, text_hash).
InsertMessage(d) ==
  /\ pc[d] = "insert"
  /\ IF MsgOf[d] \in Ided /\ stored[MsgOf[d]] > 0
       THEN Goto(d, "done") /\ UNCHANGED stored
       ELSE /\ stored' = [stored EXCEPT ![MsgOf[d]] = @ + 1]
            /\ Goto(d, "touch")
  /\ UNCHANGED <<ignored, buffers, tool>>

UpdateLastInbound(d) ==
  /\ pc[d] = "touch"
  /\ Goto(d, "ignore")
  /\ UNCHANGED <<stored, ignored, buffers, tool>>

\* IGNORE and ADMIN_ONLY both end the handler.
CheckIgnore(d) ==
  /\ pc[d] = "ignore"
  /\ Goto(d, IF ChatOf[d] \in ignored THEN "done" ELSE "allow")
  /\ UNCHANGED <<stored, ignored, buffers, tool>>

\* ALLOW_ONLY_LISTED_PHONES, and the four settings that enqueue reads.
CheckAllowed(d) ==
  /\ pc[d] = "allow"
  /\ \E next \in {"enqueue", "done"} : Goto(d, next)
  /\ UNCHANGED <<stored, ignored, buffers, tool>>

\* Mutant: a failing query of the store is caught and the message goes on.
HandlerThrowsCaught(d) ==
  /\ "dbError" \in Faults
  /\ pc[d] \in {"open", "select", "insert", "touch", "ignore", "allow"}
  /\ Goto(d, IF pc[d] \in {"select", "insert"} THEN "ignore" ELSE "done")
  /\ UNCHANGED <<stored, ignored, buffers, tool>>

HandlerThrows(d) ==
  /\ "dbError" \in Faults
  /\ pc[d] \in {"open", "select", "insert", "touch", "ignore", "allow"}
  /\ Goto(d, "done")
  /\ UNCHANGED <<stored, ignored, buffers, tool>>

\* /ignore and /unignore of an administrator.
SetIgnore(c) ==
  /\ ignored' \in {ignored \cup {c}, ignored \ {c}}
  /\ UNCHANGED <<stored, pc, buffers, tool>>

-----------------------------------------------------------------------------
(* The debounce queue *)

StopTimer(array) == {t \in timers : t.array # array}

\* processBatch is called with the array; what it does is another module's.
HandToAgent(batch) ==
  handed' = [d \in Delivery |-> handed[d] + Cardinality({i \in DOMAIN batch :
                                                           batch[i] = d})]

\* enqueue finds no entry: the first message starts an array and a timer.
OpenBuffer(d) ==
  /\ pc[d] = "enqueue"
  /\ pending[ChatOf[d]] = NoBuffer
  /\ pending' = [pending EXCEPT ![ChatOf[d]] = d]
  /\ list' = [list EXCEPT ![d] = <<d>>]
  /\ timers' = timers \cup {[array |-> d, left |-> DebounceMs]}
  /\ Goto(d, "done")
  /\ UNCHANGED <<stored, ignored, age, since, handed, tool>>

\* Mutant: no limit on the total.
NextWaitNoTotal(array) == Max({QuietMs, DebounceMs})

NextWait(array) ==
  Max({QuietMs, Min({DebounceMs, Max({0, MaxTotalMs - age[array]})})})

\* Mutant: the timer that runs is not cleared.
ExtendBufferKeepsTimer(d) ==
  LET array == pending[ChatOf[d]] IN
  /\ pc[d] = "enqueue"
  /\ array # NoBuffer
  /\ Len(list[array]) + 1 < MaxBuffered
  /\ list' = [list EXCEPT ![array] = Append(@, d)]
  /\ timers' = timers \cup {[array |-> array, left |-> NextWait(array)]}
  /\ since' = [since EXCEPT ![array] = 0]
  /\ Goto(d, "done")
  /\ UNCHANGED <<stored, ignored, pending, age, handed, tool>>

\* Mutant: the timer that was cleared is not started again.
ExtendBufferStopsTimer(d) ==
  LET array == pending[ChatOf[d]] IN
  /\ pc[d] = "enqueue"
  /\ array # NoBuffer
  /\ Len(list[array]) + 1 < MaxBuffered
  /\ list' = [list EXCEPT ![array] = Append(@, d)]
  /\ timers' = StopTimer(array)
  /\ since' = [since EXCEPT ![array] = 0]
  /\ Goto(d, "done")
  /\ UNCHANGED <<stored, ignored, pending, age, handed, tool>>

\* The entry is there and stays below its limit: its timer starts again.
ExtendBuffer(d) ==
  LET array == pending[ChatOf[d]] IN
  /\ pc[d] = "enqueue"
  /\ array # NoBuffer
  /\ Len(list[array]) + 1 < MaxBuffered
  /\ list' = [list EXCEPT ![array] = Append(@, d)]
  /\ timers' = StopTimer(array)
                 \cup {[array |-> array, left |-> NextWait(array)]}
  /\ since' = [since EXCEPT ![array] = 0]
  /\ Goto(d, "done")
  /\ UNCHANGED <<stored, ignored, pending, age, handed, tool>>

\* The entry is full: it leaves the map and the agent gets it at once. The
\* handler answers when processBatch is done; an exception of processBatch
\* becomes its 500 and changes nothing here.
FillBuffer(d) ==
  LET array == pending[ChatOf[d]] IN
  /\ pc[d] = "enqueue"
  /\ array # NoBuffer
  /\ Len(list[array]) + 1 >= MaxBuffered
  /\ list' = [list EXCEPT ![array] = Append(@, d)]
  /\ timers' = StopTimer(array)
  /\ pending' = [pending EXCEPT ![ChatOf[d]] = NoBuffer]
  /\ HandToAgent(list'[array])
  /\ Goto(d, "done")
  /\ UNCHANGED <<stored, ignored, age, since, tool>>

\* Mutant: the entry stays in the map.
FireKeepsEntry(t) ==
  /\ t.left = 0
  /\ timers' = timers \ {t}
  /\ HandToAgent(list[t.array])
  /\ UNCHANGED <<stored, ignored, pc, pending, list, age, since, tool>>

\* A timer deletes the entry of its conversation, whatever array the map
\* holds by then, and hands over the array of its closure. An exception of
\* processBatch is logged.
Fire(t) ==
  /\ t.left = 0
  /\ timers' = timers \ {t}
  /\ pending' = [pending EXCEPT ![ChatOf[t.array]] = NoBuffer]
  /\ HandToAgent(list[t.array])
  /\ UNCHANGED <<stored, ignored, pc, list, age, since, tool>>

\* Time passes: node runs a timer that is due before it lets time go on.
Tick ==
  /\ timers # {}
  /\ \A t \in timers : t.left > 0
  /\ timers' = {[t EXCEPT !.left = @ - 1] : t \in timers}
  /\ LET older(f) == [d \in Delivery |->
                        IF \E t \in timers : t.array = d
                          THEN Min({AgeCap, f[d] + 1}) ELSE f[d]]
     IN  age' = older(age) /\ since' = older(since)
  /\ UNCHANGED <<stored, ignored, pc, pending, list, handed, tool>>

\* The process dies with its handlers, buffers and timers.
Crash ==
  /\ "crash" \in Faults
  /\ pc' = [d \in Delivery |->
              IF pc[d] = "idle" THEN "idle" ELSE "done"]
  /\ pending' = [c \in Conversation |-> NoBuffer]
  /\ timers' = {}
  /\ UNCHANGED <<stored, ignored, list, age, since, handed, tool>>

-----------------------------------------------------------------------------
(* conversation.append_messages of the gateway *)

CopySelect ==
  /\ copier = "select" /\ at # Len(Copied) + 1
  /\ IF stored[Copied[at]] > 0
       THEN at' = at + 1 /\ UNCHANGED copier
       ELSE copier' = "insert" /\ UNCHANGED at
  /\ UNCHANGED <<stored, ignored, pc, buffers>>

\* The index refuses a row that the orchestrator has stored since the select;
\* nothing catches that, and the messages after it are not stored.
CopyInsert ==
  /\ copier = "insert"
  /\ IF Copied[at] \in Ided /\ stored[Copied[at]] > 0
       THEN at' = Len(Copied) + 1 /\ UNCHANGED stored
       ELSE stored' = [stored EXCEPT ![Copied[at]] = @ + 1] /\ at' = at + 1
  /\ copier' = "select"
  /\ UNCHANGED <<ignored, pc, buffers>>

\* A query throws, or the gateway dies: what is stored stays.
CopyEnds ==
  /\ Faults # {}
  /\ at' = Len(Copied) + 1 /\ copier' = "select"
  /\ UNCHANGED <<stored, ignored, pc, buffers>>

AppendMessages == CopySelect \/ CopyInsert \/ CopyEnds

-----------------------------------------------------------------------------
(* Specification *)

Step(d) ==
  \/ OpenConversation(d) \/ SelectMessage(d) \/ InsertMessage(d)
  \/ UpdateLastInbound(d) \/ CheckIgnore(d) \/ CheckAllowed(d)
  \/ OpenBuffer(d) \/ ExtendBuffer(d) \/ FillBuffer(d)

FireSome == \E t \in timers : Fire(t)

Next ==
  \/ \E d \in Delivery : Arrive(d) \/ Step(d) \/ HandlerThrows(d)
  \/ \E c \in Conversation : SetIgnore(c)
  \/ FireSome
  \/ Tick
  \/ Crash
  \/ AppendMessages

Spec == Init /\ [][Next]_vars

\* The event loop runs every handler, fires the timers that are due, and the
\* clock goes on.
FairSpec == /\ Spec
            /\ \A d \in Delivery : WF_vars(Step(d))
            /\ WF_vars(FireSome) /\ WF_vars(Tick)

-----------------------------------------------------------------------------
(* Properties *)

\* Every buffer in the map has the one timer that will close it, and every
\* timer belongs to a buffer in the map: no buffer is stranded, and no timer
\* can close the buffer that came after its own.
OneTimerPerBuffer ==
  /\ \A c \in Conversation : pending[c] # NoBuffer =>
       \E t \in timers : t.array = pending[c]
  /\ \A t \in timers : pending[ChatOf[t.array]] = t.array
  /\ \A t, u \in timers : t.array = u.array => t = u

\* A timer closes its buffer only after the client has been quiet for quiet_ms
\* (or debounce_ms, if that is shorter). The first message sets a limit of
\* debounce_ms; those after it, none of which fills the buffer, move it to
\* max_debounce_total_ms at most, or by one quiet_ms each.
ClosesOnTime ==
  LET pushes == MaxBuffered - 2 IN
  \A t \in timers :
    /\ since[t.array] + t.left >= Min({DebounceMs, QuietMs})
    /\ age[t.array] + t.left <= Max({DebounceMs + pushes * QuietMs,
                                     MaxTotalMs + (pushes - 1) * QuietMs})

\* A message that carries an id has one row, however often it is delivered and
\* whoever else stores it; and every message, with an id or without, has a row
\* before the agent, which reads the history, is given it. That one without an id
\* has a single row is not said: no index refuses the second.
StoredOnce ==
  /\ \A m \in Ided : stored[m] <= 1
  /\ \A d \in Delivery : handed[d] > 0 => stored[MsgOf[d]] > 0

\* Batches are what module HandOver promises, with overlapping handlers,
\* timers and crashes.
Accepted == UNION {ToSet(list[d]) : d \in Delivery}

AbstractHandOver == INSTANCE HandOver WITH accepted <- Accepted

ImplementsHandOver == AbstractHandOver!Spec

\* The delivery waits in the buffer the map holds for its conversation.
Buffered(d) ==
  LET array == pending[ChatOf[d]] IN
  array # NoBuffer /\ d \in ToSet(list[array])

\* No message waits in a buffer for ever, and it leaves the buffer into the
\* hands of the agent, unless the process dies.
EveryMessageHanded ==
  /\ \A d \in Delivery : Buffered(d) ~> ~Buffered(d)
  /\ [][\A d \in Delivery :
          Buffered(d) /\ ~Buffered(d)' => Crash \/ handed'[d] > 0]_vars
=============================================================================
