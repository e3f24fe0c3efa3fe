------------------------------- MODULE Scheduling -------------------------------
(***************************************************************************)
(* The orchestrator's deterministic answer to "is there a time on that     *)
(* day?": the day is read out of the text, the gateway is asked about it,  *)
(* first for one master, then for all, and, when there is nothing, about   *)
(* the days that follow. Calendars change while it asks, and a call that   *)
(* fails or is denied is taken for an empty day.                           *)
(*                                                                         *)
(* One message. Days are counted from the day it asks about. The tools of  *)
(* the gateway are those of module Booking; here an answer is what they    *)
(* may have read while the call was under way. Names do not clash with     *)
(* those of AgentBatch, whose SchedulingReply this module details.         *)
(***************************************************************************)
EXTENDS Integers, FiniteSets

CONSTANTS
  Master, NoMaster,
  Time,                \* times of a day
  Plan,                \* what a day can look like when the message comes
  Wish,                \* messages, with what is known of the client
  NoDay,               \* a text that names no weekday, or no date
  DefaultStaff,        \* DEFAULT_STAFF_ID, a set that is empty where it is not set
  MAX_ALTERNATIVE_DAYS,
  MAX_ALTERNATIVE_SLOTS,
  MaxEdits,            \* bound on edits of the calendar
  CallFaults               \* subset of {"callFails"}

\* A master's day at the CRM: the times of the working hours, and those taken.
MasterDay == [works : SUBSET Time, booked : SUBSET Time]

\* What resolveRelativeDate and extractDateFromMessage tell apart in a text: the
\* phrases it contains, a weekday, a word for "next", a date (in days from
\* today), and whether it asks for lashes without saying which service. Then
\* today's weekday (0 is Sunday), explicitStaffId (the master the text names),
\* preferredStaffId (the master of the client's next appointment), and whether
\* there is a service to ask with.
Wishes ==
  [phrases : SUBSET {"tomorrow", "day after"}, weekday : 0..6 \cup {NoDay},
   next : BOOLEAN, date : Int \cup {NoDay}, generic : BOOLEAN, today : 0..6,
   explicit : Master \cup {NoMaster}, preferred : Master \cup {NoMaster},
   service : BOOLEAN]

ASSUME SchedulingAssumption ==
  /\ NoMaster \notin Master /\ NoDay \notin Int
  /\ IsFiniteSet(Master) /\ IsFiniteSet(Time)
  /\ Plan \subseteq [Master -> MasterDay] /\ Plan # {}
  /\ \A w \in Wish : w \in Wishes
  /\ DefaultStaff \subseteq Master
  /\ MAX_ALTERNATIVE_DAYS \in Nat \ {0}
  /\ MAX_ALTERNATIVE_SLOTS \in Nat \ {0}
  /\ MaxEdits \in Nat
  /\ CallFaults \subseteq {"callFails"}

VARIABLES
  wish,
  calendar,   \* calendar[i]: the i-th day after the requested one
  edits,
  stage,      \* the call that is awaited
  asked,      \* requestedDate, in days from today
  ahead,      \* the day the awaited call is about; i of the loop
  during,     \* what that day has been since the call was made
  found,      \* times of the days that follow, with their day and master
  reply,
  was,        \* history: was[i], what day i has been since the message came
  missed      \* history: days whose answer was not about all masters

wishVars == <<wish, calendar, edits, stage, asked, ahead, during, found, reply, was, missed>>

-----------------------------------------------------------------------------
Ahead == 0..MAX_ALTERNATIVE_DAYS
Slot == [day : Ahead, master : Master, time : Time]

\* The reply's code, the master whose slots were asked for, the slots it has.
NoReply == [code |-> "none", staff |-> NoMaster, slots |-> {}]
Codes == {"none", "not_applied", "clarify", "slots", "closed", "full"}

WishTypeOK ==
  /\ wish \in Wish
  /\ calendar \in [Ahead -> [Master -> MasterDay]] /\ edits \in 0..MaxEdits
  /\ stage \in {"text", "staff", "day", "search", "done"}
  /\ asked \in Int \cup {NoDay}
  /\ ahead \in Ahead /\ (stage = "search" <=> ahead # 0 /\ stage # "done")
  /\ calendar[ahead] \in during /\ during \subseteq was[ahead]
  /\ found \subseteq Slot /\ missed \subseteq Ahead
  /\ was \in [Ahead -> SUBSET [Master -> MasterDay]]
  /\ reply \in [code : Codes, staff : Master \cup {NoMaster}, slots : SUBSET Slot]

WishInit ==
  /\ wish \in Wish
  /\ calendar \in [Ahead -> Plan] /\ edits = 0
  /\ stage = "text" /\ asked = NoDay /\ ahead = 0 /\ during = {calendar[0]}
  /\ found = {} /\ reply = NoReply
  /\ was = [i \in Ahead |-> {calendar[i]}] /\ missed = {}

-----------------------------------------------------------------------------
(* Dates *)

\* Mutant: the days until a weekday are not taken modulo the week.
daysAheadUnwrapped(w) ==
  LET days == w.weekday - w.today IN IF days = 0 /\ w.next THEN 7 ELSE days

\* The next such weekday, today included unless the text says "next".
daysAhead(w) ==
  LET days == (w.weekday - w.today + 7) % 7 IN IF days = 0 /\ w.next THEN 7 ELSE days

\* The table is searched in its order: in all three languages the phrase for
\* the day after tomorrow contains the one for tomorrow, which comes first.
resolveRelativeDate(w) ==
  CASE "tomorrow" \in w.phrases -> 1
    [] w.phrases = {"day after"} -> 2
    [] w.phrases = {} /\ w.weekday # NoDay -> daysAhead(w)
    [] OTHER -> NoDay

\* A relative expression comes before a date; a date without a year is one of
\* this year, also when it is over.
getRequestedDateFromMessage(w) ==
  LET relative == resolveRelativeDate(w) IN IF relative # NoDay THEN relative ELSE w.date

-----------------------------------------------------------------------------
(* Calls of the gateway *)

\* The masters an answer can be about: those asked for; where listing them
\* fails, the master of the configuration (fallback); nobody where the call
\* fails, is denied, or is itself answered for a failure.
About(masters, fallback) ==
  {masters} \cup IF "callFails" \in CallFaults THEN {{}, fallback} ELSE {}

\* The free times of masters, and their working hours, when the appointments
\* were read at one moment of the call and each schedule at a moment of its own.
Answers(masters) ==
  {[slots |-> {s \in Slot : /\ s.day = ahead /\ s.master \in masters
                            /\ s.time \in hours[s.master][s.master].works
                            /\ s.time \notin records[s.master].booked},
    open |-> \E m \in masters : hours[m][m].works # {}] :
   hours \in [masters -> during], records \in during}

\* The call about day i is made.
Await(call, i) ==
  /\ stage' = call /\ ahead' = i
  /\ during' = {calendar[i]}

Finish(code, staff, slots) ==
  /\ stage' = "done"
  /\ reply' = [code |-> code, staff |-> staff, slots |-> slots]
  /\ UNCHANGED <<ahead, during>>

\* explicitStaffId ?? preferredStaffId
staffIdForSpecific == IF wish.explicit # NoMaster THEN wish.explicit ELSE wish.preferred

\* The master named by the text of the reply: with slots of one master it names
\* preferredStaffName, which is known when preferredStaffId is; else nobody.
masterName ==
  IF reply.code = "slots" /\ reply.staff # NoMaster THEN wish.preferred ELSE NoMaster

-----------------------------------------------------------------------------
(* tryDeterministicSchedulingReply *)

Understand ==
  /\ stage = "text"
  /\ LET day == getRequestedDateFromMessage(wish)
     IN /\ asked' = day
        /\ IF day = NoDay THEN Finish("not_applied", NoMaster, {})
           ELSE IF wish.generic THEN Finish("clarify", NoMaster, {})
           ELSE /\ Await(IF staffIdForSpecific # NoMaster /\ wish.service
                           THEN "staff" ELSE "day", 0)
                /\ UNCHANGED reply
  /\ UNCHANGED <<wish, calendar, edits, found, was, missed>>

\* crm.get_free_slots of one master; without a slot, or without an answer,
\* everybody is asked about.
AskMaster(m) ==
  /\ stage = "staff"
  /\ \E about \in About({m}, {}) : \E answer \in Answers(about) :
       IF answer.slots = {} THEN Await("day", 0) /\ UNCHANGED reply
                            ELSE Finish("slots", staffIdForSpecific, answer.slots)
  /\ UNCHANGED <<wish, calendar, edits, asked, found, was, missed>>

\* Mutant: the master of the last appointment is asked for, the one the text
\* names is spoken of.
AskStaffPreferred ==
  AskMaster(IF wish.preferred # NoMaster THEN wish.preferred ELSE wish.explicit)

AskStaff == AskMaster(staffIdForSpecific)

\* The masters an answer of crm.get_availability_for_date can be about.
AvailabilityForDate == About(Master, DefaultStaff)

\* The answer was about all masters, or the day is among those missed.
Note(about) == missed' = IF about = Master THEN missed ELSE missed \cup {ahead}

AskDay ==
  /\ stage = "day"
  /\ \E about \in AvailabilityForDate : \E answer \in Answers(about) :
       /\ Note(about)
       /\ IF answer.slots # {} /\ answer.open
            THEN Finish("slots", NoMaster, answer.slots)
            ELSE /\ Await("search", 1)
                 /\ reply' = [reply EXCEPT !.code = IF answer.open THEN "full" ELSE "closed"]
  /\ UNCHANGED <<wish, calendar, edits, asked, found, was>>

\* Mutants: the last of the days is not looked at; i stays where it is after
\* a day without slots; it begins again with the requested day.
SearchedShort(slots) ==
  ahead + 1 >= MAX_ALTERNATIVE_DAYS \/ Cardinality(slots) >= MAX_ALTERNATIVE_SLOTS
Stays(slots) == IF slots = found THEN ahead ELSE ahead + 1
Restarts(slots) == 0

\* The days are used up, or there are slots enough. A time is listed once for
\* every master who has it free.
Searched(slots) ==
  ahead = MAX_ALTERNATIVE_DAYS \/ Cardinality(slots) >= MAX_ALTERNATIVE_SLOTS
Following(slots) == ahead + 1

\* One round of the loop over the days that follow.
AskNext ==
  /\ stage = "search"
  /\ \E about \in AvailabilityForDate : \E answer \in Answers(about) :
       LET slots == found \cup answer.slots
       IN /\ Note(about)
          /\ found' = slots
          /\ IF Searched(slots) THEN Finish(reply.code, NoMaster, slots)
             ELSE Await("search", Following(slots)) /\ UNCHANGED reply
  /\ UNCHANGED <<wish, calendar, edits, asked, was>>

\* Somebody books, cancels or changes the hours of a master, on a day that may
\* still be asked about.
EditCalendar ==
  /\ stage # "done"
  /\ edits < MaxEdits /\ edits' = edits + 1
  /\ \E i \in ahead..MAX_ALTERNATIVE_DAYS, m \in Master, day \in MasterDay :
       LET old == calendar[i][m]
           plan == [calendar[i] EXCEPT ![m] = day]
       IN /\ day # old /\ (day.works = old.works \/ day.booked = old.booked)
          /\ calendar' = [calendar EXCEPT ![i] = plan]
          /\ was' = [was EXCEPT ![i] = @ \cup {plan}]
          /\ during' = IF i = ahead THEN during \cup {plan} ELSE during
  /\ UNCHANGED <<wish, stage, asked, ahead, found, reply, missed>>

-----------------------------------------------------------------------------
(* Specification *)

WishStep == Understand \/ AskStaff \/ AskDay \/ AskNext

WishNext == WishStep \/ EditCalendar

WishSpec == WishInit /\ [][WishNext]_wishVars

\* A call of the gateway is answered or fails.
WishFairSpec == WishSpec /\ WF_wishVars(WishStep)

-----------------------------------------------------------------------------
(* Properties *)

\* Whatever the text says of weekdays, the day asked about is that weekday, in
\* the week that begins today, or after today when it says "next"
\* (bookingContext.ts:91-99).
WeekdayIsMeant ==
  stage # "text" /\ wish.phrases = {} /\ wish.weekday # NoDay =>
    /\ (wish.today + asked) % 7 = wish.weekday
    /\ asked \in IF wish.next THEN 1..7 ELSE 0..6

\* Every time the client is offered was in the hours of its master and not taken,
\* each at some moment since the message came, on the requested day or, in a
\* refusal, on a later one. When one master was asked about (the one the text
\* names, else the one of the client's next appointment) they are all that
\* master's, and the reply names no other, unless the text named another than the
\* one known of the client. The two moments may differ
\* (deterministicScheduling.ts:174-206, 217-270).
OffersWereFree ==
  stage = "done" => \A s \in reply.slots :
    /\ \E plan \in was[s.day] : s.time \in plan[s.master].works
    /\ \E plan \in was[s.day] : s.time \notin plan[s.master].booked
    /\ reply.code = "slots" => s.day = 0 /\ reply.staff \in {s.master, NoMaster}
    /\ reply.code \in {"closed", "full"} => s.day # 0
    /\ wish.explicit \in {wish.preferred, NoMaster} => masterName \in {s.master, NoMaster}

\* Was time t of master m not free at some moment since the message came?
WasNotFree(i, m, t) ==
  \E plan \in was[i] : t \notin plan[m].works \/ t \in plan[m].booked

\* The client is sent away truthfully: "closed" when each master was seen without
\* hours, "full" when each time was seen taken or outside the hours, and no
\* alternative is offered only when the same holds of every day that follows,
\* except for days whose call failed (deterministicScheduling.ts:75-77, 217-270).
RefusalsWereTrue ==
  stage = "done" /\ reply.code \in {"closed", "full"} =>
    /\ \/ 0 \in missed
       \/ reply.code = "closed" /\ \A m \in Master : \E plan \in was[0] : plan[m].works = {}
       \/ reply.code = "full" /\ \A m \in Master, t \in Time : WasNotFree(0, m, t)
    /\ reply.slots = {} =>
         \A i \in Ahead \ ({0} \cup missed), m \in Master, t \in Time : WasNotFree(i, m, t)

\* The search ends: every message gets its reply or goes on to the AI.
EveryWishAnswered == <>(stage = "done")
=============================================================================
