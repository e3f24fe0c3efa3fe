------------------------------ MODULE MCScheduling ------------------------------
(***************************************************************************)
(* Scheduling with two masters and one time a day.                         *)
(***************************************************************************)
EXTENDS Scheduling

CONSTANTS m1, m2

Off == [works |-> {}, booked |-> {}]
Taken == [works |-> Time, booked |-> Time]
Free == [works |-> Time, booked |-> {}]
Day(a, b) == [m \in Master |-> IF m = m1 THEN a ELSE b]

\* Closed, full, free with one master, and with both.
Plans == {Day(Off, Off), Day(Taken, Taken), Day(Off, Free), Day(Free, Free)}

\* Nothing to go by, from a client without a master.
Vague == [phrases |-> {}, weekday |-> NoDay, next |-> FALSE, date |-> NoDay,
          generic |-> FALSE, today |-> 0, explicit |-> NoMaster,
          preferred |-> NoMaster, service |-> TRUE]

OnDate == [Vague EXCEPT !.date = 5]

\* A weekday, on every day of the week, with and without "next", for lashes; all
\* the phrases; a date, with and without masters and a service; nothing.
Wanted ==
  {[Vague EXCEPT !.weekday = 3, !.today = day, !.next = next, !.generic = TRUE] :
     day \in 0..6, next \in BOOLEAN}
  \cup {[Vague EXCEPT !.phrases = {"tomorrow", "day after"}, !.generic = TRUE],
        [Vague EXCEPT !.phrases = {"day after"}, !.generic = TRUE],
        [OnDate EXCEPT !.weekday = 3],
        Vague,
        [OnDate EXCEPT !.explicit = m1, !.preferred = m2],
        [OnDate EXCEPT !.preferred = m2],
        [OnDate EXCEPT !.explicit = m2, !.service = FALSE]}
=============================================================================
