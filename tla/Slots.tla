---------------------------------- MODULE Slots ----------------------------------
(***************************************************************************)
(* The booking arithmetic of slots.ts. Instants and local times are whole  *)
(* ticks; an instant is a local time less the offset of its zone. A row of *)
(* the CRM's schedule has a day, a flag and slots of local times.          *)
(***************************************************************************)
EXTENDS Integers

CONSTANTS
  Hour,         \* ticks of an hour
  SlotStep,     \* slotStepSeconds, in ticks
  ViennaOffset  \* hours Europe/Vienna is ahead of UTC on the day asked for

ASSUME SlotsAssumption ==
  /\ Hour \in Nat \ {0} /\ SlotStep \in Nat \ {0}
  /\ ViennaOffset \in {1, 2}

\* What getServiceDurationSeconds returns for a service that is not listed.
NoDuration == 0

-----------------------------------------------------------------------------
\* The offset is written as +01:00, whatever the day.
parseTimeOnDate(time) == time - Hour

\* The instant of a local time by the zone the salon is in.
ViennaTime(time) == time - ViennaOffset * Hour

WorkedSlots(rows) ==
  UNION {row.slots : row \in {r \in rows : r.day = "asked" /\ r.is_working}}

\* Slots that end before they begin are dropped.
parseScheduleToWorkingSlots(rows) ==
  {[start |-> parseTimeOnDate(s.from), end |-> parseTimeOnDate(s.to)] :
     s \in {w \in WorkedSlots(rows) : w.to > w.from}}

parseAppointmentIntervalsForStaff(records, staff) ==
  {[start |-> r.start, end |-> r.start + r.len] :
     r \in {q \in records : q.staff = staff}}

\* null when the service is not in the list; duration, seance_length, 3600.
getServiceDuration(services, service) == services[service]

-----------------------------------------------------------------------------
Overlaps(start, end, appointments) ==
  \E a \in appointments : start < a.end /\ end > a.start

InShift(start, end, workingSlots) ==
  \E s \in workingSlots : start >= s.start /\ end <= s.end

\* Mutant: a start is offered when it begins inside the shift.
FreeStartsInShift(workingSlots, appointments, duration) ==
  UNION {{t \in s.start..s.end :
            /\ (t - s.start) % SlotStep = 0
            /\ ~Overlaps(t, t + duration, appointments)} : s \in workingSlots}

\* The starts on each shift's grid that fit it and overlap nothing.
computeFreeSlotStarts(workingSlots, appointments, duration) ==
  UNION {{t \in s.start..s.end :
            /\ (t - s.start) % SlotStep = 0
            /\ t + duration <= s.end
            /\ ~Overlaps(t, t + duration, appointments)} : s \in workingSlots}

validateSlot(start, duration, workingSlots, appointments) ==
  IF ~InShift(start, start + duration, workingSlots) THEN "outside"
  ELSE IF Overlaps(start, start + duration, appointments) THEN "occupied"
  ELSE "ok"
=============================================================================
