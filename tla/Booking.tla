--------------------------------- MODULE Booking ---------------------------------
(***************************************************************************)
(* The gateway's booking tools against a CRM that others write to as well: *)
(* crm.get_free_slots, crm.validate_slot, crm.create_appointment,          *)
(* crm.reschedule_appointment, crm.get_availability_for_date,              *)
(* crm.get_master_working_hours and crm.get_service_duration. A handler    *)
(* reads what it needs in calls that the CRM answers in any order,         *)
(* decides, and (to create) posts. Masters and administrators edit the CRM *)
(* in between. What the CRM refuses is its own affair: it may refuse a     *)
(* record for a conflict or accept it, whatever stands in its calendar.    *)
(***************************************************************************)
EXTENDS Slots, FiniteSets

CONSTANTS
  Request,      \* requests of the tools
  Staff, Service,
  Schedules,    \* sets of rows a master's schedule can be
  Durations,    \* lengths a service can have
  Starts,       \* instants asked for
  SeanceLengths,\* params.seance_length of create_appointment
  DefaultStaff, \* DEFAULT_STAFF_ID, a set that is empty where it is not set
  DefaultService, \* DEFAULT_SERVICE_ID, in the same way
  MaxEdits,     \* bound on edits of the CRM by others
  Faults        \* which of FaultKinds can happen

\* A call fails and changes nothing; a call works and its answer is lost.
FaultKinds == {"crmError", "answerLost"}

ASSUME BookingAssumption ==
  /\ IsFiniteSet(Request)
  /\ Durations \subseteq Nat \ {0} /\ SeanceLengths \subseteq Nat \ {0}
  /\ \A rows \in Schedules : \A row \in rows : \A s \in row.slots :
       s.from \in Int /\ s.to \in Int
  /\ Starts \subseteq Int
  /\ DefaultStaff \subseteq Staff /\ DefaultService \subseteq Service
  /\ MaxEdits \in Nat
  /\ Faults \subseteq FaultKinds

VARIABLES
  schedule,   \* the CRM: schedule[m], the rows of master m
  records,    \* the CRM: appointments of the day
  services,   \* the CRM: services[s], a duration or NoDuration
  edits,      \* edits of the CRM so far
  pc,         \* pc[q]: where the handler of q is
  ask,        \* ask[q]: the parameters of q
  unread,     \* unread[q]: calls of q's Promise.all that are not answered
  seen,       \* seen[q]: what q has read of the CRM
  scan,       \* scan[q]: the loop of get_availability_for_date
  answer,     \* answer[q]: the code and the starts that q was answered
  stood       \* history: stood[q], records that stood, as they are, since q called

\* The CRM, and what is remembered of it.
crm == <<schedule, records, services, stood>>
vars == <<crm, edits, pc, ask, unread, seen, scan, answer>>

-----------------------------------------------------------------------------
Unasked == [tool |-> "none"]
Unanswered == [code |-> "none", starts |-> {}]

\* Who made a record: a request, or somebody at the CRM's own screens.
Others == "others"

Record == [by : Request \cup {Others}, staff : Staff, start : Starts,
           len : Durations \cup SeanceLengths]

Params ==
  [tool : {"free"}, staff : Staff, service : Service]
    \cup [tool : {"validate"}, staff : Staff, service : Service, start : Starts]
    \cup [tool : {"create"}, staff : Staff, service : Service, start : Starts,
          seance_length : SeanceLengths]
    \cup [tool : {"reschedule"}, start : Starts]
    \cup [tool : {"available"}]
    \cup [tool : {"hours"}, staff : Staff]
    \cup [tool : {"duration"}, service : Service]

Parts == {"schedule", "records", "services"}

\* The calls of a tool's Promise.all.
PartsOf(tool) ==
  CASE tool = "available" -> {"records", "services"}
    [] tool = "hours" -> {"schedule"}
    [] tool = "duration" -> {"services"}
    [] OTHER -> Parts

\* Masters left in the loop, the service it looks for, the starts found.
Idle == [masters |-> {}, service |-> "none", starts |-> {}]

NothingSeen ==
  [schedule |-> [m \in Staff |-> {}], records |-> {}, services |-> [s \in Service |-> NoDuration]]

Codes == {"none", "free", "ok", "outside", "occupied", "created", "rescheduled",
          "conflict", "error", "available", "hours", "duration"}

TypeOK ==
  /\ schedule \in [Staff -> Schedules]
  /\ \A r \in records : r \in Record
  /\ services \in [Service -> Durations \cup {NoDuration}]
  /\ edits \in 0..MaxEdits
  /\ pc \in [Request -> {"new", "list", "read", "post", "move", "done"}]
  /\ unread \in [Request -> SUBSET Parts]
  /\ stood \in [Request -> SUBSET Record]
  /\ \A q \in Request :
       /\ ask[q] \in Params \cup {Unasked}
       /\ seen[q].schedule \in [Staff -> Schedules \cup {{}}]
       /\ \A r \in seen[q].records : r \in Record
       /\ seen[q].services \in [Service -> Durations \cup {NoDuration}]
       /\ scan[q].masters \subseteq Staff /\ scan[q].starts \subseteq Int
       /\ scan[q].service \in Service \/ scan[q] = Idle
       /\ answer[q].code \in Codes
       /\ answer[q].starts \subseteq Int

Init ==
  /\ schedule \in [Staff -> Schedules]
  /\ records = {}
  /\ services \in [Service -> Durations]
  /\ edits = 0
  /\ pc = [q \in Request |-> "new"]
  /\ ask = [q \in Request |-> Unasked]
  /\ unread = [q \in Request |-> {}]
  /\ seen = [q \in Request |-> NothingSeen]
  /\ scan = [q \in Request |-> Idle]
  /\ answer = [q \in Request |-> Unanswered]
  /\ stood = [q \in Request |-> {}]

-----------------------------------------------------------------------------
(* Handlers *)

Goto(q, next) == pc' = [pc EXCEPT ![q] = next]

Finish(q, code, starts) ==
  /\ Goto(q, "done")
  /\ answer' = [answer EXCEPT ![q] = [code |-> code, starts |-> starts]]

\* What is deleted or moved has not stood; what q was answered with keeps what
\* stood beside it.
Forget == stood' = [q \in Request |-> IF pc[q] = "done" THEN stood[q]
                                                       ELSE stood[q] \cap records']

Call(q) ==
  /\ pc[q] = "new"
  /\ \E params \in Params :
       /\ ask' = [ask EXCEPT ![q] = params]
       /\ unread' = [unread EXCEPT ![q] = PartsOf(params.tool)]
       /\ Goto(q, CASE params.tool = "reschedule" -> "move"
                    [] params.tool = "available" -> "list"
                    [] OTHER -> "read")
       /\ stood' = [stood EXCEPT ![q] = IF params.tool = "create" THEN records ELSE {}]
  /\ UNCHANGED <<schedule, records, services, edits, seen, scan, answer>>

\* One of the calls of Promise.all is answered.
Sees(q, part, value) ==
  /\ pc[q] = "read"
  /\ part \in unread[q]
  /\ unread' = [unread EXCEPT ![q] = @ \ {part}]
  /\ seen' = [seen EXCEPT ![q][part] = value]
  /\ UNCHANGED <<crm, edits, pc, ask, scan, answer>>

Read(q) ==
  \/ Sees(q, "schedule", [seen[q].schedule EXCEPT ![ask[q].staff] = schedule[ask[q].staff]])
  \/ Sees(q, "records", records)
  \/ Sees(q, "services", services)

ReadFails(q) ==
  /\ "crmError" \in Faults
  /\ pc[q] = "read" /\ unread[q] # {}
  /\ ask[q].tool # "available"
  /\ Finish(q, "error", {})
  /\ UNCHANGED <<crm, edits, ask, unread, seen, scan>>

\* Mutant: the list of appointments is asked for and not awaited.
ReadEnough(q) == pc[q] = "read" /\ unread[q] \subseteq {"records"}

AllRead(q) == pc[q] = "read" /\ unread[q] = {}

workingSlots(q) == parseScheduleToWorkingSlots(seen[q].schedule[ask[q].staff])
appointments(q) == parseAppointmentIntervalsForStaff(seen[q].records, ask[q].staff)
listed(q) == getServiceDuration(seen[q].services, ask[q].service)

\* serviceDuration ?? 3600
OrHour(duration) == IF duration = NoDuration THEN Hour ELSE duration
durationSec(q) == OrHour(listed(q))

FreeSlots(q) ==
  /\ AllRead(q)
  /\ ask[q].tool = "free"
  /\ Finish(q, "free", computeFreeSlotStarts(workingSlots(q), appointments(q),
                                             durationSec(q)))
  /\ UNCHANGED <<crm, edits, ask, unread, seen, scan>>

ValidateSlot(q) ==
  /\ AllRead(q)
  /\ ask[q].tool = "validate"
  /\ Finish(q, validateSlot(ask[q].start, durationSec(q), workingSlots(q),
                            appointments(q)), {})
  /\ UNCHANGED <<crm, edits, ask, unread, seen, scan>>

WorkingHours(q) ==
  /\ AllRead(q)
  /\ ask[q].tool = "hours"
  /\ Finish(q, "hours", {s.start : s \in workingSlots(q)})
  /\ UNCHANGED <<crm, edits, ask, unread, seen, scan>>

\* A service that is not listed is an error.
ServiceDuration(q) ==
  /\ AllRead(q)
  /\ ask[q].tool = "duration"
  /\ Finish(q, IF listed(q) = NoDuration THEN "error" ELSE "duration", {})
  /\ UNCHANGED <<crm, edits, ask, unread, seen, scan>>

-----------------------------------------------------------------------------
(* get_availability_for_date: any master, and the first service there is *)

\* Nobody or nothing to look for is answered like a day without a free time.
LookFor(q, masters, candidates) ==
  \/ /\ masters = {} \/ candidates = {}
     /\ Finish(q, "available", {})
     /\ UNCHANGED scan
  \/ /\ masters # {}
     /\ \E s \in candidates :
          scan' = [scan EXCEPT ![q] = [masters |-> masters, service |-> s, starts |-> {}]]
     /\ Goto(q, "read")
     /\ UNCHANGED answer

\* The masters and the services are listed; the order of the list is the CRM's.
List(q) ==
  /\ pc[q] = "list"
  /\ LET offered == {s \in Service : services[s] # NoDuration}
     IN LookFor(q, Staff, IF offered = {} THEN DefaultService ELSE offered)
  /\ UNCHANGED <<crm, edits, ask, unread, seen>>

\* An error is caught: what the configuration names is looked for.
ListFails(q) ==
  /\ "crmError" \in Faults
  /\ pc[q] = "list"
  /\ LookFor(q, DefaultStaff, DefaultService)
  /\ UNCHANGED <<crm, edits, ask, unread, seen>>

\* Mutant: the appointments of the first master of the list are used for each.
StartsOfFirst(q, m, rows) ==
  computeFreeSlotStarts(parseScheduleToWorkingSlots(rows),
                        parseAppointmentIntervalsForStaff(seen[q].records,
                                                          CHOOSE d \in Staff : TRUE),
                        OrHour(getServiceDuration(seen[q].services, scan[q].service)))

\* The starts at which master m, with this schedule, is free for the service.
StartsOf(q, m, rows) ==
  computeFreeSlotStarts(parseScheduleToWorkingSlots(rows),
                        parseAppointmentIntervalsForStaff(seen[q].records, m),
                        OrHour(getServiceDuration(seen[q].services, scan[q].service)))

\* One round of the loop over masters; the records were read before it began.
Scan(q) ==
  /\ AllRead(q)
  /\ \E m \in scan[q].masters :
       /\ seen' = [seen EXCEPT ![q].schedule[m] = schedule[m]]
       /\ scan' = [scan EXCEPT ![q].masters = @ \ {m},
                               ![q].starts = @ \cup StartsOf(q, m, schedule[m])]
  /\ UNCHANGED <<crm, edits, pc, ask, unread, answer>>

Available(q) ==
  /\ AllRead(q)
  /\ ask[q].tool = "available"
  /\ scan[q].masters = {}
  /\ Finish(q, "available", scan[q].starts)
  /\ UNCHANGED <<crm, edits, ask, unread, seen, scan>>

\* A failing call is answered like a day without a free time.
AvailableFails(q) ==
  /\ "crmError" \in Faults
  /\ pc[q] = "read"
  /\ unread[q] # {} \/ scan[q].masters # {}
  /\ ask[q].tool = "available"
  /\ Finish(q, "available", {})
  /\ UNCHANGED <<crm, edits, ask, unread, seen, scan>>

-----------------------------------------------------------------------------
(* create_appointment and reschedule_appointment *)

\* Mutant: one hour is assumed for every appointment.
DurationOfHour(q) == Hour

\* serviceDuration ?? params.seance_length
durationToUse(q) == IF listed(q) = NoDuration THEN ask[q].seance_length ELSE listed(q)

\* The first half of create_appointment: refuse, or go on to post.
Decide(q) ==
  /\ AllRead(q)
  /\ ask[q].tool = "create"
  /\ LET verdict == validateSlot(ask[q].start, durationToUse(q), workingSlots(q),
                                 appointments(q))
     IN IF verdict = "ok" THEN Goto(q, "post") /\ UNCHANGED answer
                          ELSE Finish(q, verdict, {})
  /\ UNCHANGED <<crm, edits, ask, unread, seen, scan>>

\* Mutant: start and length change places.
PostedSwapped(q) == [by |-> q, staff |-> ask[q].staff, len |-> ask[q].start,
                     start |-> ask[q].seance_length]

Posted(q) == [by |-> q, staff |-> ask[q].staff, start |-> ask[q].start,
              len |-> ask[q].seance_length]

\* Mutant: every error of the POST is taken for a conflict.
CreateAsConflict(q) ==
  /\ pc[q] = "post"
  /\ records' = records \cup {Posted(q)}
  /\ \E code \in {"created"} \cup {c \in {"conflict"} : "answerLost" \in Faults} :
       Finish(q, code, {})
  /\ UNCHANGED <<schedule, services, stood, edits, ask, unread, seen, scan>>

\* The CRM makes the record; the answer arrives or is lost.
Create(q) ==
  /\ pc[q] = "post"
  /\ records' = records \cup {Posted(q)}
  /\ \E code \in {"created"} \cup {c \in {"error"} : "answerLost" \in Faults} :
       Finish(q, code, {})
  /\ UNCHANGED <<schedule, services, stood, edits, ask, unread, seen, scan>>

\* save_if_busy is false, and the CRM refuses: 409 becomes an error that names
\* the conflict.
CreateConflict(q) ==
  /\ pc[q] = "post"
  /\ Finish(q, "conflict", {})
  /\ UNCHANGED <<crm, edits, ask, unread, seen, scan>>

PostFails(q) ==
  /\ "crmError" \in Faults
  /\ pc[q] \in {"post", "move"}
  /\ Finish(q, "error", {})
  /\ UNCHANGED <<crm, edits, ask, unread, seen, scan>>

\* reschedule_appointment asks for no schedule and validates nothing: the
\* appointment named is moved, over whatever stands there.
Reschedule(q) ==
  /\ pc[q] = "move"
  /\ \E r \in records :
       records' = (records \ {r}) \cup {[r EXCEPT !.start = ask[q].start]}
  /\ Forget
  /\ \E code \in {"rescheduled"} \cup {c \in {"error"} : "answerLost" \in Faults} :
       Finish(q, code, {})
  /\ UNCHANGED <<schedule, services, edits, ask, unread, seen, scan>>

\* The CRM knows no such appointment, or will not move it.
RescheduleRefused(q) ==
  /\ pc[q] = "move"
  /\ Finish(q, "error", {})
  /\ UNCHANGED <<crm, edits, ask, unread, seen, scan>>

-----------------------------------------------------------------------------
(* Everybody else who writes to the CRM *)

Edit == edits < MaxEdits /\ edits' = edits + 1 /\ UNCHANGED <<pc, ask, unread, seen, scan, answer>>

EditSchedule ==
  /\ Edit
  /\ \E m \in Staff, rows \in Schedules :
       rows # schedule[m] /\ schedule' = [schedule EXCEPT ![m] = rows]
  /\ UNCHANGED <<records, services, stood>>

EditService ==
  /\ Edit
  /\ \E s \in Service, d \in Durations \cup {NoDuration} :
       d # services[s] /\ services' = [services EXCEPT ![s] = d]
  /\ UNCHANGED <<schedule, records, stood>>

EditRecords ==
  /\ Edit
  /\ \/ \E r \in records : records' = records \ {r}
     \/ \E m \in Staff, start \in Starts, len \in Durations :
          records' = records
                       \cup {[by |-> Others, staff |-> m, start |-> start, len |-> len]}
  /\ Forget
  /\ UNCHANGED <<schedule, services>>

\* admin.update_appointment_services, and the CRM's own screens: another time,
\* master or length for a record, none of which is validated.
UpdateAppointment ==
  /\ Edit
  /\ \E r \in records, m \in Staff, start \in Starts, len \in Durations \cup SeanceLengths :
       records' = (records \ {r})
                    \cup {[r EXCEPT !.staff = m, !.start = start, !.len = len]}
  /\ Forget
  /\ UNCHANGED <<schedule, services>>

-----------------------------------------------------------------------------
(* Specification *)

Next ==
  \/ \E q \in Request :
       \/ Call(q) \/ Read(q) \/ ReadFails(q)
       \/ FreeSlots(q) \/ ValidateSlot(q) \/ WorkingHours(q) \/ ServiceDuration(q)
       \/ List(q) \/ ListFails(q) \/ Scan(q) \/ Available(q) \/ AvailableFails(q)
       \/ Decide(q)
       \/ Create(q) \/ CreateConflict(q) \/ PostFails(q)
       \/ Reschedule(q) \/ RescheduleRefused(q)
  \/ EditSchedule \/ EditService \/ EditRecords \/ UpdateAppointment

Spec == Init /\ [][Next]_vars

-----------------------------------------------------------------------------
(* Properties *)

\* A time that get_free_slots offered is not refused by the validation of a
\* create or a validate_slot that sees the CRM in the same state: the two
\* algorithms of slots.ts agree.
OfferHolds ==
  \A f, q \in Request :
    /\ answer[f].code = "free"
    /\ answer[q].code \in {"outside", "occupied"}
    /\ seen[q] = seen[f]
    /\ ask[q].staff = ask[f].staff /\ ask[q].service = ask[f].service
    /\ listed(f) # NoDuration
    => ask[q].start \notin answer[f].starts

\* A time that get_availability_for_date names is one at which some master
\* works and has nothing, as far as the call had read when it looked at that
\* master: the records are older than the schedules, and the masters' times are
\* poured into one list.
SomebodyIsFree ==
  \A q \in Request : answer[q].code = "available" =>
    \A t \in answer[q].starts : \E m \in Staff :
      validateSlot(t, OrHour(getServiceDuration(seen[q].services, scan[q].service)),
                   parseScheduleToWorkingSlots(seen[q].schedule[m]),
                   parseAppointmentIntervalsForStaff(seen[q].records, m)) = "ok"

Apart(r1, r2) == r1.start + r1.len <= r2.start \/ r2.start + r2.len <= r1.start

\* A booking never lands on one that was there before the client asked: what
\* create_appointment posts overlaps no record of that master which has stood,
\* as it is, since the request came in, however its reads and the steps of others
\* interleave, where no seance is longer than its service. So two clients can get
\* one time only if both requests were on their way at once or a record was moved;
\* createAppointment.ts:83 leaves that to the CRM.
CreatedBeside ==
  \A q \in Request : pc[q] = "post" \/ answer[q].code = "created" =>
    \A r \in stood[q] : r.staff = ask[q].staff => Apart(Posted(q), r)

\* A request that was told of a refusal has made no record, and only a
\* create has.
RefusedMadeNothing ==
  \A r \in records : r.by # Others =>
    \/ answer[r.by] = Unanswered
    \/ ask[r.by].tool = "create" /\ answer[r.by].code \in {"created", "error"}

\* docs/booking_logic.md:23-26: before it creates an appointment the gateway checks
\* that it ends inside the shift it was given and overlaps none it was given.
CreatedFits ==
  \A q \in Request : answer[q].code = "created" =>
    LET end == ask[q].start + ask[q].seance_length
    IN /\ \E s \in workingSlots(q) : s.start <= ask[q].start /\ end <= s.end
       /\ \A a \in appointments(q) : end <= a.start \/ a.end <= ask[q].start
=============================================================================
