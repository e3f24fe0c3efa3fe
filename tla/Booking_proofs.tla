----------------------------- MODULE Booking_proofs ------------------------------
(***************************************************************************)
(* For every set of requests, masters, schedules and lengths, and whatever *)
(* the CRM accepts: what get_free_slots offers is what validateSlot        *)
(* accepts, somebody is free when get_availability_for_date says so, a     *)
(* refused request has made no record, and, when no seance is longer than  *)
(* its service, a record that was made lies in a shift and beside all that *)
(* stood since before it was asked for.                                    *)
(***************************************************************************)
EXTENDS Booking, TLAPS

USE DEF Goto, Finish

\* The parameters of a request come from Params, the answers' lengths with them.
Asked == /\ ask \in [Request -> Params \cup {Unasked}]
         /\ \A q \in Request : pc[q] = "post" => ask[q].tool = "create"
         /\ \A q \in Request : pc[q] = "move" => ask[q].tool = "reschedule"
         /\ \A q \in Request : pc[q] = "new" <=> ask[q] = Unasked
         /\ pc \in [Request -> {"new", "list", "read", "post", "move", "done"}]

\* What a request of each kind carries.
LEMMA ParamsOf ==
  ASSUME NEW p \in Params \cup {Unasked}
  PROVE  /\ p.tool = "create" => p.start \in Starts /\ p.seance_length \in SeanceLengths
         /\ p.tool = "reschedule" => p.start \in Starts
BY DEF Params, Unasked

THEOREM AskedCorrect == Spec => []Asked
<1>1. Init => Asked
  BY DEF Init, Asked, Params
<1>2. Asked /\ [Next]_vars => Asked'
  <2> SUFFICES ASSUME Asked, [Next]_vars PROVE Asked'
    OBVIOUS
  <2> USE DEF Asked
  <2>1. ASSUME NEW q \in Request, Call(q) PROVE Asked'
    <3>1. PICK params \in Params :
            /\ ask' = [ask EXCEPT ![q] = params]
            /\ pc' = [pc EXCEPT ![q] = CASE params.tool = "reschedule" -> "move"
                                         [] params.tool = "available" -> "list"
                                         [] OTHER -> "read"]
      BY <2>1 DEF Call
    <3>2. params # Unasked
      BY DEF Params, Unasked
    <3>3. pc'[q] # "post" /\ pc'[q] # "new" /\ (pc'[q] = "move" => params.tool = "reschedule")
      BY <3>1
    <3> QED BY <3>1, <3>2, <3>3
  <2>2. ASSUME NEW q \in Request, Read(q) PROVE Asked'
    BY <2>2 DEF Read, Sees
  <2>3. ASSUME NEW q \in Request,
               \/ WorkingHours(q) \/ ServiceDuration(q) \/ Available(q) \/ AvailableFails(q)
               \/ ReadFails(q) \/ FreeSlots(q) \/ ValidateSlot(q) \/ PostFails(q)
               \/ Create(q) \/ CreateConflict(q) \/ Reschedule(q) \/ RescheduleRefused(q)
        PROVE  Asked'
    <3>1. pc' = [pc EXCEPT ![q] = "done"] /\ ask' = ask /\ pc[q] # "new"
      BY <2>3 DEF ReadFails, FreeSlots, ValidateSlot, PostFails, Create, CreateConflict,
                  Reschedule, RescheduleRefused, WorkingHours, ServiceDuration, Available,
                  AvailableFails, AllRead
    <3> QED BY <3>1
  <2>6. ASSUME NEW q \in Request, List(q) \/ ListFails(q) PROVE Asked'
    <3>1. ask' = ask /\ pc[q] = "list"
      BY <2>6 DEF List, ListFails
    <3>2. \/ pc' = [pc EXCEPT ![q] = "done"]
          \/ pc' = [pc EXCEPT ![q] = "read"]
      BY <2>6 DEF List, ListFails, LookFor
    <3> QED BY <3>1, <3>2
  <2>7. ASSUME NEW q \in Request, Scan(q) PROVE Asked'
    BY <2>7 DEF Scan
  <2>4. ASSUME NEW q \in Request, Decide(q) PROVE Asked'
    <3>1. \/ pc' = [pc EXCEPT ![q] = "done"]
          \/ pc' = [pc EXCEPT ![q] = "post"]
      BY <2>4 DEF Decide
    <3>2. ask' = ask /\ ask[q].tool = "create" /\ pc[q] = "read"
      BY <2>4 DEF Decide, AllRead
    <3> QED BY <3>1, <3>2
  <2>5. CASE EditSchedule \/ EditService \/ EditRecords \/ UpdateAppointment
           \/ UNCHANGED vars
    BY <2>5 DEF EditSchedule, EditService, EditRecords, UpdateAppointment, Edit, vars
  <2> QED BY <2>1, <2>2, <2>3, <2>4, <2>5, <2>6, <2>7 DEF Next
<1> QED BY <1>1, <1>2, PTL DEF Spec

-----------------------------------------------------------------------------
\* The loop of computeFreeSlotStarts and the test of validateSlot agree: what
\* the one offers the other accepts, for the same shifts and appointments.
THEOREM OffersValidate ==
  ASSUME NEW shifts, NEW taken, NEW duration,
         NEW t \in computeFreeSlotStarts(shifts, taken, duration)
  PROVE  validateSlot(t, duration, shifts, taken) = "ok"
<1>1. PICK s \in shifts : /\ t \in s.start..s.end
                          /\ t + duration <= s.end
                          /\ ~Overlaps(t, t + duration, taken)
  BY DEF computeFreeSlotStarts
<1>2. InShift(t, t + duration, shifts)
  BY <1>1 DEF InShift
<1> QED BY <1>1, <1>2 DEF validateSlot

\* What a handler answered is what it computed from what it had seen, and it
\* sees nothing more afterwards.
Computed(q) ==
  /\ answer[q].code = "free" =>
       answer[q].starts = computeFreeSlotStarts(workingSlots(q), appointments(q),
                                                durationSec(q))
  /\ answer[q].code \in {"outside", "occupied"} /\ listed(q) # NoDuration =>
       validateSlot(ask[q].start, listed(q), workingSlots(q), appointments(q)) # "ok"

OfferInv ==
  /\ DOMAIN answer = Request
  /\ \A q \in Request : pc[q] = "done" \/ answer[q] = Unanswered
  /\ \A q \in Request : Computed(q)

LEMMA OfferInvCorrect == Spec => []OfferInv
<1> USE BookingAssumption
<1>1. Init => OfferInv
  BY DEF Init, OfferInv, Computed, Unanswered
<1>2. Asked /\ OfferInv /\ [Next]_vars => OfferInv'
  <2> SUFFICES ASSUME Asked, OfferInv, [Next]_vars PROVE OfferInv'
    OBVIOUS
  <2>1. ASSUME NEW q \in Request, answer'[q] = answer[q], ask'[q] = ask[q],
               seen'[q] = seen[q]
        PROVE  Computed(q)'
    BY <2>1 DEF OfferInv, Computed, workingSlots, appointments, listed, durationSec
  <2>2. ASSUME NEW q \in Request, answer'[q].code \notin {"free", "outside", "occupied"}
        PROVE  Computed(q)'
    BY <2>2 DEF Computed
  <2>4. ASSUME NEW q \in Request, answer' = answer,
               \A d \in Request \ {q} : /\ pc'[d] = pc[d] /\ ask'[d] = ask[d]
                                         /\ seen'[d] = seen[d],
               pc[q] # "done" \/ (pc'[q] = pc[q] /\ ask'[q] = ask[q] /\ seen'[q] = seen[q])
        PROVE  OfferInv'
    <3>1. ASSUME NEW d \in Request PROVE Computed(d)'
      <4>1. CASE d = q /\ pc[q] # "done"
        BY <2>2, <2>4, <4>1 DEF OfferInv, Unanswered
      <4>2. CASE d # q \/ pc[q] = "done"
        BY <2>1, <2>4, <4>2
      <4> QED BY <4>1, <4>2
    <3>2. ASSUME NEW d \in Request PROVE pc'[d] = "done" \/ answer'[d] = Unanswered
      BY <2>4 DEF OfferInv
    <3> QED BY <2>4, <3>1, <3>2 DEF OfferInv
  <2>5. ASSUME NEW q \in Request, NEW code, NEW starts,
               pc' = [pc EXCEPT ![q] = "done"], ask' = ask, seen' = seen,
               answer' = [answer EXCEPT ![q] = [code |-> code, starts |-> starts]],
               Computed(q)'
        PROVE  OfferInv'
    <3>1. ASSUME NEW d \in Request PROVE Computed(d)'
      BY <2>1, <2>5 DEF OfferInv
    <3>2. ASSUME NEW d \in Request PROVE pc'[d] = "done" \/ answer'[d] = Unanswered
      BY <2>5 DEF OfferInv, Asked
    <3>3. DOMAIN answer' = Request
      BY <2>5 DEF OfferInv
    <3> QED BY <3>1, <3>2, <3>3 DEF OfferInv
  <2>6. ASSUME NEW q \in Request, Call(q) PROVE OfferInv'
    BY <2>4, <2>6 DEF Call, Asked
  <2>7. ASSUME NEW q \in Request, Read(q) PROVE OfferInv'
    <3>1. PICK part \in Parts : \E value : seen' = [seen EXCEPT ![q][part] = value]
      BY <2>7 DEF Read, Sees, Parts
    <3>2. pc[q] = "read" /\ pc' = pc /\ ask' = ask /\ answer' = answer
      BY <2>7 DEF Read, Sees
    <3>3. \A d \in Request \ {q} : seen'[d] = seen[d]
      BY <3>1
    <3> QED BY <2>4, <3>2, <3>3
  <2>8. ASSUME NEW q \in Request, NEW code \in Codes \ {"free", "outside", "occupied"},
               NEW starts,
               pc' = [pc EXCEPT ![q] = "done"], ask' = ask, seen' = seen,
               answer' = [answer EXCEPT ![q] = [code |-> code, starts |-> starts]]
        PROVE  OfferInv'
    <3>1. answer'[q].code = code
      BY <2>8 DEF OfferInv
    <3>2. Computed(q)'
      BY <2>2, <2>8, <3>1
    <3> QED BY <2>5, <2>8, <3>2
  <2>9. ASSUME NEW q \in Request,
               \/ ReadFails(q) \/ PostFails(q) \/ RescheduleRefused(q)
               \/ CreateConflict(q) \/ Create(q) \/ Reschedule(q)
               \/ WorkingHours(q) \/ ServiceDuration(q)
               \/ Available(q) \/ AvailableFails(q)
        PROVE  OfferInv'
    <3>1. PICK code \in {"error", "conflict", "created", "rescheduled", "available",
                         "hours", "duration"}, starts \in {answer'[q].starts} :
            Finish(q, code, starts)
      <4> DEFINE starts == answer'[q].starts
      <4>1. \E code \in {"error", "conflict", "created", "rescheduled", "available",
                          "hours", "duration"} : \E any : Finish(q, code, any)
        <5>1. CASE ReadFails(q) \/ PostFails(q) \/ RescheduleRefused(q)
                   \/ CreateConflict(q) \/ Create(q) \/ Reschedule(q)
          BY <5>1 DEF ReadFails, PostFails, RescheduleRefused, CreateConflict, Create,
                      Reschedule
        <5>2. CASE WorkingHours(q) \/ ServiceDuration(q)
          BY <5>2 DEF WorkingHours, ServiceDuration
        <5>3. CASE Available(q) \/ AvailableFails(q)
          BY <5>3 DEF Available, AvailableFails
        <5> QED BY <2>9, <5>1, <5>2, <5>3
      <4>2. ASSUME NEW code, NEW any, Finish(q, code, any) PROVE starts = any
        BY <4>2 DEF OfferInv
      <4> QED BY <4>1, <4>2
    <3>2. ask' = ask /\ seen' = seen
      BY <2>9 DEF ReadFails, PostFails, RescheduleRefused, CreateConflict, Create, Reschedule,
                  WorkingHours, ServiceDuration, Available, AvailableFails
    <3>3. code \in Codes \ {"free", "outside", "occupied"}
      BY DEF Codes
    <3> QED BY <2>8, <3>1, <3>2, <3>3
  <2>13. ASSUME NEW q \in Request, List(q) \/ ListFails(q) PROVE OfferInv'
    <3>1. pc[q] = "list" /\ ask' = ask /\ seen' = seen
      BY <2>13 DEF List, ListFails
    <3>2. CASE Finish(q, "available", {})
      <4>1. "available" \in Codes \ {"free", "outside", "occupied"}
        BY DEF Codes
      <4> QED BY <2>8, <3>1, <3>2, <4>1
    <3>3. CASE pc' = [pc EXCEPT ![q] = "read"] /\ answer' = answer
      BY <2>4, <3>1, <3>3 DEF Asked
    <3> QED BY <2>13, <3>2, <3>3 DEF List, ListFails, LookFor
  <2>14. ASSUME NEW q \in Request, Scan(q) PROVE OfferInv'
    <3>1. pc[q] = "read" /\ pc' = pc /\ ask' = ask /\ answer' = answer
      BY <2>14 DEF Scan, AllRead
    <3>2. \A d \in Request \ {q} : seen'[d] = seen[d]
      BY <2>14 DEF Scan
    <3> QED BY <2>4, <3>1, <3>2
  <2>10. ASSUME NEW q \in Request, FreeSlots(q) PROVE OfferInv'
    <3> DEFINE starts == computeFreeSlotStarts(workingSlots(q), appointments(q),
                                               durationSec(q))
    <3>1. ask' = ask /\ seen' = seen /\ pc' = [pc EXCEPT ![q] = "done"]
          /\ answer' = [answer EXCEPT ![q] = [code |-> "free", starts |-> starts]]
      BY <2>10 DEF FreeSlots
    <3>2. answer'[q] = [code |-> "free", starts |-> starts]
      BY <3>1 DEF OfferInv
    <3>3. starts' = starts
      BY <3>1 DEF workingSlots, appointments, durationSec, listed
    <3> HIDE DEF starts
    <3>4. answer'[q].code = "free" /\ answer'[q].starts = starts'
      BY <3>2, <3>3
    <3>5. Computed(q)'
      BY <3>4 DEF Computed, starts
    <3> QED BY <2>5, <3>1, <3>5
  <2>11. ASSUME NEW q \in Request, ValidateSlot(q) \/ Decide(q) PROVE OfferInv'
    <3> DEFINE duration == IF ValidateSlot(q) THEN durationSec(q) ELSE durationToUse(q)
               verdict == validateSlot(ask[q].start, duration, workingSlots(q),
                                       appointments(q))
    <3>1. ask' = ask /\ seen' = seen /\ pc[q] = "read"
      BY <2>11 DEF ValidateSlot, Decide, AllRead
    <3>2. CASE Decide(q) /\ pc' = [pc EXCEPT ![q] = "post"] /\ answer' = answer
      BY <2>4, <3>1, <3>2 DEF Asked
    <3>3. CASE Finish(q, verdict, {})
      <4>1. answer'[q].code = verdict
        BY <3>3 DEF OfferInv
      <4>2. listed(q) # NoDuration => duration = listed(q)
        BY DEF durationSec, OrHour, durationToUse
      <4>3. listed(q)' = listed(q) /\ workingSlots(q)' = workingSlots(q)
            /\ appointments(q)' = appointments(q) /\ ask'[q].start = ask[q].start
        BY <3>1 DEF listed, workingSlots, appointments
      <4>4. verdict \in {"ok", "outside", "occupied"}
        BY DEF validateSlot
      <4>5. verdict # "ok" /\ listed(q) # NoDuration =>
              validateSlot(ask[q].start, listed(q), workingSlots(q), appointments(q)) # "ok"
        BY <4>2
      <4> HIDE DEF verdict
      <4>6. Computed(q)'
        BY <4>1, <4>3, <4>4, <4>5 DEF Computed
      <4> QED BY <2>5, <3>1, <3>3, <4>6
    <3>4. Finish(q, verdict, {})
            \/ (Decide(q) /\ pc' = [pc EXCEPT ![q] = "post"] /\ answer' = answer)
      <4>1. CASE ValidateSlot(q)
        BY <4>1 DEF ValidateSlot
      <4>2. CASE ~ValidateSlot(q) /\ Decide(q)
        BY <4>2 DEF Decide
      <4> QED BY <2>11, <4>1, <4>2
    <3> QED BY <3>2, <3>3, <3>4
  <2>12. CASE EditSchedule \/ EditService \/ EditRecords \/ UpdateAppointment
           \/ UNCHANGED vars
    <3>1. pc' = pc /\ ask' = ask /\ seen' = seen /\ answer' = answer
      BY <2>12 DEF EditSchedule, EditService, EditRecords, UpdateAppointment, Edit, vars
    <3>2. \A q \in Request : Computed(q)'
      BY <2>1, <3>1
    <3> QED BY <3>1, <3>2 DEF OfferInv
  <2> QED BY <2>6, <2>7, <2>9, <2>10, <2>11, <2>12, <2>13, <2>14 DEF Next
<1> QED BY <1>1, <1>2, AskedCorrect, PTL DEF Spec

\* A time offered by get_free_slots is not refused by the validation of a
\* later create or validate_slot that sees the same CRM.
THEOREM OffersHold == Spec => []OfferHolds
<1>1. OfferInv => OfferHolds
  <2> SUFFICES ASSUME OfferInv, NEW f \in Request, NEW q \in Request,
                      answer[f].code = "free", answer[q].code \in {"outside", "occupied"},
                      seen[q] = seen[f], ask[q].staff = ask[f].staff,
                      ask[q].service = ask[f].service, listed(f) # NoDuration,
                      ask[q].start \in answer[f].starts
               PROVE  FALSE
    BY DEF OfferHolds
  <2> QED BY OffersValidate DEF OfferInv, Computed, workingSlots, appointments, listed,
                               durationSec, OrHour
<1> QED BY <1>1, OfferInvCorrect, PTL

-----------------------------------------------------------------------------
\* Master m, as q has read of the CRM, works at t and has nothing.
FreeFor(q, m, t) ==
  validateSlot(t, OrHour(getServiceDuration(seen[q].services, scan[q].service)),
               parseScheduleToWorkingSlots(seen[q].schedule[m]),
               parseAppointmentIntervalsForStaff(seen[q].records, m)) = "ok"

\* A start in the loop's list belongs to a master it is through with, and the
\* loop begins when everything else is read.
Scanned(q) ==
  /\ unread[q] # {} \/ pc[q] \in {"new", "list"} => scan[q].starts = {}
  /\ \A t \in scan[q].starts : \E m \in Staff \ scan[q].masters : FreeFor(q, m, t)
  /\ answer[q].code = "available" => pc[q] = "done" /\ answer[q].starts \subseteq scan[q].starts

\* The records that the handlers fill keep their fields.
Shaped ==
  /\ DOMAIN scan = Request /\ DOMAIN seen = Request
  /\ DOMAIN answer = Request /\ DOMAIN unread = Request
  /\ \A q \in Request :
       /\ DOMAIN seen[q] = Parts
       /\ DOMAIN seen[q].schedule = Staff
       /\ DOMAIN scan[q] = {"masters", "service", "starts"}
       /\ scan[q].masters \subseteq Staff

ScanInv == Shaped /\ \A q \in Request : Scanned(q)

\* What the loop has found stays free as the handler has seen the CRM.
LEMMA ScanInvCorrect == Spec => []ScanInv
<1>1. Init => ScanInv
  BY DEF Init, ScanInv, Shaped, Scanned, NothingSeen, Parts, Idle, Unanswered
<1>2. Asked /\ ScanInv /\ [Next]_vars => ScanInv'
  <2> SUFFICES ASSUME Asked, ScanInv, [Next]_vars PROVE ScanInv'
    OBVIOUS
  <2>1. ASSUME NEW q \in Request, scan'[q] = scan[q], seen'[q] = seen[q],
               answer'[q] = answer[q], unread'[q] = unread[q], pc'[q] = pc[q]
        PROVE  Scanned(q)'
    <3>1. Scanned(q)
      BY DEF ScanInv
    <3>2. ASSUME NEW m, NEW t PROVE FreeFor(q, m, t)' <=> FreeFor(q, m, t)
      BY <2>1 DEF FreeFor
    <3> QED BY <2>1, <3>1, <3>2 DEF Scanned
  <2>2. ASSUME NEW q \in Request, Shaped',
               \A d \in Request \ {q} :
                 /\ scan'[d] = scan[d] /\ seen'[d] = seen[d] /\ answer'[d] = answer[d]
                 /\ unread'[d] = unread[d] /\ pc'[d] = pc[d],
               Scanned(q)'
        PROVE  ScanInv'
    BY <2>1, <2>2 DEF ScanInv
  <2>3. ASSUME NEW q \in Request, Call(q) PROVE ScanInv'
    <3>1. PICK params \in Params :
            /\ unread' = [unread EXCEPT ![q] = PartsOf(params.tool)]
            /\ pc' = [pc EXCEPT ![q] = CASE params.tool = "reschedule" -> "move"
                                         [] params.tool = "available" -> "list"
                                         [] OTHER -> "read"]
      BY <2>3 DEF Call
    <3>2. /\ scan' = scan /\ seen' = seen /\ answer' = answer /\ pc[q] = "new"
          /\ pc' \in [Request -> {"new", "list", "read", "post", "move", "done"}]
      BY <2>3, <3>1 DEF Call, Asked
    <3>3. Scanned(q) /\ Shaped
      BY DEF ScanInv
    <3>4. scan'[q].starts = {} /\ answer'[q].code # "available"
      BY <3>2, <3>3 DEF Scanned
    <3>5. Scanned(q)'
      BY <3>4 DEF Scanned
    <3>6. Shaped'
      BY <3>1, <3>2, <3>3 DEF Shaped
    <3> QED BY <2>2, <3>1, <3>2, <3>5, <3>6 DEF Asked, Shaped
  <2>4. ASSUME NEW q \in Request, Read(q) PROVE ScanInv'
    <3>1. PICK part \in Parts : \E value :
            /\ Sees(q, part, value)
            /\ part = "schedule" => DOMAIN value = DOMAIN seen[q].schedule
      BY <2>4 DEF Read, Parts
    <3>7. PICK value :
            /\ part \in unread[q]
            /\ unread' = [unread EXCEPT ![q] = @ \ {part}]
            /\ seen' = [seen EXCEPT ![q] = [@ EXCEPT ![part] = value]]
            /\ part = "schedule" => DOMAIN value = DOMAIN seen[q].schedule
      BY <3>1 DEF Sees
    <3>2. pc' = pc /\ scan' = scan /\ answer' = answer /\ pc[q] = "read"
      BY <2>4 DEF Read, Sees
    <3>3. Scanned(q) /\ Shaped
      BY DEF ScanInv
    <3>4. scan'[q].starts = {} /\ answer'[q].code # "available"
      BY <3>2, <3>3, <3>7 DEF Scanned
    <3>5. Scanned(q)'
      BY <3>4 DEF Scanned
    <3>8. seen'[q] = [seen[q] EXCEPT ![part] = value]
          /\ \A d \in Request \ {q} : seen'[d] = seen[d]
      BY <3>3, <3>7 DEF Shaped
    <3>9. DOMAIN seen'[q] = Parts /\ DOMAIN seen'[q].schedule = Staff
      BY <3>3, <3>7, <3>8 DEF Shaped, Parts
    <3>6. Shaped'
      BY <3>2, <3>3, <3>7, <3>8, <3>9 DEF Shaped
    <3> QED BY <2>2, <3>2, <3>5, <3>6, <3>7, <3>8 DEF Shaped
  <2>5. ASSUME NEW q \in Request, NEW code, NEW starts,
               scan' = scan, seen' = seen, unread' = unread,
               pc[q] \notin {"new", "list"},
               pc' = [pc EXCEPT ![q] = "done"],
               answer' = [answer EXCEPT ![q] = [code |-> code, starts |-> starts]],
               code = "available" => starts \subseteq scan[q].starts
        PROVE  ScanInv'
    <3>1. Scanned(q) /\ Shaped
      BY DEF ScanInv
    <3>2. answer'[q] = [code |-> code, starts |-> starts] /\ pc'[q] = "done"
      BY <2>5, <3>1 DEF Shaped, Asked
    <3>3. ASSUME NEW m, NEW t PROVE FreeFor(q, m, t)' <=> FreeFor(q, m, t)
      BY <2>5 DEF FreeFor
    <3>4. Scanned(q)'
      BY <2>5, <3>1, <3>2, <3>3 DEF Scanned
    <3>5. Shaped'
      BY <2>5, <3>1 DEF Shaped
    <3> QED BY <2>2, <2>5, <3>4, <3>5 DEF Asked, Shaped
  <2>6. ASSUME NEW q \in Request,
               \/ ReadFails(q) \/ PostFails(q) \/ RescheduleRefused(q)
               \/ CreateConflict(q) \/ Create(q) \/ Reschedule(q)
               \/ WorkingHours(q) \/ ServiceDuration(q)
               \/ FreeSlots(q) \/ ValidateSlot(q)
        PROVE  ScanInv'
    <3>1. scan' = scan /\ seen' = seen /\ unread' = unread /\ pc[q] \notin {"new", "list"}
      BY <2>6 DEF ReadFails, PostFails, RescheduleRefused, CreateConflict, Create, Reschedule,
                  WorkingHours, ServiceDuration, FreeSlots, ValidateSlot, AllRead
    <3>2. PICK code, starts : Finish(q, code, starts) /\ code # "available"
      <4>1. CASE ReadFails(q) \/ PostFails(q) \/ RescheduleRefused(q) \/ CreateConflict(q)
        BY <4>1 DEF ReadFails, PostFails, RescheduleRefused, CreateConflict
      <4>2. CASE Create(q) \/ Reschedule(q)
        BY <4>2 DEF Create, Reschedule
      <4>3. CASE WorkingHours(q) \/ ServiceDuration(q) \/ FreeSlots(q)
        BY <4>3 DEF WorkingHours, ServiceDuration, FreeSlots
      <4>4. CASE ValidateSlot(q)
        BY <4>4 DEF ValidateSlot, validateSlot
      <4> QED BY <2>6, <4>1, <4>2, <4>3, <4>4
    <3> QED BY <2>5, <3>1, <3>2
  <2>7. ASSUME NEW q \in Request, Available(q) \/ AvailableFails(q) PROVE ScanInv'
    BY <2>5, <2>7 DEF Available, AvailableFails, AllRead
  <2>8. ASSUME NEW q \in Request, Decide(q) PROVE ScanInv'
    <3>1. scan' = scan /\ seen' = seen /\ unread' = unread /\ pc[q] = "read"
      BY <2>8 DEF Decide, AllRead
    <3>2. CASE pc' = [pc EXCEPT ![q] = "post"] /\ answer' = answer
      <4>1. Scanned(q) /\ Shaped
        BY DEF ScanInv
      <4>2. pc'[q] = "post" /\ answer'[q].code # "available"
        BY <3>1, <3>2, <4>1 DEF Scanned, Asked
      <4>3. ASSUME NEW m, NEW t PROVE FreeFor(q, m, t)' <=> FreeFor(q, m, t)
        BY <3>1 DEF FreeFor
      <4>4. Scanned(q)'
        BY <3>1, <4>1, <4>2, <4>3 DEF Scanned
      <4>5. Shaped'
        BY <3>1, <3>2, <4>1 DEF Shaped
      <4> QED BY <2>2, <3>1, <3>2, <4>4, <4>5 DEF Asked
    <3>3. CASE \E verdict \in {"ok", "outside", "occupied"} : Finish(q, verdict, {})
      BY <2>5, <3>1, <3>3
    <3> QED BY <2>8, <3>2, <3>3 DEF Decide, validateSlot
  <2>9. ASSUME NEW q \in Request, List(q) \/ ListFails(q) PROVE ScanInv'
    <3>1. seen' = seen /\ unread' = unread /\ pc[q] = "list"
      BY <2>9 DEF List, ListFails
    <3>2. Scanned(q) /\ Shaped /\ scan[q].starts = {}
      BY <3>1 DEF ScanInv, Scanned
    <3>3. CASE Finish(q, "available", {}) /\ scan' = scan
      <4>1. answer'[q].starts = {} /\ pc'[q] = "done" /\ scan'[q].starts = {}
        BY <3>2, <3>3 DEF Shaped, Asked
      <4>2. Scanned(q)'
        BY <4>1 DEF Scanned
      <4>3. Shaped'
        BY <3>1, <3>2, <3>3 DEF Shaped
      <4> QED BY <2>2, <3>1, <3>3, <4>2, <4>3 DEF Asked, Shaped
    <3>4. ASSUME NEW masters \in SUBSET Staff, NEW s, answer' = answer, pc' = [pc EXCEPT ![q] = "read"],
                 scan' = [scan EXCEPT ![q] = [masters |-> masters, service |-> s,
                                              starts |-> {}]]
          PROVE  ScanInv'
      <4>1. scan'[q] = [masters |-> masters, service |-> s, starts |-> {}]
        BY <3>2, <3>4 DEF Shaped
      <4>2. scan'[q].starts = {} /\ answer'[q].code # "available"
        BY <3>1, <3>2, <3>4, <4>1 DEF Scanned
      <4>3. Scanned(q)'
        BY <4>2 DEF Scanned
      <4>4. Shaped'
        BY <3>1, <3>2, <3>4, <4>1 DEF Shaped
      <4> QED BY <2>2, <3>1, <3>4, <4>3, <4>4 DEF Asked, Shaped
    <3> QED BY <2>9, <3>3, <3>4, BookingAssumption DEF List, ListFails, LookFor
  <2>10. ASSUME NEW q \in Request, Scan(q) PROVE ScanInv'
    <3>1. PICK m \in scan[q].masters :
            /\ seen' = [seen EXCEPT ![q].schedule[m] = schedule[m]]
            /\ scan' = [scan EXCEPT ![q].masters = @ \ {m},
                                    ![q].starts = @ \cup StartsOf(q, m, schedule[m])]
      BY <2>10 DEF Scan
    <3> DEFINE found == StartsOf(q, m, schedule[m])
    <3>2. pc' = pc /\ unread' = unread /\ answer' = answer /\ pc[q] = "read" /\ unread[q] = {}
      BY <2>10 DEF Scan, AllRead
    <3>3. Scanned(q) /\ Shaped
      BY DEF ScanInv
    <3> HIDE DEF found
    <3>4. /\ scan'[q].masters = scan[q].masters \ {m}
          /\ scan'[q].starts = scan[q].starts \cup found
          /\ scan'[q].service = scan[q].service
          /\ DOMAIN scan' = DOMAIN scan /\ DOMAIN scan'[q] = DOMAIN scan[q]
          /\ \A d \in Request \ {q} : scan'[d] = scan[d]
      BY <3>1, <3>3 DEF Shaped, found
    <3>5. /\ seen'[q].records = seen[q].records /\ seen'[q].services = seen[q].services
          /\ DOMAIN seen' = DOMAIN seen /\ DOMAIN seen'[q] = DOMAIN seen[q]
          /\ \A d \in Request \ {q} : seen'[d] = seen[d]
          /\ seen'[q].schedule = [seen[q].schedule EXCEPT ![m] = schedule[m]]
      BY <3>1, <3>3 DEF Shaped, Parts
    <3>6. m \in Staff /\ seen'[q].schedule[m] = schedule[m]
      BY <3>3, <3>5, <3>1 DEF Shaped
    <3>7. ASSUME NEW t \in found PROVE FreeFor(q, m, t)'
      BY <3>4, <3>5, <3>6, <3>7, OffersValidate DEF FreeFor, StartsOf, found
    <3>8. ASSUME NEW t \in scan[q].starts
          PROVE  \E o \in Staff \ scan'[q].masters : FreeFor(q, o, t)'
      <4>1. PICK o \in Staff \ scan[q].masters : FreeFor(q, o, t)
        BY <3>3, <3>8 DEF Scanned
      <4>2. o # m /\ seen'[q].schedule[o] = seen[q].schedule[o]
        BY <3>3, <3>5 DEF Shaped
      <4>3. FreeFor(q, o, t)'
        BY <3>4, <3>5, <4>1, <4>2 DEF FreeFor
      <4> QED BY <3>4, <4>1, <4>3
    <3>9. answer[q].code # "available"
      BY <3>2, <3>3 DEF Scanned
    <3>10. Scanned(q)'
      BY <3>2, <3>4, <3>6, <3>7, <3>8, <3>9 DEF Scanned
    <3>11. Shaped'
      BY <3>2, <3>3, <3>4, <3>5 DEF Shaped
    <3> QED BY <2>2, <3>2, <3>4, <3>5, <3>10, <3>11
  <2>11. CASE EditSchedule \/ EditService \/ EditRecords \/ UpdateAppointment
           \/ UNCHANGED vars
    <3>1. /\ pc' = pc /\ unread' = unread /\ seen' = seen /\ scan' = scan
          /\ answer' = answer
      BY <2>11 DEF EditSchedule, EditService, EditRecords, UpdateAppointment, Edit, vars
    <3>2. Shaped'
      BY <3>1 DEF ScanInv, Shaped
    <3> QED BY <2>1, <3>1, <3>2 DEF ScanInv
  <2> QED BY <2>3, <2>4, <2>6, <2>7, <2>8, <2>9, <2>10, <2>11 DEF Next
<1> QED BY <1>1, <1>2, AskedCorrect, PTL DEF Spec

\* Every time that get_availability_for_date names is one at which a master it
\* looked at is free, whatever is edited while the loop runs.
THEOREM AvailabilityIsSomebodys == Spec => []SomebodyIsFree
<1>1. ScanInv => SomebodyIsFree
  BY DEF ScanInv, Scanned, FreeFor, SomebodyIsFree
<1> QED BY <1>1, ScanInvCorrect, PTL

-----------------------------------------------------------------------------
(* Types, part by part: the CRM, what a handler has read, its loop, its    *)
(* answer.                                                                 *)

CrmTyped ==
  /\ schedule \in [Staff -> Schedules]
  /\ \A r \in records : r \in Record
  /\ services \in [Service -> Durations \cup {NoDuration}]
  /\ edits \in 0..MaxEdits
  /\ stood \in [Request -> SUBSET Record]

SeenTyped(q) ==
  /\ seen[q].schedule \in [Staff -> Schedules \cup {{}}]
  /\ \A r \in seen[q].records : r \in Record
  /\ seen[q].services \in [Service -> Durations \cup {NoDuration}]

ScanTyped(q) ==
  /\ scan[q].masters \subseteq Staff /\ scan[q].starts \subseteq Int
  /\ scan[q].service \in Service \/ scan[q] = Idle

AnswerTyped(q) == answer[q].code \in Codes /\ answer[q].starts \subseteq Int

LEMMA TypeParts ==
  TypeOK <=> /\ CrmTyped
             /\ pc \in [Request -> {"new", "list", "read", "post", "move", "done"}]
             /\ unread \in [Request -> SUBSET Parts]
             /\ \A q \in Request : /\ ask[q] \in Params \cup {Unasked}
                                   /\ SeenTyped(q) /\ ScanTyped(q) /\ AnswerTyped(q)
BY DEF TypeOK, CrmTyped, SeenTyped, ScanTyped, AnswerTyped

\* The times of day of a schedule become instants.
LEMMA ShiftsAreInts ==
  ASSUME NEW rows \in Schedules \cup {{}},
         NEW s \in parseScheduleToWorkingSlots(rows)
  PROVE  s.start \in Int /\ s.end \in Int
<1>1. PICK w \in WorkedSlots(rows) :
        s = [start |-> parseTimeOnDate(w.from), end |-> parseTimeOnDate(w.to)]
  BY DEF parseScheduleToWorkingSlots
<1>2. w.from \in Int /\ w.to \in Int
  BY BookingAssumption DEF WorkedSlots
<1> QED BY <1>1, <1>2, SlotsAssumption DEF parseTimeOnDate

LEMMA StartsAreInts ==
  ASSUME NEW shifts, NEW taken, NEW duration
  PROVE  computeFreeSlotStarts(shifts, taken, duration) \subseteq Int
BY DEF computeFreeSlotStarts

LEMMA CrmTypedStep ==
  ASSUME TypeOK, Asked, [Next]_vars
  PROVE  CrmTyped'
<1>1. CrmTyped
  BY TypeParts
<1>0. ASSUME Forget PROVE stood' \in [Request -> SUBSET Record]
  BY <1>0, <1>1 DEF CrmTyped, Forget
<1>2. ASSUME NEW q \in Request, Create(q) PROVE CrmTyped'
  <2>1. ask[q].tool = "create" /\ ask[q] \in Params
    BY <1>2 DEF Create, Asked, Unasked
  <2>2. Posted(q) \in Record
    BY <2>1 DEF Posted, Record, Params
  <2> QED BY <1>1, <1>2, <2>2 DEF CrmTyped, Create
<1>3. ASSUME NEW q \in Request, Reschedule(q) PROVE CrmTyped'
  <2>1. PICK r \in records :
          records' = (records \ {r}) \cup {[r EXCEPT !.start = ask[q].start]}
    BY <1>3 DEF Reschedule
  <2>2. ask[q].start \in Starts /\ r \in Record
    BY <1>1, <1>3, ParamsOf DEF Reschedule, Asked, CrmTyped
  <2>3. [r EXCEPT !.start = ask[q].start] \in Record
    BY <2>2 DEF Record
  <2> QED BY <1>0, <1>1, <1>3, <2>1, <2>3 DEF CrmTyped, Reschedule
<1>7. ASSUME NEW q \in Request, Call(q) PROVE CrmTyped'
  <2>1. records \in SUBSET Record
    BY <1>1 DEF CrmTyped
  <2>2. stood' = [stood EXCEPT ![q] = records] \/ stood' = [stood EXCEPT ![q] = {}]
    BY <1>7 DEF Call
  <2> QED BY <1>1, <1>7, <2>1, <2>2 DEF CrmTyped, Call
<1>4. ASSUME NEW q \in Request,
             \/ Read(q) \/ ReadFails(q) \/ FreeSlots(q) \/ ValidateSlot(q)
             \/ Decide(q) \/ CreateConflict(q) \/ PostFails(q) \/ RescheduleRefused(q)
             \/ WorkingHours(q) \/ ServiceDuration(q) \/ List(q) \/ ListFails(q)
             \/ Scan(q) \/ Available(q) \/ AvailableFails(q)
      PROVE  CrmTyped'
  <2>1. UNCHANGED <<crm, edits>>
    BY <1>4 DEF Read, Sees, ReadFails, FreeSlots, ValidateSlot, Decide,
       CreateConflict, PostFails, RescheduleRefused, WorkingHours, ServiceDuration,
       List, ListFails, Scan, Available, AvailableFails
  <2> QED BY <1>1, <2>1 DEF CrmTyped, crm
<1>5. CASE EditSchedule \/ EditService \/ EditRecords \/ UpdateAppointment
  <2>1. edits' \in 0..MaxEdits
    <3>1. edits < MaxEdits /\ edits' = edits + 1
      BY <1>5 DEF EditSchedule, EditService, EditRecords, UpdateAppointment, Edit
    <3> QED BY <1>1, <3>1, BookingAssumption DEF CrmTyped
  <2>2. CASE EditSchedule
    BY <1>1, <2>1, <2>2 DEF CrmTyped, EditSchedule
  <2>3. CASE EditService
    BY <1>1, <2>1, <2>3 DEF CrmTyped, EditService
  <2>4. CASE EditRecords
    <3>1. stood' \in [Request -> SUBSET Record]
      BY <1>0, <2>4 DEF EditRecords
    <3>2. \A r \in records' : r \in Record
      BY <1>1, <2>4 DEF CrmTyped, EditRecords, Record
    <3> QED BY <1>1, <2>1, <2>4, <3>1, <3>2 DEF CrmTyped, EditRecords
  <2>5. CASE UpdateAppointment
    <3>1. stood' \in [Request -> SUBSET Record]
      BY <1>0, <2>5 DEF UpdateAppointment
    <3>2. PICK r \in records, m \in Staff, start \in Starts,
               len \in Durations \cup SeanceLengths :
            records' = (records \ {r})
                         \cup {[r EXCEPT !.staff = m, !.start = start, !.len = len]}
      BY <2>5 DEF UpdateAppointment
    <3>3. [r EXCEPT !.staff = m, !.start = start, !.len = len] \in Record
      BY <1>1 DEF CrmTyped, Record
    <3>4. \A o \in records' : o \in Record
      BY <1>1, <3>2, <3>3 DEF CrmTyped
    <3> QED BY <1>1, <2>1, <2>5, <3>1, <3>4 DEF CrmTyped, UpdateAppointment
  <2> QED BY <1>5, <2>2, <2>3, <2>4, <2>5
<1>6. CASE UNCHANGED vars
  BY <1>1, <1>6 DEF CrmTyped, vars, crm
<1> QED BY <1>2, <1>3, <1>4, <1>5, <1>6, <1>7 DEF Next

LEMMA SeenTypedStep ==
  ASSUME TypeOK, Asked, Shaped, [Next]_vars, NEW d \in Request
  PROVE  SeenTyped(d)'
<1>1. CrmTyped /\ SeenTyped(d)
  BY TypeParts
<1>2. ASSUME seen'[d] = seen[d] PROVE SeenTyped(d)'
  BY <1>1, <1>2 DEF SeenTyped
<1>3. ASSUME NEW q \in Request, Read(q) PROVE SeenTyped(d)'
  <2>1. CASE q # d
    BY <1>2, <1>3, <2>1 DEF Read, Sees, Shaped
  <2>2. CASE q = d
    <3>1. CASE seen' = [seen EXCEPT ![d].schedule = [seen[d].schedule EXCEPT
                                       ![ask[d].staff] = schedule[ask[d].staff]]]
      <4>1. /\ seen'[d].records = seen[d].records /\ seen'[d].services = seen[d].services
            /\ seen'[d].schedule = [seen[d].schedule EXCEPT
                                       ![ask[d].staff] = schedule[ask[d].staff]]
        BY <3>1 DEF Shaped, Parts
      <4> QED BY <1>1, <4>1 DEF SeenTyped, CrmTyped
    <3>2. CASE seen' = [seen EXCEPT ![d].records = records]
      <4>1. /\ seen'[d].records = records /\ seen'[d].services = seen[d].services
            /\ seen'[d].schedule = seen[d].schedule
        BY <3>2 DEF Shaped, Parts
      <4> QED BY <1>1, <4>1 DEF SeenTyped, CrmTyped
    <3>3. CASE seen' = [seen EXCEPT ![d].services = services]
      <4>1. /\ seen'[d].records = seen[d].records /\ seen'[d].services = services
            /\ seen'[d].schedule = seen[d].schedule
        BY <3>3 DEF Shaped, Parts
      <4> QED BY <1>1, <4>1 DEF SeenTyped, CrmTyped
    <3> QED BY <1>3, <2>2, <3>1, <3>2, <3>3 DEF Read, Sees
  <2> QED BY <2>1, <2>2
<1>4. ASSUME NEW q \in Request, Scan(q) PROVE SeenTyped(d)'
  <2>1. CASE q # d
    BY <1>2, <1>4, <2>1 DEF Scan
  <2>2. CASE q = d
    <3>1. PICK m \in Staff : seen' = [seen EXCEPT ![d].schedule[m] = schedule[m]]
      BY <1>4, <2>2 DEF Scan, Shaped
    <3>2. /\ seen'[d].records = seen[d].records /\ seen'[d].services = seen[d].services
          /\ seen'[d].schedule = [seen[d].schedule EXCEPT ![m] = schedule[m]]
      BY <3>1 DEF Shaped, Parts
    <3> QED BY <1>1, <3>2 DEF SeenTyped, CrmTyped
  <2> QED BY <2>1, <2>2
<1>5. ASSUME NEW q \in Request,
             \/ Call(q) \/ ReadFails(q) \/ FreeSlots(q) \/ ValidateSlot(q)
             \/ Decide(q) \/ Create(q) \/ CreateConflict(q) \/ PostFails(q)
             \/ Reschedule(q) \/ RescheduleRefused(q) \/ WorkingHours(q)
             \/ ServiceDuration(q) \/ List(q) \/ ListFails(q) \/ Available(q)
             \/ AvailableFails(q)
      PROVE  SeenTyped(d)'
  <2>1. seen' = seen
    BY <1>5 DEF Call, ReadFails, FreeSlots, ValidateSlot, Decide, Create,
       CreateConflict, PostFails, Reschedule, RescheduleRefused, WorkingHours,
       ServiceDuration, List, ListFails, Available, AvailableFails
  <2> QED BY <1>2, <2>1
<1>6. CASE EditSchedule \/ EditService \/ EditRecords \/ UpdateAppointment
           \/ UNCHANGED vars
  BY <1>2, <1>6 DEF EditSchedule, EditService, EditRecords, UpdateAppointment, Edit, vars
<1> QED BY <1>3, <1>4, <1>5, <1>6 DEF Next

LEMMA ScanTypedStep ==
  ASSUME TypeOK, Shaped, [Next]_vars, NEW d \in Request
  PROVE  ScanTyped(d)'
<1>1. ScanTyped(d)
  BY TypeParts
<1>2. ASSUME scan'[d] = scan[d] PROVE ScanTyped(d)'
  BY <1>1, <1>2 DEF ScanTyped
<1>3. ASSUME NEW q \in Request, List(q) \/ ListFails(q) PROVE ScanTyped(d)'
  <2>1. \/ scan' = scan
        \/ \E masters \in SUBSET Staff, s \in Service :
             scan' = [scan EXCEPT ![q] = [masters |-> masters, service |-> s,
                                          starts |-> {}]]
    BY <1>3, BookingAssumption DEF List, ListFails, LookFor
  <2>2. ASSUME NEW masters \in SUBSET Staff, NEW s \in Service,
               scan' = [scan EXCEPT ![q] = [masters |-> masters, service |-> s,
                                            starts |-> {}]]
        PROVE  ScanTyped(d)'
    <3>1. CASE q = d
      <4>1. scan'[d] = [masters |-> masters, service |-> s, starts |-> {}]
        BY <2>2, <3>1 DEF Shaped
      <4> QED BY <4>1 DEF ScanTyped
    <3>2. CASE q # d
      BY <1>2, <2>2, <3>2 DEF Shaped
    <3> QED BY <3>1, <3>2
  <2>3. CASE scan' = scan
    BY <1>2, <2>3
  <2> QED BY <2>1, <2>2, <2>3
<1>4. ASSUME NEW q \in Request, Scan(q) PROVE ScanTyped(d)'
  <2>1. CASE q # d
    <3>1. PICK m :
            scan' = [scan EXCEPT ![q].masters = @ \ {m},
                                 ![q].starts = @ \cup StartsOf(q, m, schedule[m])]
      BY <1>4 DEF Scan
    <3>2. scan'[d] = scan[d]
      BY <2>1, <3>1 DEF Shaped
    <3> QED BY <1>2, <3>2
  <2>2. CASE q = d
    <3>1. PICK m \in scan[d].masters :
            scan' = [scan EXCEPT ![d].masters = @ \ {m},
                                 ![d].starts = @ \cup StartsOf(d, m, schedule[m])]
      BY <1>4, <2>2 DEF Scan
    <3>2. StartsOf(d, m, schedule[m]) \subseteq Int
      BY StartsAreInts DEF StartsOf
    <3>3. /\ scan'[d].masters = scan[d].masters \ {m}
          /\ scan'[d].starts = scan[d].starts \cup StartsOf(d, m, schedule[m])
          /\ scan'[d].service = scan[d].service
      BY <3>1 DEF Shaped
    <3>4. scan[d].service \in Service
      <4>1. scan[d] # Idle
        BY DEF Idle
      <4> QED BY <1>1, <4>1 DEF ScanTyped
    <3> QED BY <1>1, <3>2, <3>3, <3>4 DEF ScanTyped
  <2> QED BY <2>1, <2>2
<1>5. ASSUME NEW q \in Request,
             \/ Call(q) \/ Read(q) \/ ReadFails(q) \/ FreeSlots(q) \/ ValidateSlot(q)
             \/ Decide(q) \/ Create(q) \/ CreateConflict(q) \/ PostFails(q)
             \/ Reschedule(q) \/ RescheduleRefused(q) \/ WorkingHours(q)
             \/ ServiceDuration(q) \/ Available(q) \/ AvailableFails(q)
      PROVE  ScanTyped(d)'
  <2>1. scan' = scan
    BY <1>5 DEF Call, Read, Sees, ReadFails, FreeSlots, ValidateSlot, Decide, Create,
       CreateConflict, PostFails, Reschedule, RescheduleRefused, WorkingHours,
       ServiceDuration, Available, AvailableFails
  <2> QED BY <1>2, <2>1
<1>6. CASE EditSchedule \/ EditService \/ EditRecords \/ UpdateAppointment
           \/ UNCHANGED vars
  BY <1>2, <1>6 DEF EditSchedule, EditService, EditRecords, UpdateAppointment, Edit, vars
<1> QED BY <1>3, <1>4, <1>5, <1>6 DEF Next

\* What a handler answers: its code and its starts.
LEMMA AnswerOf ==
  ASSUME TypeOK, Asked, Shaped, [Next]_vars, NEW d \in Request
  PROVE  \/ answer'[d] = answer[d]
         \/ \E code \in Codes, starts \in SUBSET Int :
              answer'[d] = [code |-> code, starts |-> starts]
<1>0. CrmTyped /\ SeenTyped(d) /\ ScanTyped(d)
  BY TypeParts
<1> USE DEF Codes
<1>1. ASSUME NEW q \in Request, q # d,
             \E code, starts :
               answer' = [answer EXCEPT ![q] = [code |-> code, starts |-> starts]]
      PROVE  answer'[d] = answer[d]
  BY <1>1 DEF Shaped
<1>2. ASSUME NEW code \in Codes, NEW starts \in SUBSET Int,
             answer' = [answer EXCEPT ![d] = [code |-> code, starts |-> starts]]
      PROVE  answer'[d] = [code |-> code, starts |-> starts]
  BY <1>2 DEF Shaped
<1>3. ASSUME NEW q \in Request,
             \/ Call(q) \/ Read(q) \/ Scan(q) \/ EditSchedule \/ EditService
             \/ EditRecords \/ UpdateAppointment \/ UNCHANGED vars
      PROVE  answer' = answer
  BY <1>3 DEF Call, Read, Sees, Scan, EditSchedule, EditService, EditRecords,
     UpdateAppointment, Edit, vars
<1>4. ASSUME NEW q \in Request,
             \/ ReadFails(q) \/ CreateConflict(q) \/ PostFails(q) \/ Create(q)
             \/ Reschedule(q) \/ RescheduleRefused(q) \/ ServiceDuration(q)
             \/ AvailableFails(q)
      PROVE  \E code \in Codes : Finish(q, code, {})
  BY <1>4 DEF ReadFails, CreateConflict, PostFails, Create, Reschedule,
     RescheduleRefused, ServiceDuration, AvailableFails
<1>5. ASSUME NEW q \in Request,
             ValidateSlot(q) \/ Decide(q) \/ List(q) \/ ListFails(q)
      PROVE  answer' = answer \/ \E code \in Codes : Finish(q, code, {})
  BY <1>5 DEF ValidateSlot, Decide, List, ListFails, LookFor, validateSlot
<1>6. ASSUME NEW q \in Request, FreeSlots(q)
      PROVE  \E starts \in SUBSET Int : Finish(q, "free", starts)
  BY <1>6, StartsAreInts DEF FreeSlots
<1>7. ASSUME WorkingHours(d)
      PROVE  \E starts \in SUBSET Int : Finish(d, "hours", starts)
  <2>1. \A s \in workingSlots(d) : s.start \in Int
    <3>1. ask[d].staff \in Staff
      BY <1>7 DEF WorkingHours, Asked, Params, Unasked
    <3>2. seen[d].schedule[ask[d].staff] \in Schedules \cup {{}}
      BY <1>0, <3>1 DEF SeenTyped
    <3> QED BY <3>2, ShiftsAreInts DEF workingSlots
  <2> QED BY <1>7, <2>1 DEF WorkingHours
<1>8. ASSUME Available(d)
      PROVE  \E starts \in SUBSET Int : Finish(d, "available", starts)
  BY <1>0, <1>8 DEF Available, ScanTyped
<1>9. ASSUME NEW q \in Request, q # d, WorkingHours(q) \/ Available(q)
      PROVE  answer'[d] = answer[d]
  BY <1>1, <1>9 DEF WorkingHours, Available
<1> DEFINE Held == answer'[d] = answer[d]
           Answered == \E code \in Codes, starts \in SUBSET Int :
                         answer'[d] = [code |-> code, starts |-> starts]
<1>10. ASSUME NEW q \in Request, NEW code \in Codes, NEW starts \in SUBSET Int,
              Finish(q, code, starts)
       PROVE  Held \/ Answered
  <2>1. CASE q = d
    BY <1>2, <1>10, <2>1, ZenonT(40)
  <2>2. CASE q # d
    BY <1>1, <1>10, <2>2
  <2> QED BY <2>1, <2>2
<1>11. {} \in SUBSET Int /\ "free" \in Codes /\ "hours" \in Codes /\ "available" \in Codes
  OBVIOUS
<1>12. ASSUME NEW q \in Request,
              \/ ReadFails(q) \/ CreateConflict(q) \/ PostFails(q) \/ Create(q)
              \/ Reschedule(q) \/ RescheduleRefused(q) \/ ServiceDuration(q)
              \/ AvailableFails(q)
       PROVE  Held \/ Answered
  BY <1>4, <1>10, <1>11, <1>12
<1>13. ASSUME NEW q \in Request,
              ValidateSlot(q) \/ Decide(q) \/ List(q) \/ ListFails(q)
       PROVE  Held \/ Answered
  BY <1>5, <1>10, <1>11, <1>13
<1>14. ASSUME NEW q \in Request, FreeSlots(q) PROVE Held \/ Answered
  BY <1>6, <1>10, <1>11, <1>14
<1>15. ASSUME NEW q \in Request, WorkingHours(q) \/ Available(q) PROVE Held \/ Answered
  BY <1>7, <1>8, <1>9, <1>10, <1>11, <1>15
<1> HIDE DEF Held, Answered
<1>16. ASSUME NEW q \in Request, Call(q) \/ Read(q) \/ Scan(q)
       PROVE  Held
  BY <1>3, <1>16 DEF Held
<1>17. ASSUME EditSchedule \/ EditService \/ EditRecords \/ UpdateAppointment
           \/ UNCHANGED vars
       PROVE  Held
  BY <1>3, <1>17 DEF Held
<1>18. Held \/ Answered
  BY <1>12, <1>13, <1>14, <1>15, <1>16, <1>17 DEF Next
<1> QED BY <1>18 DEF Held, Answered

\* Whoever edits the CRM and whatever fails, the CRM, what a handler has read
\* and what it answers keep their types.
THEOREM BookingTypeCorrect == Spec => []TypeOK
<1>1. Init => TypeOK
  <2> SUFFICES ASSUME Init PROVE TypeOK
    OBVIOUS
  <2>1. CrmTyped
    BY BookingAssumption DEF Init, CrmTyped
  <2>2. ASSUME NEW q \in Request
        PROVE  SeenTyped(q) /\ ScanTyped(q) /\ AnswerTyped(q)
    BY <2>2 DEF Init, SeenTyped, ScanTyped, AnswerTyped, NothingSeen, Idle, Unanswered,
       Codes
  <2> QED BY <2>1, <2>2, TypeParts DEF Init, Unasked
<1>2. TypeOK /\ Asked /\ Asked' /\ ScanInv /\ [Next]_vars => TypeOK'
  <2> SUFFICES ASSUME TypeOK, Asked, Asked', ScanInv, [Next]_vars PROVE TypeOK'
    OBVIOUS
  <2>1. Shaped
    BY DEF ScanInv
  <2>2. CrmTyped'
    BY CrmTypedStep
  <2>3. ASSUME NEW d \in Request PROVE SeenTyped(d)' /\ ScanTyped(d)'
    BY <2>1, SeenTypedStep, ScanTypedStep
  <2>4. ASSUME NEW d \in Request PROVE AnswerTyped(d)'
    <3>1. AnswerTyped(d)
      BY TypeParts
    <3>2. CASE answer'[d] = answer[d]
      BY <3>1, <3>2 DEF AnswerTyped
    <3>3. CASE \E code \in Codes, starts \in SUBSET Int :
                 answer'[d] = [code |-> code, starts |-> starts]
      BY <3>3 DEF AnswerTyped
    <3> QED BY <2>1, <3>2, <3>3, AnswerOf
  <2>5. unread' \in [Request -> SUBSET Parts]
    <3>1. unread \in [Request -> SUBSET Parts]
      BY TypeParts
    <3>2. ASSUME NEW q \in Request, Call(q)
          PROVE  unread' \in [Request -> SUBSET Parts]
      <4>1. \A tool : PartsOf(tool) \subseteq Parts
        BY DEF PartsOf, Parts
      <4> QED BY <3>1, <3>2, <4>1 DEF Call
    <3>3. ASSUME NEW q \in Request, Read(q)
          PROVE  unread' \in [Request -> SUBSET Parts]
      BY <3>1, <3>3 DEF Read, Sees
    <3>4. ASSUME NEW q \in Request,
                 \/ ReadFails(q) \/ FreeSlots(q) \/ ValidateSlot(q) \/ Decide(q)
                 \/ Create(q) \/ CreateConflict(q) \/ PostFails(q) \/ Reschedule(q)
                 \/ RescheduleRefused(q) \/ WorkingHours(q) \/ ServiceDuration(q)
                 \/ List(q) \/ ListFails(q) \/ Scan(q) \/ Available(q)
                 \/ AvailableFails(q)
          PROVE  unread' = unread
      BY <3>4 DEF ReadFails, FreeSlots, ValidateSlot, Decide, Create, CreateConflict,
         PostFails, Reschedule, RescheduleRefused, WorkingHours, ServiceDuration, List,
         ListFails, Scan, Available, AvailableFails
    <3>5. CASE EditSchedule \/ EditService \/ EditRecords \/ UpdateAppointment
           \/ UNCHANGED vars
      BY <3>1, <3>5 DEF EditSchedule, EditService, EditRecords, UpdateAppointment, Edit, vars
    <3> QED BY <3>1, <3>2, <3>3, <3>4, <3>5 DEF Next
  <2>6. /\ pc' \in [Request -> {"new", "list", "read", "post", "move", "done"}]
        /\ \A q \in Request : ask'[q] \in Params \cup {Unasked}
    BY DEF Asked
  <2>7. TypeOK' <=> /\ CrmTyped'
                    /\ pc' \in [Request -> {"new", "list", "read", "post", "move", "done"}]
                    /\ unread' \in [Request -> SUBSET Parts]
                    /\ \A q \in Request :
                         /\ ask'[q] \in Params \cup {Unasked}
                         /\ SeenTyped(q)' /\ ScanTyped(q)' /\ AnswerTyped(q)'
    BY DEF TypeOK, CrmTyped, SeenTyped, ScanTyped, AnswerTyped
  <2> QED BY <2>2, <2>3, <2>4, <2>5, <2>6, <2>7
<1> QED BY <1>1, <1>2, AskedCorrect, ScanInvCorrect, PTL DEF Spec

-----------------------------------------------------------------------------
\* The maker of a record is a create that is through, and was not refused.
MadeInv ==
  \A r \in records : r.by # Others =>
    /\ pc[r.by] = "done"
    /\ ask[r.by].tool = "create" /\ answer[r.by].code \in {"created", "error"}

LEMMA MadeStep ==
  ASSUME TypeOK, Asked, OfferInv, MadeInv, [Next]_vars
  PROVE  MadeInv'
<1>1. \A r \in records : r \in Record
  BY DEF TypeOK
<1>2. ASSUME NEW q \in Request, pc[q] # "done",
             \A d \in Request \ {q} : /\ pc'[d] = pc[d] /\ ask'[d] = ask[d]
                                       /\ answer'[d] = answer[d],
             \A r \in records' : r.by # q => \E o \in records : o.by = r.by,
             \A r \in records' : r.by = q => r.by = Others \/
               /\ pc'[q] = "done"
               /\ ask'[q].tool = "create" /\ answer'[q].code \in {"created", "error"}
      PROVE  MadeInv'
  BY <1>1, <1>2 DEF MadeInv, Record
<1>3. \A r \in records : r.by # Others => r.by \in Request /\ pc[r.by] = "done"
  BY <1>1 DEF MadeInv, Record
<1>4. ASSUME NEW q \in Request, Create(q) PROVE MadeInv'
  <2>1. PICK code \in {"created", "error"} :
          /\ pc[q] = "post" /\ pc' = [pc EXCEPT ![q] = "done"] /\ ask' = ask
          /\ answer' = [answer EXCEPT ![q] = [code |-> code, starts |-> {}]]
          /\ records' = records \cup {Posted(q)}
    BY <1>4 DEF Create
  <2>2. Posted(q).by = q
    BY DEF Posted
  <2>3. answer'[q].code = code /\ pc'[q] = "done" /\ ask'[q].tool = "create"
    BY <2>1 DEF OfferInv, Asked
  <2> QED BY <1>2, <2>1, <2>2, <2>3
<1>5. ASSUME NEW q \in Request, Reschedule(q) PROVE MadeInv'
  <2>1. pc[q] = "move" /\ pc' = [pc EXCEPT ![q] = "done"] /\ ask' = ask
    BY <1>5 DEF Reschedule
  <2>2. \A d \in Request \ {q} : answer'[d] = answer[d]
    BY <1>5 DEF Reschedule
  <2>3. PICK old \in records :
          records' = (records \ {old}) \cup {[old EXCEPT !.start = ask[q].start]}
    BY <1>5 DEF Reschedule
  <2>4. [old EXCEPT !.start = ask[q].start].by = old.by
    BY <1>1 DEF Record
  <2>5. \A r \in records' : \E o \in records : o.by = r.by
    BY <2>3, <2>4
  <2> QED BY <1>2, <1>3, <2>1, <2>2, <2>5
<1>6. ASSUME NEW q \in Request,
             \/ Call(q) \/ Read(q) \/ ReadFails(q) \/ FreeSlots(q) \/ ValidateSlot(q)
             \/ Decide(q) \/ CreateConflict(q) \/ PostFails(q) \/ RescheduleRefused(q)
             \/ WorkingHours(q) \/ ServiceDuration(q) \/ List(q) \/ ListFails(q)
             \/ Scan(q) \/ Available(q) \/ AvailableFails(q)
      PROVE  MadeInv'
  <2>1. records' = records /\ pc[q] # "done"
    BY <1>6 DEF Call, Read, Sees, ReadFails, FreeSlots, ValidateSlot, Decide,
       CreateConflict, PostFails, RescheduleRefused, WorkingHours, ServiceDuration,
       List, ListFails, Scan, Available, AvailableFails, AllRead, crm
  <2>2. \A d \in Request \ {q} : pc'[d] = pc[d] /\ ask'[d] = ask[d]
    BY <1>6 DEF Call, Read, Sees, ReadFails, FreeSlots, ValidateSlot, Decide,
       CreateConflict, PostFails, RescheduleRefused, WorkingHours, ServiceDuration,
       List, ListFails, LookFor, Scan, Available, AvailableFails, Asked
  <2>3. \A d \in Request \ {q} : answer'[d] = answer[d]
    BY <1>6 DEF Call, Read, Sees, ReadFails, FreeSlots, ValidateSlot, Decide,
       CreateConflict, PostFails, RescheduleRefused, WorkingHours, ServiceDuration,
       List, ListFails, LookFor, Scan, Available, AvailableFails, OfferInv
  <2> QED BY <1>2, <1>3, <2>1, <2>2, <2>3
<1>7. CASE EditRecords
  <2>1. pc' = pc /\ ask' = ask /\ answer' = answer
    BY <1>7 DEF EditRecords, Edit
  <2>2. \A r \in records' : r.by = Others \/ r \in records
    BY <1>7 DEF EditRecords
  <2> QED BY <2>1, <2>2 DEF MadeInv
<1>9. CASE UpdateAppointment
  <2>1. pc' = pc /\ ask' = ask /\ answer' = answer
    BY <1>9 DEF UpdateAppointment, Edit
  <2>2. PICK old \in records, m \in Staff, start \in Starts,
             len \in Durations \cup SeanceLengths :
          records' = (records \ {old})
                       \cup {[old EXCEPT !.staff = m, !.start = start, !.len = len]}
    BY <1>9 DEF UpdateAppointment
  <2>3. [old EXCEPT !.staff = m, !.start = start, !.len = len].by = old.by
    BY <1>1 DEF Record
  <2>4. \A r \in records' : \E o \in records : o.by = r.by
    BY <2>2, <2>3
  <2> QED BY <2>1, <2>4 DEF MadeInv
<1>8. CASE EditSchedule \/ EditService \/ UNCHANGED vars
  BY <1>8 DEF MadeInv, EditSchedule, EditService, Edit, vars, crm
<1> QED BY <1>4, <1>5, <1>6, <1>7, <1>8, <1>9 DEF Next

\* A request that was told of a refusal has made no record, and only creates
\* make any: a conflict, a slot outside the shift or one that is taken leave
\* nothing in the CRM.
THEOREM RefusalsMakeNothing == Spec => []RefusedMadeNothing
<1>1. Init => MadeInv
  BY DEF Init, MadeInv
<1>2. TypeOK /\ Asked /\ OfferInv /\ MadeInv /\ [Next]_vars => MadeInv'
  BY MadeStep
<1>3. MadeInv => RefusedMadeNothing
  BY DEF MadeInv, RefusedMadeNothing
<1> QED
  BY <1>1, <1>2, <1>3, BookingTypeCorrect, AskedCorrect, OfferInvCorrect, PTL DEF Spec

-----------------------------------------------------------------------------
\* A create that posts has validated what it read with the length it chose,
\* and it reads nothing more.
Validated(q) ==
  validateSlot(ask[q].start, durationToUse(q), workingSlots(q), appointments(q)) = "ok"

ValidInv ==
  \A q \in Request : pc[q] = "post" \/ answer[q].code = "created" =>
    ask[q].tool = "create" /\ Validated(q)

LEMMA ValidStep ==
  ASSUME Asked, OfferInv, ValidInv, [Next]_vars
  PROVE  ValidInv'
<1> DEFINE Valid(d) == pc[d] = "post" \/ answer[d].code = "created" =>
                         ask[d].tool = "create" /\ Validated(d)
<1>1. ASSUME NEW d \in Request, ask'[d] = ask[d], seen'[d] = seen[d]
      PROVE  Validated(d)' <=> Validated(d)
  BY <1>1 DEF Validated, durationToUse, listed, workingSlots, appointments
<1>2. ASSUME NEW d \in Request, ask'[d] = ask[d], seen'[d] = seen[d],
             answer'[d].code = "created" =>
               pc[d] = "post" \/ answer[d].code = "created",
             pc'[d] = "post" => pc[d] = "post"
      PROVE  Valid(d)'
  BY <1>1, <1>2 DEF ValidInv
<1>3. ASSUME NEW q \in Request,
             \A d \in Request \ {q} : /\ pc'[d] = pc[d] /\ ask'[d] = ask[d]
                                       /\ seen'[d] = seen[d] /\ answer'[d] = answer[d],
             Valid(q)'
      PROVE  ValidInv'
  BY <1>2, <1>3 DEF ValidInv
<1>4. ASSUME NEW q \in Request, Call(q) \/ Read(q) \/ Scan(q) PROVE ValidInv'
  <2>1. pc[q] \in {"new", "read"} /\ answer' = answer /\ pc'[q] # "post"
    BY <1>4 DEF Call, Read, Sees, Scan, AllRead, Asked
  <2>2. \A d \in Request \ {q} : pc'[d] = pc[d] /\ ask'[d] = ask[d]
    BY <1>4 DEF Call, Read, Sees, Scan, Asked
  <2>4. \A d \in Request \ {q} : seen'[d] = seen[d]
    <3>1. \/ seen' = seen
          \/ \E part, value : seen' = [seen EXCEPT ![q][part] = value]
          \/ \E m : seen' = [seen EXCEPT ![q].schedule[m] = schedule[m]]
      BY <1>4 DEF Call, Read, Sees, Scan
    <3>2. ASSUME NEW part, NEW value, seen' = [seen EXCEPT ![q][part] = value]
          PROVE  \A d \in Request \ {q} : seen'[d] = seen[d]
      BY <3>2
    <3>3. ASSUME NEW m, seen' = [seen EXCEPT ![q].schedule[m] = schedule[m]]
          PROVE  \A d \in Request \ {q} : seen'[d] = seen[d]
      BY <3>3
    <3> QED BY <3>1, <3>2, <3>3
  <2>3. answer'[q].code # "created"
    BY <2>1 DEF OfferInv, Unanswered
  <2> QED BY <1>3, <2>1, <2>2, <2>3, <2>4
<1>5. ASSUME NEW q \in Request, Decide(q) PROVE ValidInv'
  <2>1. ask' = ask /\ seen' = seen /\ pc[q] = "read" /\ ask[q].tool = "create"
    BY <1>5 DEF Decide, AllRead
  <2>2. CASE Validated(q)
    <3>1. pc' = [pc EXCEPT ![q] = "post"] /\ answer' = answer
      BY <1>5, <2>2 DEF Decide, Validated
    <3> QED BY <1>1, <1>3, <2>1, <2>2, <3>1 DEF Asked
  <2>3. CASE ~Validated(q)
    <3>1. PICK verdict \in {"outside", "occupied"} : Finish(q, verdict, {})
      BY <1>5, <2>3 DEF Decide, Validated, validateSlot
    <3>2. answer'[q].code = verdict /\ pc'[q] = "done"
      BY <3>1 DEF OfferInv, Asked
    <3> QED BY <1>3, <2>1, <3>1, <3>2 DEF OfferInv, Asked
  <2> QED BY <2>2, <2>3
<1>6. ASSUME NEW q \in Request, Create(q) PROVE ValidInv'
  <2>1. pc[q] = "post" /\ ask' = ask /\ seen' = seen
    BY <1>6 DEF Create
  <2>2. \A d \in Request \ {q} : pc'[d] = pc[d] /\ answer'[d] = answer[d]
    BY <1>6 DEF Create, Asked, OfferInv
  <2>3. pc'[q] = "done"
    BY <1>6 DEF Create, Asked
  <2> QED BY <1>2, <1>3, <2>1, <2>2, <2>3
<1>7. ASSUME NEW q \in Request, NEW code \in Codes \ {"created"}, NEW starts,
             Finish(q, code, starts), ask' = ask, seen' = seen
      PROVE  ValidInv'
  <2>1. answer'[q].code # "created" /\ pc'[q] = "done"
    BY <1>7 DEF OfferInv, Asked
  <2>2. \A d \in Request \ {q} : pc'[d] = pc[d] /\ answer'[d] = answer[d]
    BY <1>7 DEF OfferInv, Asked
  <2> QED BY <1>3, <1>7, <2>1, <2>2
<1>8. ASSUME NEW q \in Request,
             \/ ReadFails(q) \/ FreeSlots(q) \/ ValidateSlot(q) \/ CreateConflict(q)
             \/ PostFails(q) \/ Reschedule(q) \/ RescheduleRefused(q)
             \/ WorkingHours(q) \/ ServiceDuration(q) \/ Available(q)
             \/ AvailableFails(q)
      PROVE  ValidInv'
  <2>1. ask' = ask /\ seen' = seen
    BY <1>8 DEF ReadFails, FreeSlots, ValidateSlot, CreateConflict, PostFails,
       Reschedule, RescheduleRefused, WorkingHours, ServiceDuration, Available,
       AvailableFails
  <2>2. \E code \in Codes \ {"created"} : \E starts : Finish(q, code, starts)
    <3>1. CASE ReadFails(q) \/ CreateConflict(q) \/ PostFails(q) \/ RescheduleRefused(q)
               \/ AvailableFails(q)
      BY <3>1 DEF ReadFails, CreateConflict, PostFails, RescheduleRefused,
         AvailableFails, Codes
    <3>2. CASE Reschedule(q) \/ ServiceDuration(q)
      BY <3>2 DEF Reschedule, ServiceDuration, Codes
    <3>3. CASE FreeSlots(q) \/ WorkingHours(q) \/ Available(q)
      BY <3>3 DEF FreeSlots, WorkingHours, Available, Codes
    <3>4. CASE ValidateSlot(q)
      <4>1. \A d, w, a : validateSlot(ask[q].start, d, w, a) \in Codes \ {"created"}
        BY DEF validateSlot, Codes
      <4> QED BY <3>4, <4>1 DEF ValidateSlot
    <3> QED BY <1>8, <3>1, <3>2, <3>3, <3>4
  <2> QED BY <1>7, <2>1, <2>2
<1>9. ASSUME NEW q \in Request, List(q) \/ ListFails(q) PROVE ValidInv'
  <2>1. ask' = ask /\ seen' = seen /\ pc[q] = "list"
    BY <1>9 DEF List, ListFails
  <2>2. CASE Finish(q, "available", {})
    BY <1>7, <2>1, <2>2 DEF Codes
  <2>3. CASE pc' = [pc EXCEPT ![q] = "read"] /\ answer' = answer
    BY <1>2, <2>1, <2>3 DEF ValidInv, Asked
  <2> QED BY <1>9, <2>2, <2>3 DEF List, ListFails, LookFor
<1>10. CASE EditSchedule \/ EditService \/ EditRecords \/ UpdateAppointment
           \/ UNCHANGED vars
  <2>1. pc' = pc /\ ask' = ask /\ seen' = seen /\ answer' = answer
    BY <1>10 DEF EditSchedule, EditService, EditRecords, UpdateAppointment, Edit, vars
  <2> QED BY <1>2, <2>1 DEF ValidInv
<1> QED BY <1>4, <1>5, <1>6, <1>8, <1>9, <1>10 DEF Next

\* Nobody asks for an appointment that is longer than a service can last.
AgreedLengths == \A duration \in Durations, len \in SeanceLengths : len <= duration

\* Validation takes the service's duration, the record the length of the
\* request: what passed fits a shift, and the appointments, that were read.
LEMMA FitsWhatWasRead ==
  ASSUME AgreedLengths, TypeOK, Asked, NEW q \in Request,
         ask[q].tool = "create", Validated(q)
  PROVE  /\ ask[q].start \in Int /\ ask[q].seance_length \in Nat
         /\ \E s \in workingSlots(q) :
              s.start <= ask[q].start /\ ask[q].start + ask[q].seance_length <= s.end
         /\ \A a \in appointments(q) :
              ask[q].start + ask[q].seance_length <= a.start \/ a.end <= ask[q].start
<1>1. ask[q] \in Params /\ SeenTyped(q)
  BY TypeParts DEF Unasked
<1>2. /\ ask[q].start \in Int /\ ask[q].seance_length \in SeanceLengths
      /\ ask[q].seance_length \in Nat
      /\ ask[q].staff \in Staff /\ ask[q].service \in Service
  BY <1>1, BookingAssumption DEF Params
<1>3. PICK duration : duration = durationToUse(q)
  OBVIOUS
<1>4. duration \in Nat /\ ask[q].seance_length <= duration
  <2>1. listed(q) \in Durations \cup {NoDuration}
    BY <1>1, <1>2 DEF listed, getServiceDuration, SeenTyped
  <2>2. CASE listed(q) = NoDuration
    BY <1>2, <1>3, <2>2 DEF durationToUse
  <2>3. CASE listed(q) # NoDuration
    BY <1>2, <1>3, <2>1, <2>3, BookingAssumption DEF durationToUse, AgreedLengths
  <2> QED BY <2>2, <2>3
<1>5. \A s \in workingSlots(q) : s.start \in Int /\ s.end \in Int
  BY <1>1, <1>2, ShiftsAreInts DEF workingSlots, SeenTyped
<1>6. \A a \in appointments(q) : a.start \in Int /\ a.end \in Int
  <2>1. \A r \in seen[q].records : r.start \in Int /\ r.len \in Int
    <3>1. \A r \in Record : r.start \in Starts /\ r.len \in Durations \cup SeanceLengths
      BY DEF Record
    <3>2. \A r \in seen[q].records : r \in Record
      BY <1>1 DEF SeenTyped
    <3>3. /\ Starts \subseteq Int
          /\ Durations \subseteq Nat \ {0} /\ SeanceLengths \subseteq Nat \ {0}
      BY BookingAssumption
    <3>4. ASSUME NEW r \in Record PROVE r.start \in Int /\ r.len \in Int
      <4>1. r.start \in Starts /\ (r.len \in Durations \/ r.len \in SeanceLengths)
        BY <3>1
      <4>2. r.start \in Int /\ r.len \in Nat
        BY <3>3, <4>1
      <4> QED BY <4>2
    <3> QED BY <3>2, <3>4
  <2> QED BY <2>1 DEF appointments, parseAppointmentIntervalsForStaff
<1>7. /\ InShift(ask[q].start, ask[q].start + duration, workingSlots(q))
      /\ ~Overlaps(ask[q].start, ask[q].start + duration, appointments(q))
  BY <1>3 DEF Validated, validateSlot
<1>8. \E s \in workingSlots(q) :
        s.start <= ask[q].start /\ ask[q].start + ask[q].seance_length <= s.end
  BY <1>2, <1>4, <1>5, <1>7 DEF InShift
<1>9. \A a \in appointments(q) :
        ask[q].start + ask[q].seance_length <= a.start \/ a.end <= ask[q].start
  BY <1>2, <1>4, <1>6, <1>7 DEF Overlaps
<1> QED BY <1>2, <1>8, <1>9

LEMMA ValidInvCorrect == Spec => []ValidInv
<1>1. Init => ValidInv
  BY DEF Init, ValidInv, Unanswered
<1>2. Asked /\ OfferInv /\ ValidInv /\ [Next]_vars => ValidInv'
  BY ValidStep
<1> QED BY <1>1, <1>2, AskedCorrect, OfferInvCorrect, PTL DEF Spec

\* What is created fits the shift and the appointments that were read if no
\* request asks for more than the service lasts. Run booking_length shows that
\* the assumption is needed.
THEOREM CreationsFit == AgreedLengths => (Spec => []CreatedFits)
<1> SUFFICES ASSUME AgreedLengths PROVE Spec => []CreatedFits
  OBVIOUS
<1>1. TypeOK /\ Asked /\ ValidInv => CreatedFits
  <2> SUFFICES ASSUME TypeOK, Asked, ValidInv, NEW q \in Request,
                      answer[q].code = "created"
               PROVE  LET end == ask[q].start + ask[q].seance_length
                      IN /\ \E s \in workingSlots(q) : s.start <= ask[q].start /\ end <= s.end
                         /\ \A a \in appointments(q) : end <= a.start \/ a.end <= ask[q].start
    BY DEF CreatedFits
  <2>1. ask[q].tool = "create" /\ Validated(q)
    BY DEF ValidInv
  <2> QED BY <2>1, FitsWhatWasRead
<1> QED BY <1>1, BookingTypeCorrect, AskedCorrect, ValidInvCorrect, PTL

-----------------------------------------------------------------------------
\* While q is on its way what has stood is still there, and once the
\* appointments are read it is among them; a create posts only after that.
Beside(q) ==
  /\ pc[q] # "done" => stood[q] \subseteq records
  /\ "records" \notin unread[q] => stood[q] \subseteq seen[q].records
  /\ pc[q] = "post" \/ answer[q].code = "created" => unread[q] = {}

BesideInv == \A q \in Request : Beside(q)

LEMMA BesideStep ==
  ASSUME TypeOK, Asked, OfferInv, Shaped, BesideInv, [Next]_vars
  PROVE  BesideInv'
<1>0. stood \in [Request -> SUBSET Record]
  BY DEF TypeOK
<1> DEFINE Held(d) == stood'[d] = IF pc[d] = "done" THEN stood[d]
                                                    ELSE stood[d] \cap records'
           Kept(d) == stood'[d] = stood[d] /\ records \subseteq records'
           Still(d) == /\ seen'[d].records = seen[d].records
                       /\ unread'[d] = unread[d] /\ pc'[d] = pc[d] /\ answer'[d] = answer[d]
<1>1. ASSUME NEW d \in Request, Held(d) \/ Kept(d),
             seen'[d].records = seen[d].records, unread'[d] = unread[d],
             pc[d] = "done" => pc'[d] = "done",
             pc'[d] = "post" \/ answer'[d].code = "created" =>
               unread[d] = {} \/ pc[d] = "post" \/ answer[d].code = "created"
      PROVE  Beside(d)'
  BY <1>1 DEF BesideInv, Beside
<1>2. ASSUME NEW d \in Request, Held(d) \/ Kept(d), Still(d) PROVE Beside(d)'
  BY <1>1, <1>2
<1>3. ASSUME NEW q \in Request, Call(q) PROVE BesideInv'
  <2>1. PICK params \in Params :
          /\ ask' = [ask EXCEPT ![q] = params]
          /\ unread' = [unread EXCEPT ![q] = PartsOf(params.tool)]
          /\ pc' = [pc EXCEPT ![q] = CASE params.tool = "reschedule" -> "move"
                                       [] params.tool = "available" -> "list"
                                       [] OTHER -> "read"]
          /\ stood' = [stood EXCEPT ![q] = IF params.tool = "create" THEN records ELSE {}]
    BY <1>3 DEF Call
  <2>2. records' = records /\ seen' = seen /\ answer' = answer /\ pc[q] = "new"
    BY <1>3 DEF Call
  <2>3. ASSUME NEW d \in Request, d # q PROVE Beside(d)'
    BY <1>0, <1>2, <2>1, <2>2, <2>3 DEF Shaped, Asked
  <2>4. pc'[q] # "post" /\ answer'[q].code # "created"
    <3>1. answer[q] = Unanswered
      BY <2>2 DEF OfferInv
    <3> QED BY <2>1, <2>2, <3>1 DEF Asked, Unanswered
  <2>5. stood'[q] = IF params.tool = "create" THEN records ELSE {}
    BY <1>0, <2>1
  <2>6. params.tool = "create" => "records" \in unread'[q]
    BY <2>1 DEF Shaped, PartsOf, Parts
  <2>7. Beside(q)'
    BY <2>2, <2>4, <2>5, <2>6 DEF Beside
  <2> QED BY <2>3, <2>7 DEF BesideInv
<1>4. ASSUME NEW q \in Request, Read(q) PROVE BesideInv'
  <2>0. PICK part \in Parts :
          \E value : Sees(q, part, value) /\ (part = "records" => value = records)
    BY <1>4 DEF Read, Parts
  <2>1. PICK value : Sees(q, part, value) /\ (part = "records" => value = records)
    BY <2>0
  <2>2. /\ pc[q] = "read" /\ pc' = pc /\ answer' = answer
        /\ records' = records /\ stood' = stood
        /\ unread' = [unread EXCEPT ![q] = @ \ {part}]
        /\ seen' = [seen EXCEPT ![q] = [@ EXCEPT ![part] = value]]
        /\ \A d \in Request \ {q} : seen'[d] = seen[d] /\ unread'[d] = unread[d]
    BY <2>1 DEF Sees, crm
  <2>3. ASSUME NEW d \in Request, d # q PROVE Beside(d)'
    BY <1>2, <2>2, <2>3 DEF Shaped
  <2>4. seen'[q] = [seen[q] EXCEPT ![part] = value] /\ unread'[q] = unread[q] \ {part}
    BY <2>2 DEF Shaped
  <2>5. pc'[q] = "read" /\ answer'[q].code # "created"
    BY <2>2 DEF OfferInv, Unanswered
  <2>6. DOMAIN seen[q] = Parts
    BY DEF Shaped
  <2>7. /\ stood[q] \subseteq records /\ stood'[q] = stood[q]
        /\ "records" \notin unread[q] => stood[q] \subseteq seen[q].records
    BY <2>2 DEF BesideInv, Beside
  <2>8. "records" \notin unread'[q] => stood'[q] \subseteq seen'[q].records
    <3>1. CASE part = "records"
      <4>1. seen'[q].records = records
        BY <2>1, <2>4, <2>6, <3>1 DEF Parts
      <4> QED BY <2>7, <4>1
    <3>2. CASE part # "records"
      <4>1. seen'[q].records = seen[q].records
        BY <2>4, <2>6, <3>2 DEF Parts
      <4> QED BY <2>4, <2>7, <3>2, <4>1
    <3> QED BY <3>1, <3>2
  <2>9. Beside(q)'
    BY <2>2, <2>5, <2>7, <2>8 DEF Beside
  <2> QED BY <2>3, <2>9 DEF BesideInv
<1>5. ASSUME NEW q \in Request, Scan(q) PROVE BesideInv'
  <2>1. PICK m \in scan[q].masters : seen' = [seen EXCEPT ![q].schedule[m] = schedule[m]]
    BY <1>5 DEF Scan
  <2>2. \A d \in Request : seen'[d].records = seen[d].records
    BY <2>1 DEF Shaped, Parts
  <2>3. /\ records' = records /\ stood' = stood /\ unread' = unread /\ pc' = pc
        /\ answer' = answer
    BY <1>5 DEF Scan, crm
  <2> QED BY <1>2, <2>2, <2>3 DEF BesideInv
<1>6. ASSUME NEW q \in Request, seen' = seen, unread' = unread, records \subseteq records',
             stood' = stood, pc[q] # "done",
             \A d \in Request \ {q} : pc'[d] = pc[d] /\ answer'[d] = answer[d],
             pc'[q] = "post" \/ answer'[q].code = "created" =>
               unread[q] = {} \/ pc[q] = "post"
      PROVE  BesideInv'
  BY <1>1, <1>2, <1>6 DEF BesideInv
<1>7. ASSUME NEW q \in Request, Decide(q) \/ Create(q) PROVE BesideInv'
  <2>1. /\ seen' = seen /\ unread' = unread /\ records \subseteq records' /\ stood' = stood
        /\ pc[q] = "post" \/ (pc[q] = "read" /\ unread[q] = {})
    BY <1>7 DEF Decide, Create, AllRead, crm
  <2>2. \A d \in Request \ {q} : pc'[d] = pc[d] /\ answer'[d] = answer[d]
    BY <1>7 DEF Decide, Create, Asked, OfferInv
  <2> QED BY <1>6, <2>1, <2>2
<1>8. ASSUME NEW q \in Request,
             \/ ReadFails(q) \/ FreeSlots(q) \/ ValidateSlot(q) \/ CreateConflict(q)
             \/ PostFails(q) \/ RescheduleRefused(q) \/ WorkingHours(q)
             \/ ServiceDuration(q) \/ List(q) \/ ListFails(q) \/ Available(q)
             \/ AvailableFails(q)
      PROVE  BesideInv'
  <2>1. /\ seen' = seen /\ unread' = unread /\ records' = records /\ stood' = stood
        /\ pc[q] # "done"
    BY <1>8 DEF ReadFails, FreeSlots, ValidateSlot, CreateConflict, PostFails,
       RescheduleRefused, WorkingHours, ServiceDuration, List, ListFails, Available,
       AvailableFails, AllRead, crm
  <2>2. \A d \in Request \ {q} : pc'[d] = pc[d] /\ answer'[d] = answer[d]
    BY <1>8 DEF ReadFails, FreeSlots, ValidateSlot, CreateConflict, PostFails,
       RescheduleRefused, WorkingHours, ServiceDuration, List, ListFails, LookFor,
       Available, AvailableFails, Asked, OfferInv
  <2>3. pc'[q] # "post" /\ answer'[q].code # "created"
    <3>1. CASE pc' = [pc EXCEPT ![q] = "read"] /\ answer' = answer
      BY <2>1, <3>1 DEF Asked, OfferInv, Unanswered
    <3>2. ASSUME NEW code \in Codes \ {"created"}, NEW starts, Finish(q, code, starts)
          PROVE  pc'[q] # "post" /\ answer'[q].code # "created"
      BY <3>2 DEF Asked, OfferInv
    <3>3. CASE List(q) \/ ListFails(q)
      BY <3>1, <3>2, <3>3 DEF List, ListFails, LookFor, Codes
    <3>4. CASE \/ ReadFails(q) \/ CreateConflict(q) \/ PostFails(q) \/ RescheduleRefused(q)
               \/ AvailableFails(q) \/ ServiceDuration(q)
      BY <3>2, <3>4 DEF ReadFails, CreateConflict, PostFails, RescheduleRefused,
         AvailableFails, ServiceDuration, Codes
    <3>5. CASE FreeSlots(q) \/ WorkingHours(q) \/ Available(q)
      BY <3>2, <3>5 DEF FreeSlots, WorkingHours, Available, Codes
    <3>6. CASE ValidateSlot(q)
      <4>1. \A t, w, a : validateSlot(ask[q].start, t, w, a) \in Codes \ {"created"}
        BY DEF validateSlot, Codes
      <4> QED BY <3>2, <3>6, <4>1 DEF ValidateSlot
    <3> QED BY <1>8, <3>3, <3>4, <3>5, <3>6
  <2> QED BY <1>6, <2>1, <2>2, <2>3
<1>9. ASSUME NEW q \in Request, Reschedule(q) PROVE BesideInv'
  <2>1. /\ seen' = seen /\ unread' = unread /\ pc[q] = "move"
        /\ \A d \in Request : Held(d)
    BY <1>9 DEF Reschedule, Forget
  <2>2. \A d \in Request \ {q} : pc'[d] = pc[d] /\ answer'[d] = answer[d]
    BY <1>9 DEF Reschedule, Asked, OfferInv
  <2>3. pc'[q] = "done" /\ answer'[q].code \in {"rescheduled", "error"}
    BY <1>9 DEF Reschedule, Asked, OfferInv
  <2>4. Beside(q)'
    BY <1>1, <2>1, <2>3
  <2>5. ASSUME NEW d \in Request, d # q PROVE Beside(d)'
    BY <1>2, <2>1, <2>2, <2>5
  <2> QED BY <2>4, <2>5 DEF BesideInv
<1>10. CASE EditSchedule \/ EditService \/ UNCHANGED vars
  <2>1. /\ seen' = seen /\ unread' = unread /\ pc' = pc /\ answer' = answer
        /\ records' = records /\ stood' = stood
    BY <1>10 DEF EditSchedule, EditService, Edit, vars, crm
  <2> QED BY <1>2, <2>1 DEF BesideInv
<1>11. CASE EditRecords \/ UpdateAppointment
  <2>1. /\ seen' = seen /\ unread' = unread /\ pc' = pc /\ answer' = answer
        /\ \A d \in Request : Held(d)
    BY <1>11 DEF EditRecords, UpdateAppointment, Edit, Forget
  <2> QED BY <1>2, <2>1 DEF BesideInv
<1> QED
  BY <1>3, <1>4, <1>5, <1>7, <1>8, <1>9, <1>10, <1>11 DEF Next

\* What a create posts overlaps no record of the master that has stood, as it
\* is, since before the request was made, however the reads of the handlers
\* interleave with each other, with moves and with edits, if no request asks
\* for more than the service lasts.
THEOREM CreationsStandBeside == AgreedLengths => (Spec => []CreatedBeside)
<1> SUFFICES ASSUME AgreedLengths PROVE Spec => []CreatedBeside
  OBVIOUS
<1>1. Init => BesideInv
  BY DEF Init, BesideInv, Beside, Unanswered
<1>2. TypeOK /\ Asked /\ OfferInv /\ ScanInv /\ BesideInv /\ [Next]_vars => BesideInv'
  BY BesideStep DEF ScanInv
<1>3. TypeOK /\ Asked /\ ValidInv /\ BesideInv => CreatedBeside
  <2> SUFFICES ASSUME TypeOK, Asked, ValidInv, BesideInv, NEW q \in Request,
                      pc[q] = "post" \/ answer[q].code = "created",
                      NEW r \in stood[q], r.staff = ask[q].staff
               PROVE  Apart(Posted(q), r)
    BY DEF CreatedBeside
  <2>1. ask[q].tool = "create" /\ Validated(q)
    BY DEF ValidInv
  <2>2. r \in seen[q].records
    BY DEF BesideInv, Beside
  <2>3. [start |-> r.start, end |-> r.start + r.len] \in appointments(q)
    BY <2>2 DEF appointments, parseAppointmentIntervalsForStaff
  <2>4. \/ ask[q].start + ask[q].seance_length <= r.start
        \/ r.start + r.len <= ask[q].start
    BY <2>1, <2>3, FitsWhatWasRead
  <2> QED BY <2>4 DEF Apart, Posted
<1> QED
  BY <1>1, <1>2, <1>3, BookingTypeCorrect, AskedCorrect, OfferInvCorrect, ScanInvCorrect,
     ValidInvCorrect, PTL DEF Spec
=============================================================================
