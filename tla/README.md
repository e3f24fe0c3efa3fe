# Verification of the Altegio MCP gateway and orchestrator

TLA+ modules of the two TypeScript services that carry the logic of this
repository (`gateway/` and `orchestrator/`), TLC configurations that check them
on small instances, and TLAPS proofs of their main properties for every value
of the constants. Paths below are relative to the root of the repository.

1. [The system](#1-the-system)
2. [Modules and how they correspond to the code](#2-modules-and-how-they-correspond-to-the-code)
3. [Runs, bounds, and what they show](#3-runs-bounds-and-what-they-show)
4. [Fairness](#4-fairness)
5. [Theorems and how they are proved](#5-theorems-and-how-they-are-proved)
6. [What is only model-checked](#6-what-is-only-model-checked)
7. [What is not modelled](#7-what-is-not-modelled)
8. [What does not hold](#8-what-does-not-hold)
9. [Plan](#9-plan)

Tools: `tlc -config X.cfg M` for a run of section 3, `tlapm M_proofs.tla` for
the proofs of module M.

## 1. The system

A client writes on WhatsApp. `wa-service` forwards the message to the
orchestrator, which stores it, waits until the client has stopped typing, and
hands the messages that came together to an AI agent. The agent answers with a
decision, a text, and calls of tools; the tools are HTTP calls to the gateway,
which talks to the CRM (Altegio). What the agent may not decide goes to
administrators, who use Telegram and HTTP routes. Postgres keeps the state of
both services, Redis the rate limits of the gateway.

```
 WhatsApp -> wa-service -> ingest -> debounce -> processBatch -> AI
                 ^                                  |   |
                 +----------- replies --------------+   | POST /mcp
                                                        v
 administrators -- Telegram, HTTP --> orchestrator   gateway -> CRM
               \-- HTTP -------------------------------^
```

Both services are single node processes: handlers interleave at their
`await`s. Nothing runs in a transaction, so every query and every call is a
point at which something else may happen, at which the process may die, and
after which what was read is old.

### Components

| Component | State | Operations | What is hard | What makes it correct |
|---|---|---|---|---|
| **Approvals and two-phase apply** `gateway/src/approvals`, `policy`, `mcp/router.ts`, cancel and payroll tools | tables `approval_policies`, `approvals`, `idempotency_keys` | plan, apply, alias of apply, approve, set policy | policy, approval and key are each read some awaits before they count; the CRM may act on a call that was given up; retries; crashes | no effect without authorisation; one effect per key; an ok or a stored answer stands for an effect; keys settle |
| **An /mcp call** `gateway/src/routes/mcp.ts`, `audit/writeMcpRequest.ts` | a row of `mcp_requests`; the handler and the operation it races against a timer | create the row, check the rate, run the tool, time out, record, answer | after the timer has won, two threads write one row; each write may fail, or fail after it took effect | row, tool and answer agree; every call is answered and its row closed |
| **CRM client** `gateway/src/altegio/client.ts`, `rateLimit.ts` | a token bucket; a deadline per call | queue for a token, fetch, abort, write the audit row | callers poll one counter; the refill is on a clock of its own; the deadline runs while the call queues | bounded rate; every call ends |
| **Booking tools** `gateway/src/altegio/slots.ts`, seven tools of `mcp/tools/crm` | none; the CRM's schedule, records and services | free slots, validate, create, reschedule, availability, working hours, duration | the CRM is read in several calls while masters, clients and administrators edit it; boundaries of shifts and appointments; time zones | what is created stands beside what stood before; an offer is accepted; refused means nothing was made |
| **Limit per agent** `gateway/src/rateLimit` | buckets in Redis or memory | connect, check | read and write are two commands; a fallback to a bucket that knows nothing of the other | bounded rate per agent; who waits as told is let through |
| **Configuration** `gateway/src/config/resolver.ts` | a cache with a time to live | get, refresh the time to live | concurrent loads; stale entries; the time to live is a row itself | an edit is seen within a time to live |
| **Conversation and handoff tools** `gateway/src/mcp/tools/conversation`, `handoff` | `conversation_messages`, `handoff_cases` (audit copy) | append messages, create case | select, then insert, per message, in a table that the orchestrator writes too | no duplicate |
| **Intake** `orchestrator/src/routes/ingest.ts`, `services/messageStore.ts`, `ignoreList.ts`, `debounce.ts` | `conversation_messages`, `agent_ignore_phones`, buffers and timers in memory | receive, store, filter, buffer, fire, hand over | overlapping and repeated deliveries; timers that race with messages; crashes | a message with an id is stored once; a delivery is handed over once; a buffer closes in time |
| **Batch** `orchestrator/src/services/agentProcessor.ts`, `conversation.ts`, `handoff.ts`, `telegram/bot.ts` | `conversations.state`, `handoff_cases`, `pending_admin_actions`, policies and overrides | process a batch, hand off, takeover, pause, resume, ignore, set rules | the AI and the tools take seconds, in which other batches run and administrators act; a handoff is five writes in a row | an acknowledged or paused client has an open case; a confirmation has an answered booking behind it; every batch is answered |
| **Reminders** `orchestrator/src/workers/reminder.ts`, `services/handoff.ts` | `pending_admin_actions`, the chain of timers | remind, count | message and count are two steps; a round takes time; a worker that dies of an exception | every open action is brought up, in time, spaced, and as often as is counted |
| **Scheduling** `orchestrator/src/services/deterministicScheduling.ts`, `bookingContext.ts` | none | read a day out of a text, ask for free times, look at the following days | up to seven calls one after the other while calendars change; failures that look like empty days; weekdays | the day is the one meant; offers were free; refusals were true |
| **WhatsApp service** `wa-service/src` | the session | forward, send | no retry | — |

Texts and classification (`intent`, `localization`, `prompts`, `writer`,
specialists), tables that nothing modelled reads (`kb`, diagnostics, reviews)
and `admin-ui` have no state that interacts with the above.

They interact by HTTP (wa-service to ingest, `callMcp` to `/mcp`, sends to
wa-service), by shared tables (`conversations.state` between batches and
administrators; `approvals` between plan, approve and apply), and by callbacks
(timers of the debounce buffer and of `/mcp`).

## 2. Modules and how they correspond to the code

One action is what a handler does between two awaits, or a group of awaits
whose order nothing tells apart (named in the module). What a handler has read
stays in variables of its own until it is used. A definition whose comment
starts with "Mutant" is a plausible bug of the definition that follows it and
not part of any specification: replaced for it, a property fails.

| Module | What it is |
|---|---|
| `TwoPhaseApply` | plan, apply and alias, approve and set policy, the CRM |
| `GuardedEffects` | abstract: an effect only after a grant or a waiver |
| `OncePerKey` | abstract: an effect per key, and everybody is answered with it |
| `McpRequest` | the life of one `POST /mcp` |
| `CrmClient` | token bucket, queue and deadline of `doRequest` |
| `Slots` | the arithmetic of `slots.ts`, as operators |
| `Booking` | the tools that use `Slots`, and the CRM that others edit |
| `Intake` | ingest route, message store, debounce buffer; the gateway's `append_messages` |
| `HandOver` | abstract: accepted messages are handed over once, in bounded batches of a conversation |
| `AgentBatch` | `processBatch` and the administrators' commands |
| `ConfigCache` | `getConfig`: a cache in front of `admin_config` |
| `AgentLimit` | `checkAgentRateLimit`, on top of `ConfigCache` |
| `Reminders` | the reminder worker, its timers and restarts |
| `Scheduling` | the deterministic answer to a wish for a day |
| `MC*` | values of the constants for TLC |
| `*_proofs` | theorems; `AgentBatch_proofs` holds those of `Scheduling`, too |

Composition: `Booking` EXTENDS `Slots`; `AgentLimit` EXTENDS `ConfigCache`, whose
calls are the first thing its checks do; `Intake` has two processes that write
one table; `TwoPhaseApply` and `Intake` instantiate their abstract modules. Otherwise the modules meet at an interface,
where each leaves the other's part as a free choice: `McpRequest` lets a tool
return, throw or hang, which is what `TwoPhaseApply` and `Booking` do in detail;
those let a CRM call fail at any time, which `CrmClient` details; `Intake` hands
a batch over and `AgentBatch` starts with one; `AgentBatch` lets a gateway call
be answered with and without a booking, or throw, and a wish be answered by
`Scheduling`; that asks the tools of `Booking` for what they may have read;
`McpRequest` takes the verdict of `AgentLimit` as a free choice.

**TwoPhaseApply.** `pc[r]` is the await of tool call r: `details` (the alias reads
the approval), `policy`, `approval`, `preview` (the payroll plan's call of the
CRM), `create`, then `executeWithIdempotency`: `select`, `insert`, `call`, `reply`,
`complete` or `fail`, and `link` (`linkApprovalApply`). `keys[k]` and
`approvals[a]` are rows; the stored body of a key is the request whose answer it
holds. `upstream[r]` is what the CRM did with r's call, which goes on after
`LoseReply` (abort timer, broken connection, or the audit insert in the
`finally`). `everWaived` is a history variable. A call ends `ok`, `error`, `thrown`
(a query failed) or `lost` (the process died). `Overlap = FALSE` assumes of
clients that no two live calls carry one key; only the theorems on `OncePerKey`
need it. That a key is used for one action and target is a premise of
`OkMeansApplied`, per key (`OneOperation`).

**McpRequest.** `main[r]` is the handler, `op[r]` the `operationPromise`; both write
`row[r]`. The race is lost once `main` has left `race`; the timer is never
cleared but then has no effect. A query may throw without effect (`dbError`) or
after it (`dbLost`). The limiter is a free choice.

**CrmClient.** A tick is the 50 ms for which `acquire` sleeps. Timers are urgent: the
refill, the sleepers and the deadlines that are due run, in any order, before
time goes on. An expired call that gets a token spends it and then throws, as
`fetch` does with an aborted signal.

**Slots, Booking.** Instants and local times are ticks of one day; `Hour` is the
length of an hour. A schedule is a set of rows with a day, a flag and slots.
A tool reads the CRM with `Promise.all`, whose calls are answered in any order
(`Read`); what it read stays in `seen[q]`. `get_availability_for_date` reads
records and services first and then one schedule after another (`Scan`).
Nothing is assumed of the CRM, which is not in this repository: it may accept or refuse
any create and any reschedule, whatever stands in its calendar (`Create` or
`CreateConflict`, `Reschedule` or `RescheduleRefused`). A reschedule reads and validates nothing.
`UpdateAppointment` is `admin.update_appointment_services` and the CRM's own screens.
`stood[q]` is history: the records that stood when a create came in and that nobody has moved or
deleted until it was answered.

**Intake.** `pending[c]` is the entry of the map, `list[d]` the array that delivery
d created (arrays and timers outlive entries of the map, because the closures of
`debounce.ts` hold them), `timers` the timers that run. Time is relative: a
buffer has an age, a timer the time left. Buffers are keyed by conversation and
share nothing. `Ided` are the messages that carry a `provider_message_id`; the unique index is
about those only, while the select before an insert looks for the others, too (by time and text
hash). `copier` and `at` are a call of the gateway's
`conversation.append_messages` with the messages `Copied`; it selects and inserts
one message after the other, while the orchestrator does the same.

**AgentBatch.** All batches of one conversation. `pc[b]` runs through state and
override, policy, context, AI, tool calls, reply or handoff (`case`, `pending`,
`pause`, acknowledgement, the gateway's copy of the case, reply). A message is
known by its kind: `confirms` is one for which `replyLooksConfirmed` is true, `Forwarded` are
those that tell the client that the request was forwarded to the team (`handoff_ack`, after the
case; `booking_failed` and `not_confirmed`, before it). The
AI's answer is any member of `Answer`. The guard of reply quality may always put
the generic reply in place of the AI's. `create` is `create_appointment`; other
tools have no effect that a property sees. A crash loses the batches in work;
those still `queued` stand for later arrivals.

**ConfigCache, AgentLimit.** `at[c]` is the await of a call of `getConfig`, for one key; a
row is known by the number of edits it has seen (`row`, `ttlRow`), so that how old a
value is can be told. `now` is taken at the start of a call and decides over the
entry found at its end. A check (`pc[c]`) reads its configuration, connects to Redis if
it is the first, and spends a token of the bucket in Redis (`HGetAll`, then `HSet`)
or in memory (one step). A bucket counts in units of a token divided by
`Minute`, so that both refills are whole numbers. `verdict`, `via`, `decided`, `missed`,
`lost` and `owed` are history: which check was let through by which bucket and when,
which writes came after a check's read, whose token was given back by the write of an
older read, and until when a refusal told its caller to wait. That promise ends when
somebody takes a token, or when an older read's write puts back the bucket of an earlier moment. *Left out*: keys of Redis expire after two minutes, when
a bucket is full anyway (as long as `burst` is at most 120 times `rps`); rates and
key mode are constants, and positive.

**Reminders.** A tick is a minute. An action has an age since its last reminder, or
since its creation without one; the timer runs from the end of a round. `slow`
counts the ticks that a round waits for Postgres and Telegram. What a round throws is
an unhandled rejection: node ends the process and docker starts it again
(`restart: unless-stopped`), which is `Die` and `Restart`. `asked`, `gap`, `overdue` and `kept` are
history. No row has an approval (nothing in the program creates one with it), so
`/approve` and `/reject` close none and all stay open.

**Scheduling.** `stage` is the await of the reply. A text is a record of what the two parsers tell apart in it: phrases,
a weekday, "next", a date; the phrases are searched in the order of the code's
table. Days are counted from the requested one. `calendar[i]` is day i at the CRM;
a call is answered with what its queries may have read, each at a moment of its own while
the call was under way (`during`), or for the master of the configuration only (the
gateway's fallback), or for nobody, which is how a failure and a denial look to
the caller. `reply.staff` is the master who was asked about, `masterName` the one whom the text
of the reply names. `was` and `missed` are history.

## 3. Runs, bounds, and what they show

All runs together fire every action of every module. `CHECK_DEADLOCK FALSE` is
set where the handlers of a finite set of requests end. All safety properties are also proved (section 5);
the type invariants that were proved before a run needed them are not checked again.

| Run | Bounds | States | Properties | Shows |
|---|---|---|---|---|
| `apply` | 2 overlapping calls, 1 key, 2 approvals, 2 targets; crash, lost reply, refusal, failing query; fairness | 632 k | `EffectsAreAuthorised`, `StoredAnswerIsReal`, `OkMeansApplied`, `AliasHitsPlannedTarget`, `ImplementsGuardedEffects`, `PendingKeySettles` | whatever overlaps and fails: no cancellation or salary run without a granted approval of that action (or, for the payroll, a waiver), no alias that cancels another appointment than the planned one, no answer "ok" and no COMPLETED key without the effect; keys settle unless their call was cut |
| `apply_key_overlap` | 2 calls | violated | `AppliedAtMostOnce` | two overlapping calls with one key both reach the CRM (8) |
| `mcp_calls` | 2 calls, timer on; crash, failing and half-failing queries; fairness | 24 k | `AnswersAreRecorded`, `AuditMatchesTool`, `EveryCallEnds` | answer, row and tool agree; every call is answered although a tool may hang |
| `agent_limit` | 3 checks of 1 agent, 1 edit of the key and of the time to live, 5 clock values; failing query, failing Redis | 852 k | `TypeOK`, `BoundedStaleness`, `AdmittedWithinRates`, `RetryAfterIsEnough` | no cached value is older than a time to live; each bucket keeps both rates but for tokens that overlapping writes give back; a caller who waits as told finds a token, if no older write has replaced the bucket |
| `crm_calls` | 3 calls, bucket of 1, refill after 2 ticks, deadline after 3; failing CRM and audit; fairness | 119 k | `AtMostTwoBuckets`, `BucketBalance`, `EveryCallEnds` | never more than a bucket between refills nor two in any interval; every call ends |
| `booking` | 2 requests of 7 tools, 2 masters, 2 schedules, 1 service of 3 ticks, 2 starts, 1 edit by others; failing calls, lost answers | 1.7 M | `TypeOK`, `CreatedBeside`, `RefusedMadeNothing`, `OfferHolds`, `SomebodyIsFree`, `CreatedFits` | see the properties; with the body's seance length equal to the service's |
| `booking_length` | 1 request, service of 1 tick, seance of 2 | violated | `CreatedFits` | booked past the end of the shift (8) |
| `intake` | 3 deliveries of 2 messages (one repeated) beside a call of `append_messages` with both, 1 chat, one message with an id and one without, debounce 2, quiet 1, total 3, buffer 3; crash, failing query; fairness | 66 k | `OneTimerPerBuffer`, `ClosesOnTime`, `StoredOnce`, `ImplementsHandOver`, `EveryMessageHanded` | buffers and timers stay paired; messages with an id are stored once, by either service, all before they are handed over, once or lost with the process |
| `batch` | 1 batch, 8 answers, all 8 policies, with and without an AI key; crash, failing query, failing fetch, refused message; fairness | 637 k | `HandOffIsHeld`, `FailedBookingIsOpen`, `ConfirmedIsAnswered`, `EveryBatchAnswered` | an acknowledged client and a paused bot have an open case and pending action, and so has who was told of the forwarding earlier when the batch ends; confirmations follow answered calls; every batch and every case reaches the client |
| `batch_denied` | 1 batch, no faults | violated | `ConfirmedIsBooked` | a DENY of the gateway counts as a booking (8) |
| `reminders` | 2 actions, first after 2, repeat 3, 2 reminders, rounds of up to 1 tick, 1 death; crash, failing query; fairness | 78 k | `CountsAreSent`, `RemindedInTime`, `RemindersAreSpaced`, `EveryActionIsBroughtUp` | see the properties |
| `scheduling` | 1 message of 21 kinds, 2 masters, 1 time a day, 2 days that follow, 4 kinds of day, 2 edits; failing calls; fairness | 1.2 M | `WishTypeOK`, `WeekdayIsMeant`, `OffersWereFree`, `RefusalsWereTrue`, `EveryWishAnswered` | the day is the one meant; offers were free with the master asked about; a client is only sent away when everything was seen taken or a call failed |

Why the bounds are enough:

- *Two-phase apply.* Two calls are an apply and its rival or retry, or an apply and the
  alias that shares its key or its approval; a plan is covered by what it leaves
  behind, approvals that administrators grant. Two targets are needed for an
  alias that names another appointment than the approval's. All of the safety
  properties are proved for any number of calls. Symmetry
  is on ids only, and only in runs without liveness.
- *McpRequest.* Calls share nothing, so that one shows every interleaving of the
  handler, its operation and its timer; the second makes crashes hit calls at
  different places.
- *CrmClient.* Three callers on a bucket of one are two that must queue, one of
  them past its deadline. `BucketBalance` and `AtMostTwoBuckets` are proved for all sizes.
- *Booking.* Two requests are an offer and a use of it, or two rivals. The
  schedules contain a day off, a row of another day, an inverted slot, a shift
  and a split shift; starts lie before, at the beginning and at the end
  of what fits. One edit may come between any two calls. `CreatedBeside` has its case: the first
  request creates, or somebody at the CRM does, and the second reads, validates and posts.
- *Intake.* Ratios of the times follow the seeds of migration 004 (quiet <
  debounce < total). Three deliveries open, extend and fill a buffer, or open
  the next one. The limit is at least two because the first message is
  pushed without a look at it (`IntakeAssumption`). One chat is enough since
  buffers are separate; the theorems are for any number. The repeated
  message has an id; the other has none and is stored by the copy, too.
- *AgentBatch.* One batch beside administrators who set any state, rule and policy at
  any moment takes every branch; eight answers and all policies are every
  combination the code looks at. The interleavings of several batches of a conversation
  are covered by the theorems, which are for any number, of all three safety properties. Calls
  of a list are at most two, one that books and one more.
- *AgentLimit.* Three checks are two that overlap in Redis and one that follows. The
  bucket of the rate per second holds one token, that of the minute two; a `Minute` of
  eight ticks makes the two rates differ. All four properties are proved for any number of checks, agents, edits and rates.
- *Reminders.* Actions only meet in the order of a round. `First` and `Repeat` differ, and each is longer
  than a round may take; with one death both sides of it are seen.
- *Scheduling.* The search over the following days is uniform, so that two stand for
  five; one time a day and two masters fill the limit of two slots. The kinds of text are
  every weekday's distance with and without "next", each phrase, a date, and masters named,
  known and unknown.

The bounds of the models themselves are `MaxEdits`, `MaxTtlEdits`, `MaxClock`, `MaxCalls`, `MaxDeaths`,
`SlowTicks`, and caps of ages that no property tells apart (`AgeCap`, `OverdueCap`); the rest are finite sets of calls and ids.

## 4. Fairness

- Handlers (`Handle`, `Step`, `WishStep`, `Acquires`, `Ends`): weak fairness. The event loop runs a
  continuation that is ready, and Postgres and Redis answer or fail. For
  `AgentBatch` this takes the AI, the gateway and wa-service to answer or fail:
  the orchestrator sets no deadline of its own, but node's `fetch` ends after
  five minutes and the gateway's calls end (`mcp_calls`).
- Timers (`Timeout`, `Fire`, `Refill`, `Tick`): weak fairness; node runs them. `Round` and
  `Restart` of the reminder worker: weak fairness; what a round waits for answers or
  throws, and docker restarts a process that has ended.
- `AgentLimit` has no liveness property and no fairness.
- `ReceiveReply \/ LoseReply` in `TwoPhaseApply`: the CRM call ends with an answer
  or the deadline. No fairness on the CRM (`UpstreamAnswers`, `Answered`), on a
  tool's return (`ToolReturns`), on clients or administrators.
- No fairness on faults or crashes. Liveness properties name the calls they
  excuse, those that a crash or an exception ended.

## 5. Theorems and how they are proved

Every theorem holds for every value of the constants that satisfies the
`ASSUME` of its module (distinct null values, types of constants, faults among
those that are modelled, times and sizes positive).

| Module | Theorem | Says |
|---|---|---|
| `TwoPhaseApply_proofs` | `TypeCorrect`, `EffectsAuthorised`, `StoredAnswer`, `OkIsApplied`, `AliasTarget`, `GuardRefinement`; `AtMostOnce`, `CompletedFinal`, `OnceRefinement` (serial) | types; authorisation of every effect; real answers, stored and given; an alias cancels what its approval was made for; refinement of `GuardedEffects`; one effect per key, finality, refinement of `OncePerKey` |
| `McpRequest_proofs` | `TypeCorrect`, `AnswersRecorded`, `AuditedTools` | answer, row and tool agree |
| `AgentLimit_proofs` | `CacheStaleness`, `LimitStaleness`; `LimitTypeCorrect`, `WithinRates`, `RetryAfterEnough` | the age of a configuration value, of the cache alone and below the limit; types; the rates of each bucket; a wait that is enough |
| `CrmClient_proofs` | `TypeCorrect`, `Balance`, `TwoBuckets` | a bucket between two refills, two in any interval |
| `Intake_proofs` | `TypeCorrect`, `BuffersAndTimers`, `BuffersCloseOnTime`, `MessagesStoredOnce`, `HandOverRefinement` | one timer per buffer; when buffers close; one row per message with an id, and one for each before it is handed over; refinement of `HandOver` |
| `AgentBatch_proofs` | `TypeCorrect`, `HandoffsAreOpen`, `Confirmations`, `FailuresAreOpen`; of `Scheduling`: `WishTypeCorrect`, `WeekdayMeant`, `OffersFree`, `RefusalsTrue` | `HandOffIsHeld`; `ConfirmedIsAnswered`; `FailedBookingIsOpen`; the day is the one meant, offers were free, refusals were true |
| `Booking_proofs` | `BookingTypeCorrect`, `AskedCorrect`, `OffersValidate`, `OffersHold`, `AvailabilityIsSomebodys`, `RefusalsMakeNothing`; `CreationsFit`, `CreationsStandBeside` (agreed lengths) | types; the offering loop and the validation agree; availability is somebody's; a refused request has made no record; what is created lies in a shift and beside what stood before |
| `Reminders_proofs` | `TypeCorrect`, `Spacing`, `Counts`, `InTimeAlways` | no action is counted past its limit; reminders keep their distance; what is counted was sent; what is due is brought up in time |

With these, every safety property, action property and refinement that a passing run
checks is also proved. The premises, other than the `ASSUME`s, are two. The
serial theorems of `TwoPhaseApply` assume no overlap and fewer faults (see below).
`CreationsFit` and `CreationsStandBeside` assume `AgreedLengths`: no body carries a `seance_length` longer than
the service it names; `booking_length` shows what happens without it.

Each is `Spec => []Inv` from an inductive strengthening. The arguments:

- **Authorisation.** `EffectsAreAuthorised` speaks of calls at the CRM; what makes it
  inductive (`AuthorisedInv`) is that a request that is *on its way* (past the
  approval check) is already cleared: by an approved approval of its action,
  or by a policy that was waived when it read it. Nothing revokes a grant
  (an APPROVED row is never written otherwise, only linked) and `everWaived` grows,
  so a stale read does no harm. The refinement maps an approval's status and the
  calls that were applied; every step is a step of `GuardedEffects` or a stutter.
- **One effect per key** (`AtMostOnce`). Assumes no overlap, no lost reply, no failing query, and
  either no crash or no refusal. `SerialInv`: the key's row records what the CRM
  has: a call that reached the CRM is still
  served, or its row is PENDING or COMPLETED, both of which stop every other call;
  so FAILED means that the CRM has refused. The last assumption is
  needed: with both, a retry of a FAILED key may die between the CRM and the
  update, and the row still says FAILED.
- **Ok means applied** (`OkIsApplied`). Needs no assumption on overlaps or faults. `AnswerInv`:
  a request past `executeWithIdempotency` holds a result that is an effect the CRM
  carried out for its key, its own or, from `StoredAnswer`, the one of a COMPLETED row; and the
  positions before the call belong to applies. A client that keeps its key for
  one operation (`OneOperation`) then has its own operation applied.
- **`OncePerKey`** (`OnceRefinement`). From `SerialInv`: the CRM's reply is `Apply`, the
  answer of a request, first or from the table, is `Answer`, and every other step a stutter.
- **The alias's target** (`AliasTarget`). The target is read from the approval several awaits before the
  call. `AliasInv`: from then on it is the one in the row; a row keeps the target it was
  created with, whoever approves or links it.
- **Staleness.** `ConfigInv`: an entry expires at most a time to live after the moment at
  which its value was last in the table, whichever time to live was in force when
  it was written; what a call has fetched was in the table when it began or
  later. The entry is compared with the `now` of the call's start, so that a slow
  query makes nothing older. `AgentLimit` adds calls that begin and return between; its other variables
  do not matter (`LimitStaleness` maps every step to a step of the cache, or a `Return`).
- **Rates** (`WithinRates`). `RateInv`: a counter of a bucket *covers* the checks that were let through by it.
  However far back one looks, what they have spent since, plus what the counter holds, is
  at most the cap plus the refill since then. A refill adds on both sides, a
  check moves one token from the counter to the spent. In Redis the same is said of the
  value that a check is about to write, for the checks whose writes it has seen
  (all but `missed`); what the write forgets is then `lost`, and excused. The process's bucket is one step, so that
  nothing is excused there. The products of rates and times are kept apart from the rest
  of the arithmetic (`Products`), since the SMT backend does not multiply variables.
- **Waiting** (`RetryAfterEnough`). `RetryInv`: the bucket, refilled up to the moment that a refusal has named,
  has a token for both rates (`Kept`), and a check that has missed no write since its
  read writes what it would read now (`UpToDate`). Refilling twice is refilling once
  (`RefillTwice`); the longer of the two waits is enough for both rates (`WaitIsEnough`).
  The first attempt at this proof failed in `HSet` of a refused check, and rightly: a
  check that reads, is refused, and writes after others puts the bucket of its own earlier moment
  back, and with it a later moment for the next token than a refusal in between has
  named. Three checks are too few for TLC to see it. The code calls the wait
  approximate (`agentRateLimit.ts:88`), so that the promise in the model now ends there
  (`OwedInRedis`).
- **Messages stored once.** `StoreInv`: whoever is past the store, in a handler, in a
  buffer or with the agent, has its row, with an id or without. Handlers hold no lock; the unique
  index refuses the second insert, of either service, for the messages in `Ided`. Handing over counts the occurrences in a
  buffer, so that a count above zero has a witness.
- **Buffers close on time** (`BuffersCloseOnTime`). `OnTime`: a buffer with k further messages fires no later than
  `DebounceMs + k * QuietMs`, or than `MaxTotalMs + (k - 1) * QuietMs` after its first
  message (`Limit`), which a push extends by at most one `QuietMs`; and no sooner
  than the shorter of the two times after its last message.
- **`HandOver`** (`HandOverRefinement`). The abstract state is computed from arrays that outlive their
  buffers. `ListInv`: a delivery is at one place of one array, of its own
  conversation, and not yet handed over while that array has a timer; with
  `OneTimerPerBuffer` a firing timer hands over exactly the array in the map, and a crash forgets what is in one.
- **Failures are open.** `BookInv`: a batch whose answer books is, at each place of the loop,
  either still to make a call or has an outcome for it; what is not a plain success leads to
  `case`, and `HandOffInv` carries it from there.
- **Scheduling.** What a call saw is kept in `was`, and days are not forgotten, so that what was
  true of a day when it was read stays true of *some* moment. `WishInv` says, per
  stage: offers found so far were seen free (`WishOfferInv`); the day that was asked for was seen
  closed or full, or a call about it has failed, and of the days that the search has behind it
  nothing was seen free (`RefusalInv`). The master of the offers is the one who was asked about, whom
  the text names unless it speaks of the client's own. The weekday is arithmetic modulo seven (`daysAhead`).
- **Reminders.** What is due was below the limit when the round began, and only this round
  counts, so that `TypeOK` needs `WorkerInv`. `Spaced(a)`: while messages and counts
  agree, the gap since the last message is at least the row's age; so an action that the
  round has chosen was last brought up `Repeat` ago. `CountInv` (for `Counts`): the actions whose message
  is not counted are at most one per death, and the one in hand. `TimeInv` (for `InTimeAlways`) charges what an action has
  waited to the pause before a round, to the round during which it became due, and to the
  one that brings it up (`Waits`); for one that was brought up before, age and timer differ
  by at most the length of a round, so that the pause does not count (`WaitsAgain`).
- **Audit.** The handler and the operation write one row. `IInv` says, per place of
  the two threads, what the row must already hold; the essential conjunct is
  that an answer of success is only sent by a handler whose operation has
  recorded its success and has ended, so that nobody is left to write the row.
- **Bucket.** `TypeOK` is inductive with `Decided` (the try block has an outcome
  when the finally runs). `Balance` needs that a tick adds one to both the phase
  and to the age of every flight, except those at the cap, which no phase
  exceeds. `TwoBuckets`: an interval of one refill period meets at most two buckets, those
  before and after the one refill in it.
- **Timers.** For each conversation: a timer belongs to the array in the map, and that array has one. The
  proof is by the four operations on the map; the capture of the array in the
  timer's closure is what `Fire` relies on.
- **Handoffs.** `HandOffInv`: a batch past `case` has a case, past `pending` an open
  action, whatever is between; states are only written to AWAITING_ADMIN after
  both, and the acknowledgement follows them. A batch that has told of the forwarding instead of an
  appointment, or is about to, is on its way to `case` or past it, or was cut short (`Forwarding`). Nothing ever removes a case or an action. `ConfirmInv`: a text in flight that confirms has passed
  `FakeConfirmation`, with every call answered under an executing policy.
- **Booking.** Between two requests that read before either posts, the gateway guarantees
  nothing; so the invariant speaks of what stood when a request came in and was not touched since.
  `BesideInv`: while a request is on its way that is still in the CRM, and in what the request has read
  once the list of appointments has been answered. A create posts only after that, with a time
  that passed the validation, and with a length no longer than the validated one it is clear of
  all of it (`CreationsStandBeside`). No step of the CRM is assumed to be refused. `OfferInv` and `ScanInv` say that an
  answer is a function of what was read, and `OffersValidate` that the two
  algorithms agree for every shift, length and set of appointments. `MadeInv`: the maker of a
  record is a create that has ended, as created or with an error; so what was refused made nothing. `ValidInv`: a create
  that posts has validated what it read, with the length it chose; since nothing is read
  again, `CreationsFit` follows for lengths that agree.

## 6. What is only model-checked

- Liveness: `EveryCallEnds` (two modules), `PendingKeySettles`, `EveryMessageHanded`,
  `EveryBatchAnswered`, `EveryActionIsBroughtUp`, `EveryWishAnswered`. They rest on weak fairness, and
  so on ENABLED, which the prover does not do.
- That the bounds of a run reach the cases of interest: every action fires in some run, and every
  property fails when a definition is replaced by a mutant.
- The three violated properties of section 8: TLC gives the counterexamples.

## 7. What is not modelled

- Text: wording, classification, redaction, validation of shapes. `Scheduling` takes as
  input which master a text names, which date with a month it contains, and whether it
  asks for lashes (`matchStaffFromMessage`, `extractDateFromMessage`, two regular expressions).
- Diagnostics, event rows and reviews that nothing reads back.
- The migrations and the seed, other than the rows that the models start from.
- CRM, payroll and admin tools that forward one call and keep no state, but for what
  `admin.update_appointment_services` does to an appointment (`UpdateAppointment`).
- Booking: more than one day. The date is cut from a UTC string
  (`gateway/src/mcp/tools/crm/createAppointment.ts:36`), which near midnight is
  another day's; the shifts modelled do not reach midnight.
- Configuration: constant while a handler runs, but in `ConfigCache`, `AgentLimit` and the switch of `Reminders`.
- `AgentBatch`: pending actions of type HANDOFF are never closed by the code,
  hence not in the model; `/approve` and `/reject` close actions that carry an approval,
  which the program never creates; scenario policies are edited by hand in the database
  or the admin UI (`SetPolicy`).
- The message outside business hours that `docs/ORCHESTRATOR_RUNBOOK.md:70` speaks
  of: the code has none.
- The gateway's `create_case` (an audit copy that the orchestrator does not read), and
  `wa-service`, which forwards once and keeps no state but the session: a message
  that is lost there is a delivery that never arrives in `Intake`.

## 8. What does not hold

Three runs are expected to be violated; each states what a document of the
repository says:

1. `apply_key_overlap`. `docs/DATABASE_STRUCTURE_AND_FLOWS.md:30`: "same
   idempotency_key cannot be applied twice". Two calls select no row, both insert
   with ON CONFLICT DO NOTHING, nobody reads the row count, both apply.
2. `batch_denied`. `docs/booking_logic.md:52`: when `create_appointment` fails the
   orchestrator "does **not** say confirmed". A gateway DENY is not an exception,
   so it counts as a success and the confirmation goes out.
3. `booking_length`. `docs/booking_logic.md:25`: the end of the appointment lies in the
   slot. It is validated with the service's duration and created with
   `seance_length`, 3600 s by default.

Three more sentences of the documents are refuted by the invariants named here, which TLC finds violated
when they take the place of those of the run; the passing properties of these runs are stated so
that they do not claim them:

- `docs/DATABASE_STRUCTURE_AND_FLOWS.md:54`: "Dedup by (conversation_id, message_id) or (conversation_id, ts,
  direction, text_hash)". The second half has no unique index (`db/migrations/002_mcp_admin_protocol.sql:31` is
  about rows with an id): of a message without an id, two writers that overlap between the select and the insert
  (`orchestrator/src/services/messageStore.ts:26-49`) store two rows. Run `intake`:
  `\A m \in Message : stored[m] <= 1`. `StoredOnce` says it of the messages in `Ided`.
- `docs/booking_logic.md:64`: the client is told that the request was forwarded "and the conversation is handed
  off". The text is sent first (`orchestrator/src/services/agentProcessor.ts:692`, `711`); when a query before
  the pending action throws, or the process dies, nobody is reminded of a client who was told. Run `batch`:
  `\A b \in Batch : said[b] \cap Forwarded # {} /\ pc[b] \in Over => Open(b)`. `HandOffIsHeld` says it of the
  batches that end, and of the acknowledgement `handoff_ack` at every moment, since there the case comes first.
- `docs/reports/fix-deterministic-master-wording-fallback-report.md:66`: "at <master> there are these options"
  must mean that this master is free then. The times are those of the master whom the text named
  (`orchestrator/src/services/deterministicScheduling.ts:174`), the name is that of the client's last known master
  (line 188). Run `scheduling`:
  `stage = "done" => \A s \in reply.slots : masterName \in {s.master, NoMaster}`. `OffersWereFree` says it of texts
  that name no other master than the client's own.

Other things that the models show, for which there is no run:

- A retry after a lost answer applies again: its key is FAILED although the CRM
  may have carried the call out (`gateway/src/approvals/idempotency.ts:29`). So does a retry
  of a FAILED key whose second attempt dies. `AppliedAtMostOnce` fails with `lostReply` in
  `Faults`, or with `crash` and `reject` together.
- An approval is neither used up by an apply nor compared with its parameters
  (`gateway/src/approvals/service.ts:57`): one approval serves several keys.
- A PENDING key that a crash or a failing query left behind refuses its calls for ever; a row of
  `mcp_requests` that a crash left PENDING stays so.
- The bot is not silent after `/takeover`, `/pause` or `/ignore`: a batch that has read the
  state goes on, answers, and a handoff then overwrites ADMIN_TAKEOVER.
- In summer every slot is an hour late: the offset is written as `+01:00`
  (`gateway/src/altegio/slots.ts:79`), and `parseTimeOnDate` subtracts one hour all year.
- A repeated delivery is stored once, but buffered again: the AI reads it twice.
- An ingest handler that loses the race for the row to `append_messages`, or to a repetition,
  throws (`orchestrator/src/services/messageStore.ts:32`); its own message never reaches
  the agent, although the other's row is stored. `append_messages` drops the messages after
  the one it has lost.
- `getConfig` is not monotonic: of two calls that overlap, the one that loaded the older row
  may write its entry last, so that a value that was seen may go away again, for at most a time to live.
  A failing refresh of the time to live makes a read throw whose entry is fresh.
- Two checks that overlap in Redis spend one token twice
  (`gateway/src/rateLimit/agentRateLimit.ts:139`); a check whose `expire` fails spends one of each
  bucket; and until the first connection is up, and for good if it fails, every check uses the bucket of the process,
  which a restart forgets. With a rate of zero, `retryAfter` promises a token that never comes.
- A wait that `retryAfter` names may be too short when checks of one key overlap in Redis: a refused check
  writes the bucket it has read back over a newer one.
- A reminder that Telegram refuses counts as sent: `sendSummary` catches the error. A death
  between a message and its count repeats the message, and a query that throws takes the
  process with it.
- `docs/DATABASE_STRUCTURE_AND_FLOWS.md:56` says that a pending action is inserted also when an approval is
  needed, and set to DONE by its approval. The code inserts only handoffs, without an approval, so
  that `/approve` and `/reject` find none to close.
- "The day after tomorrow" is tomorrow: its phrase contains the one for tomorrow in all three
  languages, and that is found first (`orchestrator/src/services/bookingContext.ts:51-61`; the comment at line 32 and
  `docs/TZ_DETERMINISTIC_SCHEDULING_RULES.md:27-29` say otherwise). "Guten Morgen" means tomorrow, too.
- A date without a year is one of this year, also when it has passed.
- A failed or denied call is a day without hours: the client is told that the salon is closed
  (`orchestrator/src/services/deterministicScheduling.ts:75`). Where the list of masters fails, only the
  default master is looked at.
- The gateway does not keep two requests that are on their way at once from booking one time, and a
  reschedule or `admin.update_appointment_services` may put an appointment over another: neither validates, and
  `gateway/src/mcp/tools/crm/rescheduleAppointment.ts:18` does not even send `save_if_busy`. All of this
  is left to the CRM.
- `generic_ack` and `generic_reply`, which answer in place of a text that the guard of reply quality rejects, say that the
  team will get back to the client (`orchestrator/src/services/localization.ts:19`); no case is made for them.
- Alternatives of a full day are listed as times without their
  day (line 265), and a time is listed once for every master who has it free.
- The two reads of an offer, hours and appointments, are of different moments: a time can be
  offered that was never free at one moment.

## 9. Plan

Modelled: the core of the gateway and of the orchestrator, and the parts around it. What is left, in order:

1. A composition of `Intake` and `AgentBatch`, from a message to its answer: `HandOver` is proved
   of the first, and is what the second can start from.
2. `Booking` with the dates of neighbouring days, and its invariants again over them.
3. A theorem that a wish that `Scheduling` answers is one that `AgentBatch` may be given.

To keep the set of runs small, a new module brings one run, and
runs of one question are merged where their bounds allow it.
