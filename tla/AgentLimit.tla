------------------------------ MODULE AgentLimit ------------------------------
(***************************************************************************)
(* checkAgentRateLimit: is the limit on (a row of ConfigCache), is Redis   *)
(* there, and does the agent's bucket hold a token? The bucket in Redis is *)
(* read and written with two commands; whatever fails there, the check     *)
(* falls back to a bucket of the process.                                  *)
(*                                                                         *)
(* A bucket counts two rates at once. Its unit is a token divided by       *)
(* Minute, which makes both refills whole numbers. A tick is a second. The *)
(* rates and the key mode are not edited; lastRps and lastRpm are always   *)
(* written together and are one field. Keys of Redis expire after two      *)
(* minutes, when a bucket is full again anyway, so that is left out.       *)
(***************************************************************************)
EXTENDS ConfigCache

CONSTANTS
  Agent,        \* agent ids
  NoAgent,      \* 'anonymous'
  AgentOf,      \* AgentOf[c]: actor.agent_id of the call
  PerAgent,     \* ratelimit.key_mode = 'actor_agent_id'
  Rps, Rpm,     \* ratelimit.per_agent
  Burst,        \* ratelimit.burst
  Minute        \* 60

\* Redis, or the connection to it, fails.
FaultKinds == ConfigFaultKinds \cup {"redisError"}

ASSUME LimitAssumption ==
  /\ IsFiniteSet(Call)
  /\ NoAgent \notin Agent
  /\ AgentOf \in [Call -> Agent \cup {NoAgent}]
  /\ PerAgent \in BOOLEAN
  /\ Rps \in Nat \ {0} /\ Rpm \in Nat \ {0} /\ Burst \in Nat \ {0}
  /\ Minute \in Nat \ {0}
  /\ Faults \subseteq FaultKinds

VARIABLES
  pc,         \* pc[c]: where checkAgentRateLimit(c) is
  redis,      \* redisInitTried, redisClient
  bucket,     \* bucket[m][k]: the bucket k of memory or of Redis
  next,       \* next[c]: what c is about to write to Redis
  verdict,    \* verdict[c]: what consumeFromState has said to c
  via,        \* via[c]: the bucket's place
  decided,    \* decided[c]: and when
  missed,     \* missed[c]: checks that wrote since c read from Redis
  lost,       \* checks whose token a write of an older read gave back
  owed        \* owed[m][k]: when a refused caller of the bucket may retry

bucketVars == <<bucket, next, owed>>
history == <<verdict, via, decided, missed, lost>>
limiter == <<redis, bucketVars, history>>
vars == <<configVars, pc, limiter>>

-----------------------------------------------------------------------------
Place == {"memory", "redis"}
Key == Agent \cup {NoAgent}
KeyOf(c) == IF PerAgent THEN AgentOf[c] ELSE NoAgent

CapRps == Burst * Minute
CapRpm == Rpm * Minute
Bucket == [rps : 0..CapRps, rpm : 0..CapRpm, last : Nat]

Location == {"config", "client", "connecting", "hGetAll", "hSet",
             "allowed", "refused", "thrown"}

TypeOK ==
  /\ ConfigTypeOK
  /\ pc \in [Call -> Location]
  /\ redis \in {"untried", "connecting", "up", "none"}
  /\ bucket \in [Place -> [Key -> Bucket]]
  /\ next \in [Call -> Bucket]
  /\ verdict \in [Call -> {"none", "allowed", "refused"}]
  /\ via \in [Call -> Place]
  /\ decided \in [Call -> Nat]
  /\ missed \in [Call -> SUBSET Call]
  /\ lost \subseteq Call
  /\ owed \in [Place -> [Key -> Nat \cup {NoValue}]]

\* A key that is not there reads as a full bucket.
FullBucket == [rps |-> CapRps, rpm |-> CapRpm, last |-> 0]

Init ==
  /\ ConfigInit
  /\ pc = [c \in Call |-> "config"]
  /\ redis = "untried"
  /\ bucket = [m \in Place |-> [k \in Key |-> FullBucket]]
  /\ next = [c \in Call |-> FullBucket]
  /\ verdict = [c \in Call |-> "none"]
  /\ via = [c \in Call |-> "memory"]
  /\ decided = [c \in Call |-> 0]
  /\ missed = [c \in Call |-> {}]
  /\ lost = {}
  /\ owed = [m \in Place |-> [k \in Key |-> NoValue]]

-----------------------------------------------------------------------------
(* consumeFromState *)

AtMost(cap, n) == IF n < cap THEN n ELSE cap

\* Mutant: nothing caps the bucket of the minute.
RefilledUncapped(b, now) ==
  [rps |-> AtMost(CapRps, b.rps + (now - b.last) * Rps * Minute),
   rpm |-> b.rpm + (now - b.last) * Rpm,
   last |-> now]

Refilled(b, now) ==
  [rps |-> AtMost(CapRps, b.rps + (now - b.last) * Rps * Minute),
   rpm |-> AtMost(CapRpm, b.rpm + (now - b.last) * Rpm),
   last |-> now]

\* Mutant: one of the two rates is enough.
AllowsEither(b) == b.rps >= Minute \/ b.rpm >= Minute

Allows(b) == b.rps >= Minute /\ b.rpm >= Minute

Taken(b) == [b EXCEPT !.rps = @ - Minute, !.rpm = @ - Minute]

\* The bucket after a check of it now.
Consumed(b, now) ==
  IF Allows(Refilled(b, now)) THEN Taken(Refilled(b, now)) ELSE Refilled(b, now)

VerdictOn(b, now) == IF Allows(Refilled(b, now)) THEN "allowed" ELSE "refused"

Largest(S) == CHOOSE n \in S : \A m \in S : m <= n
Missing(n) == IF n < Minute THEN Minute - n ELSE 0
CeilDiv(n, d) == (n + d - 1) \div d

\* Mutant: the rate per minute is forgotten.
RetryAfterRps(b) ==
  Largest({CeilDiv(Missing(b.rps), Rps * Minute), 1})

\* retryAfterSeconds, of a bucket that does not allow.
RetryAfter(b) ==
  Largest({CeilDiv(Missing(b.rps), Rps * Minute), CeilDiv(Missing(b.rpm), Rpm), 1})

\* c decides on bucket b, of place m.
Consume(c, b, m) ==
  /\ verdict' = [verdict EXCEPT ![c] = VerdictOn(b, clock)]
  /\ via' = [via EXCEPT ![c] = m]
  /\ decided' = [decided EXCEPT ![c] = clock]

-----------------------------------------------------------------------------
(* checkAgentRateLimit *)

\* The limit is off in every second version of its row.
Enabled(v) == v % 2 = 0

Goto(c, location) == pc' = [pc EXCEPT ![c] = location]

\* The four other rows are read without being modelled.
ReadConfig(c) ==
  /\ pc[c] = "config" /\ at[c] = "done"
  /\ Goto(c, IF Enabled(got[c]) THEN "client" ELSE "allowed")
  /\ Return(c)
  /\ UNCHANGED limiter

ConfigThrew(c) ==
  /\ pc[c] = "config" /\ at[c] = "thrown"
  /\ Goto(c, "thrown")
  /\ Return(c)
  /\ UNCHANGED limiter

\* One of the queries for the other rows throws.
ConfigThrowsLater(c) ==
  /\ "dbError" \in Faults
  /\ pc[c] = "client"
  /\ Goto(c, "thrown")
  /\ UNCHANGED <<configVars, limiter>>

\* What a caller of place m is promised when bucket b has refused it, and
\* for how long: until a token is taken, or the bucket is overwritten.
Promise(b, old) ==
  IF VerdictOn(b, clock) = "refused" THEN clock + RetryAfter(Refilled(b, clock))
  ELSE old

\* Without an await: nothing comes between the look at the bucket and its
\* update. inRedis and owedInRedis are what becomes of the other place.
CheckMemoryBucket(c, inRedis, owedInRedis) ==
  LET k == KeyOf(c)
      b == bucket["memory"][k] IN
  /\ Consume(c, b, "memory")
  /\ bucket' = [memory |-> [bucket["memory"] EXCEPT ![k] = Consumed(b, clock)],
                redis |-> inRedis]
  /\ owed' = [memory |-> [owed["memory"] EXCEPT ![k] = Promise(b, NoValue)],
              redis |-> owedInRedis]
  /\ next' = [next EXCEPT ![c] = FullBucket]
  /\ Goto(c, VerdictOn(b, clock))
  /\ UNCHANGED configVars

OnlyMemory(c) ==
  /\ CheckMemoryBucket(c, bucket["redis"], owed["redis"])
  /\ missed' = [missed EXCEPT ![c] = {}]
  /\ UNCHANGED lost

\* The first check connects; those that come meanwhile have no Redis.
Connect(c) ==
  /\ pc[c] = "client" /\ redis = "untried"
  /\ redis' = "connecting"
  /\ Goto(c, "connecting")
  /\ UNCHANGED <<configVars, bucketVars, history>>

UseRedis(c) ==
  /\ pc[c] = "client" /\ redis = "up"
  /\ Goto(c, "hGetAll")
  /\ UNCHANGED <<configVars, limiter>>

UseMemory(c) ==
  /\ pc[c] = "client" /\ redis \in {"connecting", "none"}
  /\ OnlyMemory(c)
  /\ UNCHANGED redis

Connected(c) ==
  /\ pc[c] = "connecting"
  /\ redis' = "up"
  /\ Goto(c, "hGetAll")
  /\ UNCHANGED <<configVars, bucketVars, history>>

\* No redis.host, a row that cannot be read, or no connection: for good.
NoRedis(c) ==
  /\ pc[c] = "connecting"
  /\ redis' = "none"
  /\ OnlyMemory(c)

\* hGetAll, and what consumeFromState makes of it.
HGetAll(c) ==
  LET k == KeyOf(c)
      b == bucket["redis"][k] IN
  /\ pc[c] = "hGetAll"
  /\ Consume(c, b, "redis")
  /\ next' = [next EXCEPT ![c] = Consumed(b, clock)]
  /\ owed' = [owed EXCEPT !["redis"][k] = Promise(b, @)]
  /\ Goto(c, "hSet")
  /\ UNCHANGED <<configVars, redis, bucket, missed, lost>>

\* The write takes the place of whatever came after the read; a promise that
\* was made on what it replaces is void.
InRedis(c) == [bucket["redis"] EXCEPT ![KeyOf(c)] = next[c]]
OwedInRedis(c) ==
  [owed["redis"] EXCEPT ![KeyOf(c)] =
     IF verdict[c] = "allowed" \/ missed[c] # {} THEN NoValue ELSE @]
Overwrite(c) ==
  /\ missed' = [d \in Call |->
                  IF d = c THEN {}
                  ELSE IF pc[d] = "hSet" /\ KeyOf(d) = KeyOf(c)
                    THEN missed[d] \cup {c} ELSE missed[d]]
  /\ lost' = lost \cup missed[c]

HSet(c) ==
  /\ pc[c] = "hSet"
  /\ bucket' = [bucket EXCEPT !["redis"] = InRedis(c)]
  /\ owed' = [owed EXCEPT !["redis"] = OwedInRedis(c)]
  /\ Overwrite(c)
  /\ next' = [next EXCEPT ![c] = FullBucket]
  /\ Goto(c, verdict[c])
  /\ UNCHANGED <<configVars, redis, verdict, via, decided>>

\* A command throws, and the bucket of the process decides.
RedisThrows(c) ==
  /\ "redisError" \in Faults
  /\ pc[c] \in {"hGetAll", "hSet"}
  /\ OnlyMemory(c)
  /\ UNCHANGED redis

\* hSet took effect before it, or expire, threw: the check has both buckets.
RedisThrowsLate(c) ==
  /\ "redisError" \in Faults
  /\ pc[c] = "hSet"
  /\ CheckMemoryBucket(c, InRedis(c), OwedInRedis(c))
  /\ Overwrite(c)
  /\ UNCHANGED redis

Step(c) ==
  \/ ReadConfig(c) \/ ConfigThrew(c)
  \/ Connect(c) \/ UseRedis(c) \/ UseMemory(c) \/ Connected(c) \/ NoRedis(c)
  \/ HGetAll(c) \/ HSet(c)

Next ==
  \/ ConfigNext /\ UNCHANGED <<pc, limiter>>
  \/ \E c \in Call :
       Step(c) \/ ConfigThrowsLater(c) \/ RedisThrows(c) \/ RedisThrowsLate(c)

Spec == Init /\ [][Next]_vars

-----------------------------------------------------------------------------
(* Properties *)

\* Checks that place m has let through on key k since moment s, but for those
\* of Redis whose token was given back.
Admitted(m, k, s) ==
  {c \in Call : /\ pc[c] = "allowed" /\ verdict[c] = "allowed"
                /\ via[c] = m /\ KeyOf(c) = k
                /\ m = "redis" => c \notin lost
                /\ decided[c] >= s}

\* In no interval does a place let through more than the burst, or a minute's
\* worth, and what either rate adds meanwhile; a check beyond that is one of
\* Redis whose write was overtaken.
AdmittedWithinRates ==
  \A m \in Place, k \in Key : \A s \in 0..clock :
    LET spent == Cardinality(Admitted(m, k, s)) * Minute IN
    /\ spent <= CapRps + (clock - s) * Rps * Minute
    /\ spent <= CapRpm + (clock - s) * Rpm

\* Who waits for as long as a refusal says finds a token, if nobody has taken
\* one since and no write of an older read has replaced the bucket: for one
\* of the two rates the other's bucket may be emptier than it was.
RetryAfterIsEnough ==
  \A m \in Place, k \in Key :
    owed[m][k] # NoValue => Allows(Refilled(bucket[m][k], owed[m][k]))
=============================================================================
