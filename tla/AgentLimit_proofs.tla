--------------------------- MODULE AgentLimit_proofs --------------------------
(***************************************************************************)
(* Theorems about the configuration cache, alone and below the limit per   *)
(* agent, and about the limit itself, for any calls, agents, rates, rows,  *)
(* times to live and faults: how old a configuration can be, what the two  *)
(* places let through, and what a refused check is promised.               *)
(***************************************************************************)
EXTENDS AgentLimit, FiniteSetTheorems, TLAPS

LEMMA TtlType == /\ \A v \in TtlVersion : TtlOf(v) \in Ttls
                 /\ DefaultTtl \in Ttls
                 /\ \A t \in Ttls : t \in Nat /\ t > 0
BY ConfigAssumption DEF Ttls, TtlOf

-----------------------------------------------------------------------------
(* Version v was in the table at moment s or later, or less than slack     *)
(* before.                                                                 *)

InTable(v, s, slack) ==
  v \in 0..row /\ (v # row => editedAt[v + 1] + slack >= s)

\* An entry may be as old as the time to live it was given, which is not the
\* one in force when it is read.
EntryInv ==
  entry.value # NoValue =>
    \E t \in Ttls : /\ entry.expiresAt <= clock + t
                    /\ InTable(entry.value, entry.expiresAt, t)

CallInv(c) ==
  /\ began[c] <= clock
  /\ at[c] = "ttlSet" => fetched[c] \in TtlVersion
  /\ at[c] = "set" => InTable(fetched[c], began[c], 0)
  /\ at[c] = "done" =>
       \E t \in Ttls : InTable(got[c], began[c] + 1, t)

ConfigInv ==
  /\ clock \in Nat /\ row \in Version /\ editedAt \in [Version -> Nat]
  /\ ttlRow \in TtlVersion /\ ttl \in Ttls
  /\ entry \in [value : Version \cup {NoValue}, expiresAt : Nat]
  /\ \A c \in Call : began[c] \in Nat
  /\ DOMAIN at = Call /\ DOMAIN began = Call
  /\ DOMAIN fetched = Call /\ DOMAIN got = Call
  /\ EntryInv
  /\ \A c \in Call : CallInv(c)

LEMMA ConfigInvInit == ConfigInit => ConfigInv
<1> SUFFICES ASSUME ConfigInit PROVE ConfigInv
  OBVIOUS
<1>1. ttlRow \in TtlVersion /\ row \in Version
  BY ConfigAssumption DEF ConfigInit, TtlVersion, Version
<1>2. QED
  BY <1>1, TtlType, ConfigAssumption
  DEF ConfigInit, ConfigInv, EntryInv, CallInv

\* What getConfig finds in the cache is recent enough for a call that began
\* then.
LEMMA LookupInv ==
  ASSUME ConfigInv, NEW c \in Call, NEW now \in Nat, Lookup(c, now)
  PROVE  /\ DOMAIN at' = Call /\ DOMAIN got' = Call
         /\ \A d \in Call : d # c => at'[d] = at[d] /\ got'[d] = got[d]
         /\ at'[c] \in {"done", "load"}
         /\ at'[c] = "done" => \E t \in Ttls : InTable(got'[c], now + 1, t)
<1>1. DOMAIN at = Call /\ DOMAIN got = Call
  BY DEF ConfigInv
<1>2. at'[c] = "done" => /\ entry.value # NoValue /\ entry.expiresAt > now
                         /\ got'[c] = entry.value
  BY <1>1 DEF Lookup
<1>3. ASSUME at'[c] = "done"
      PROVE  \E t \in Ttls : InTable(got'[c], now + 1, t)
  <2>1. PICK t \in Ttls : InTable(entry.value, entry.expiresAt, t)
    BY <1>2, <1>3 DEF ConfigInv, EntryInv
  <2>2. InTable(entry.value, now + 1, t)
    <3>1. /\ row \in Nat /\ editedAt \in [Version -> Nat] /\ row \in 0..MaxEdits
          /\ entry.expiresAt \in Nat /\ t \in Nat
      <4>1. row \in 0..MaxEdits /\ editedAt \in [Version -> Nat]
        BY DEF ConfigInv, Version
      <4>2. entry.expiresAt \in Nat
        BY DEF ConfigInv
      <4>3. QED
        BY <4>1, <4>2, TtlType
    <3>2. entry.expiresAt >= now + 1
      BY <1>2, <1>3, <3>1
    <3>3. entry.value \in 0..row
      BY <2>1 DEF InTable
    <3>4. entry.value # row => entry.value + 1 \in Version
      BY <3>1, <3>3, ConfigAssumption DEF Version
    <3>5. entry.value # row => editedAt[entry.value + 1] \in Nat
      BY <3>1, <3>4
    <3>6. QED
      BY <2>1, <3>1, <3>2, <3>5 DEF InTable
  <2>3. QED
    BY <1>2, <1>3, <2>2
<1>4. QED
  BY <1>1, <1>3 DEF Lookup

\* Steps of a call that leave the table alone. The clock may go on.
LEMMA SameTable ==
  ASSUME NEW v, NEW s, NEW t, UNCHANGED table
  PROVE  InTable(v, s, t)' <=> InTable(v', s', t)
BY DEF InTable, table

LEMMA CallStep ==
  ASSUME ConfigInv, NEW c \in Call, GetConfig(c) \/ QueryThrows(c) \/ Return(c)
  PROVE  ConfigInv'
<1> USE ConfigAssumption
<1>1. /\ clock' = clock /\ row' = row /\ editedAt' = editedAt /\ ttlRow' = ttlRow
  BY DEF GetConfig, Begin, Fetch, FetchTtl, FetchRow, SetTtl, SetEntry,
     QueryThrows, Return, table
<1>2. ASSUME NEW d \in Call, d # c,
             /\ at'[d] = at[d] /\ began'[d] = began[d]
             /\ fetched'[d] = fetched[d] /\ got'[d] = got[d]
      PROVE  CallInv(d)'
  BY <1>1, <1>2 DEF ConfigInv, CallInv, InTable
<1>3. EntryInv' \/ entry' # entry
  BY <1>1 DEF ConfigInv, EntryInv, InTable
<1>4. ASSUME /\ DOMAIN at' = Call /\ DOMAIN began' = Call
             /\ DOMAIN fetched' = Call /\ DOMAIN got' = Call,
             \A d \in Call : d # c =>
               /\ at'[d] = at[d] /\ began'[d] = began[d]
               /\ fetched'[d] = fetched[d] /\ got'[d] = got[d],
             began'[c] \in Nat, ttl' \in Ttls,
             entry' \in [value : Version \cup {NoValue}, expiresAt : Nat],
             EntryInv', CallInv(c)'
      PROVE  ConfigInv'
  BY <1>1, <1>2, <1>4 DEF ConfigInv
<1>5. CASE Begin(c)
  <2>1. began' = [began EXCEPT ![c] = clock] /\ UNCHANGED <<cached, fetched>>
    BY <1>5 DEF Begin
  <2>2. \/ Lookup(c, clock)
        \/ at' = [at EXCEPT ![c] = "ttl"] /\ UNCHANGED got
    BY <1>5 DEF Begin
  <2>3. clock \in Nat
    BY DEF ConfigInv
  <2>4. /\ DOMAIN at' = Call /\ DOMAIN got' = Call
        /\ \A d \in Call : d # c => at'[d] = at[d] /\ got'[d] = got[d]
        /\ at'[c] \in {"done", "load", "ttl"}
        /\ at'[c] = "done" => \E t \in Ttls : InTable(got'[c], clock + 1, t)
    BY <2>2, <2>3, LookupInv DEF ConfigInv
  <2>5. began'[c] = clock /\ \A d \in Call : d # c => began'[d] = began[d]
    BY <2>1 DEF ConfigInv
  <2>6. CallInv(c)'
    BY <1>1, <2>3, <2>4, <2>5 DEF CallInv, InTable
  <2>7. entry' = entry /\ ttl' = ttl
    BY <2>1 DEF cached
  <2>8. QED
    BY <1>3, <1>4, <2>1, <2>3, <2>4, <2>5, <2>6, <2>7 DEF ConfigInv
<1>6. CASE FetchTtl(c)
  <2>1. /\ at' = [at EXCEPT ![c] = "ttlSet"]
        /\ fetched' = [fetched EXCEPT ![c] = ttlRow]
        /\ UNCHANGED <<cached, began, got>>
    BY <1>6 DEF FetchTtl, Fetch
  <2>2. CallInv(c)'
    BY <1>1, <2>1 DEF ConfigInv, CallInv
  <2>3. QED
    BY <1>3, <1>4, <2>1, <2>2 DEF ConfigInv, cached
<1>7. CASE FetchRow(c)
  <2>1. /\ at' = [at EXCEPT ![c] = "set"]
        /\ fetched' = [fetched EXCEPT ![c] = row]
        /\ UNCHANGED <<cached, began, got>>
    BY <1>7 DEF FetchRow, Fetch
  <2>2. row \in 0..row
    BY DEF ConfigInv, Version
  <2>3. CallInv(c)'
    BY <1>1, <2>1, <2>2 DEF ConfigInv, CallInv, InTable
  <2>4. QED
    BY <1>3, <1>4, <2>1, <2>3 DEF ConfigInv, cached
<1>8. CASE SetTtl(c)
  <2>1. /\ at[c] = "ttlSet" /\ ttl' = TtlOf(fetched[c])
        /\ fetched' = [fetched EXCEPT ![c] = NoValue]
        /\ Lookup(c, began[c]) /\ UNCHANGED <<entry, began>>
    BY <1>8 DEF SetTtl
  <2>2. ttl' \in Ttls /\ began[c] \in Nat
    BY <2>1, TtlType DEF ConfigInv, CallInv
  <2>3. /\ DOMAIN at' = Call /\ DOMAIN got' = Call
        /\ \A d \in Call : d # c => at'[d] = at[d] /\ got'[d] = got[d]
        /\ at'[c] \in {"done", "load"}
        /\ at'[c] = "done" => \E t \in Ttls : InTable(got'[c], began[c] + 1, t)
    BY <2>1, <2>2, LookupInv
  <2>4. CallInv(c)'
    BY <1>1, <2>1, <2>3 DEF ConfigInv, CallInv, InTable
  <2>5. QED
    BY <1>3, <1>4, <2>1, <2>2, <2>3, <2>4 DEF ConfigInv
<1>9. CASE SetEntry(c)
  <2>1. /\ at[c] = "set"
        /\ entry' = [value |-> fetched[c], expiresAt |-> began[c] + ttl]
        /\ at' = [at EXCEPT ![c] = "done"]
        /\ got' = [got EXCEPT ![c] = fetched[c]]
        /\ fetched' = [fetched EXCEPT ![c] = NoValue]
        /\ UNCHANGED <<ttl, began>>
    BY <1>9 DEF SetEntry
  <2> DEFINE v == fetched[c]
             b == began[c]
  <2>2. /\ InTable(v, b, 0) /\ b \in Nat /\ b <= clock
        /\ ttl \in Ttls /\ ttl \in Nat /\ ttl > 0
        /\ row \in 0..MaxEdits /\ clock \in Nat
        /\ editedAt \in [Version -> Nat]
    BY <2>1, TtlType DEF ConfigInv, CallInv, Version
  <2>3. v \in 0..row /\ v \in Version
    BY <2>2 DEF InTable, Version
  <2>4. v # row => editedAt[v + 1] \in Nat
    BY <2>2, <2>3 DEF Version
  <2>5. InTable(v, b + ttl, ttl) /\ InTable(v, b + 1, ttl)
    BY <2>2, <2>4 DEF InTable
  <2> HIDE DEF v, b
  <2>6. entry'.value = v /\ entry'.expiresAt = b + ttl
    BY <2>1 DEF v, b
  <2>7. EntryInv'
    BY <1>1, <2>2, <2>5, <2>6 DEF EntryInv, InTable
  <2>8. at'[c] = "done" /\ got'[c] = v /\ began'[c] = b
    BY <2>1 DEF ConfigInv, v, b
  <2>9. CallInv(c)'
    BY <1>1, <2>2, <2>5, <2>8 DEF CallInv, InTable
  <2>10. entry' \in [value : Version \cup {NoValue}, expiresAt : Nat]
    BY <2>1, <2>2, <2>3 DEF v, b
  <2>11. QED
    BY <1>4, <2>1, <2>2, <2>7, <2>8, <2>9, <2>10 DEF ConfigInv
<1>10. CASE QueryThrows(c)
  <2>1. at' = [at EXCEPT ![c] = "thrown"]
          /\ UNCHANGED <<cached, began, fetched, got>>
    BY <1>10 DEF QueryThrows
  <2>2. CallInv(c)'
    BY <1>1, <2>1 DEF ConfigInv, CallInv
  <2>3. QED
    BY <1>3, <1>4, <2>1, <2>2 DEF ConfigInv, cached
<1>11. CASE Return(c)
  <2>1. /\ at' = [at EXCEPT ![c] = "over"]
        /\ began' = [began EXCEPT ![c] = 0]
        /\ got' = [got EXCEPT ![c] = NoValue]
        /\ UNCHANGED <<cached, fetched>>
    BY <1>11 DEF Return
  <2>2. CallInv(c)'
    BY <1>1, <2>1 DEF ConfigInv, CallInv
  <2>3. QED
    BY <1>3, <1>4, <2>1, <2>2 DEF ConfigInv, cached
<1>12. QED
  BY <1>5, <1>6, <1>7, <1>8, <1>9, <1>10, <1>11 DEF GetConfig

\* An edit is later than the beginning of every call and of every entry.
LEMMA EditStep == ASSUME ConfigInv, EditRow PROVE ConfigInv'
<1>1. /\ clock' = clock /\ row' = row + 1 /\ UNCHANGED <<ttlRow, cached, call>>
      /\ editedAt' = [editedAt EXCEPT ![row + 1] = clock] /\ row < MaxEdits
  BY DEF EditRow
<1>2. /\ clock \in Nat /\ row \in Nat /\ MaxEdits \in Nat
      /\ editedAt \in [Version -> Nat] /\ row + 1 \in Version /\ row' \in Version
  BY <1>1, ConfigAssumption DEF ConfigInv, Version
<1>3. ASSUME NEW v, NEW s \in Nat, NEW slack \in Nat, InTable(v, s, slack),
             s <= clock + slack
      PROVE  v \in 0..row' /\ (v # row' => editedAt'[v + 1] + slack >= s)
  BY <1>1, <1>2, <1>3 DEF InTable, Version
<1>4. EntryInv'
  <2> SUFFICES ASSUME entry.value # NoValue
               PROVE  \E t \in Ttls : /\ entry.expiresAt <= clock + t
                                      /\ InTable(entry.value, entry.expiresAt, t)'
    BY <1>1 DEF EntryInv, cached
  <2>1. PICK t \in Ttls : /\ entry.expiresAt <= clock + t
                          /\ InTable(entry.value, entry.expiresAt, t)
    BY DEF ConfigInv, EntryInv
  <2>2. t \in Nat /\ entry.expiresAt \in Nat
    BY TtlType DEF ConfigInv
  <2>3. entry' = entry
    BY <1>1 DEF cached
  <2>4. QED
    BY <1>3, <2>1, <2>2, <2>3 DEF InTable
<1>5. ASSUME NEW c \in Call PROVE CallInv(c)'
  <2>1. UNCHANGED <<at, began, fetched, got>> /\ CallInv(c) /\ began[c] \in Nat
    BY <1>1 DEF ConfigInv, call
  <2>2. at[c] = "set" => InTable(fetched[c], began[c], 0)'
    BY <1>2, <1>3, <2>1 DEF CallInv, InTable
  <2>3. ASSUME at[c] = "done"
        PROVE  \E t \in Ttls : InTable(got[c], began[c] + 1, t)'
    <3>1. PICK t \in Ttls : InTable(got[c], began[c] + 1, t)
      BY <2>1, <2>3 DEF CallInv
    <3>2. t \in Nat /\ t > 0 /\ began[c] + 1 <= clock + t
      BY <1>2, <2>1, TtlType DEF CallInv
    <3>3. QED
      BY <1>3, <2>1, <3>1, <3>2 DEF InTable
  <2>4. QED
    BY <1>1, <2>1, <2>2, <2>3 DEF CallInv
<1>6. editedAt' \in [Version -> Nat]
  BY <1>1, <1>2
<1>7. QED
  BY <1>1, <1>2, <1>4, <1>5, <1>6 DEF ConfigInv, cached, call

LEMMA ConfigInvStep ==
  ConfigInv /\ (ConfigNext \/ (\E c \in Call : Return(c)) \/ UNCHANGED configVars)
    => ConfigInv'
<1> SUFFICES ASSUME ConfigInv,
                    \/ ConfigNext \/ (\E c \in Call : Return(c))
                    \/ UNCHANGED configVars
             PROVE  ConfigInv'
  OBVIOUS
<1>1. CASE EditTtl
  BY <1>1
  DEF EditTtl, ConfigInv, EntryInv, CallInv, InTable, cached, call
<1>2. CASE ConfigTick
  <2>1. clock' = clock + 1 /\ clock \in Nat /\ UNCHANGED <<table, cached, call>>
    BY <1>2 DEF ConfigTick, ConfigInv
  <2>2. EntryInv'
    <3> SUFFICES ASSUME entry.value # NoValue
                 PROVE  \E t \in Ttls : /\ entry.expiresAt <= clock' + t
                                        /\ InTable(entry.value, entry.expiresAt, t)'
      BY <2>1 DEF EntryInv, cached
    <3>1. PICK t \in Ttls : /\ entry.expiresAt <= clock + t
                            /\ InTable(entry.value, entry.expiresAt, t)
      BY DEF ConfigInv, EntryInv
    <3>2. t \in Nat /\ entry.expiresAt \in Nat
      BY TtlType DEF ConfigInv
    <3>3. QED
      BY <2>1, <3>1, <3>2 DEF InTable, table, cached
  <2>3. ASSUME NEW c \in Call PROVE CallInv(c)'
    <3>1. CallInv(c) /\ began[c] \in Nat
      BY DEF ConfigInv
    <3>2. QED
      BY <2>1, <3>1 DEF CallInv, InTable, table, call
  <2>4. QED
    BY <2>1, <2>2, <2>3 DEF ConfigInv, table, cached, call
<1>3. CASE UNCHANGED configVars
  BY <1>3
  DEF configVars, ConfigInv, EntryInv, CallInv, InTable, table, cached, call
<1>4. QED
  BY <1>1, <1>2, <1>3, CallStep, EditStep DEF ConfigNext

LEMMA ConfigInvStale == ConfigInv => BoundedStaleness
<1> SUFFICES ASSUME ConfigInv, NEW c \in Call, at[c] = "done", got[c] # row
             PROVE  \E t \in Ttls : editedAt[got[c] + 1] + t > began[c]
  BY DEF BoundedStaleness
<1>1. PICK t \in Ttls : InTable(got[c], began[c] + 1, t)
  BY DEF ConfigInv, CallInv
<1>2. /\ got[c] \in 0..row /\ row \in 0..MaxEdits /\ began[c] \in Nat
      /\ editedAt \in [Version -> Nat] /\ t \in Nat
  BY <1>1, TtlType DEF InTable, ConfigInv, Version
<1>3. editedAt[got[c] + 1] \in Nat
  BY <1>2, ConfigAssumption DEF Version
<1>4. QED
  BY <1>1, <1>2, <1>3 DEF InTable

\* The cache alone, with any caller.
THEOREM CacheStaleness == ConfigSpec => []BoundedStaleness
<1>1. ConfigInv /\ [ConfigNext]_configVars => ConfigInv'
  BY ConfigInvStep
<1>2. QED
  BY <1>1, ConfigInvInit, ConfigInvStale, PTL DEF ConfigSpec

\* Below the limit per agent, whose steps use the cache or leave it alone: no
\* check is made with a configuration that was edited a time to live, or
\* longer, before the call.
THEOREM LimitStaleness == Spec => []BoundedStaleness
<1>1. ConfigInv /\ [Next]_vars => ConfigInv'
  <2> SUFFICES ASSUME ConfigInv, [Next]_vars PROVE ConfigInv'
    OBVIOUS
  <2>1. CASE ConfigNext
    BY <2>1, ConfigInvStep
  <2>2. ASSUME NEW c \in Call, ReadConfig(c) \/ ConfigThrew(c) PROVE ConfigInv'
    BY <2>2, ConfigInvStep DEF ReadConfig, ConfigThrew
  <2>3. ASSUME NEW c \in Call,
               \/ Connect(c) \/ UseRedis(c) \/ UseMemory(c) \/ Connected(c)
               \/ NoRedis(c) \/ HGetAll(c) \/ HSet(c)
               \/ ConfigThrowsLater(c) \/ RedisThrows(c) \/ RedisThrowsLate(c)
        PROVE  ConfigInv'
    <3>1. UNCHANGED configVars
      BY <2>3 DEF Connect, UseRedis, UseMemory, Connected, NoRedis, HGetAll, HSet,
         ConfigThrowsLater, RedisThrows, RedisThrowsLate, OnlyMemory,
         CheckMemoryBucket
    <3>2. QED
      BY <3>1, ConfigInvStep
  <2>4. CASE UNCHANGED vars
    BY <2>4, ConfigInvStep DEF vars
  <2>5. QED
    BY <2>1, <2>2, <2>3, <2>4 DEF Next, Step
<1>2. Init => ConfigInv
  BY ConfigInvInit DEF Init
<1>3. QED
  BY <1>1, <1>2, ConfigInvStale, PTL DEF Spec

-----------------------------------------------------------------------------
(* The arithmetic of a bucket. Its two counters are filled alike, each     *)
(* with a cap and a rate of its own.                                       *)

\* Products of naturals.
LEMMA Products ==
  ASSUME NEW a \in Nat, NEW b \in Nat, NEW c \in Nat
  PROVE  /\ a * b \in Nat /\ (a + b) * c = a * c + b * c
         /\ a <= b => a * c <= b * c
         /\ b >= 1 => a <= a * b
OBVIOUS

LEMMA CapType ==
  /\ CapRps \in Nat /\ CapRpm \in Nat /\ Rps * Minute \in Nat
  /\ Rps * Minute > 0 /\ Minute <= CapRps /\ Minute <= CapRpm
BY LimitAssumption, Products DEF CapRps, CapRpm

\* Rounding up is enough.
LEMMA CeilEnough ==
  ASSUME NEW n \in Nat, NEW d \in Nat \ {0}
  PROVE  CeilDiv(n, d) \in Nat /\ CeilDiv(n, d) * d >= n
BY DEF CeilDiv

LEMMA LargestOf ==
  ASSUME NEW a \in Nat, NEW b \in Nat, NEW c \in Nat
  PROVE  /\ Largest({a, b, c}) \in Nat
         /\ Largest({a, b, c}) >= a /\ Largest({a, b, c}) >= b /\ Largest({a, b, c}) >= c
<1>1. \E n \in {a, b, c} : \A m \in {a, b, c} : m <= n
  <2>1. CASE a >= b /\ a >= c
    BY <2>1
  <2>2. CASE b >= a /\ b >= c
    BY <2>2
  <2>3. CASE c >= a /\ c >= b
    BY <2>3
  <2> QED BY <2>1, <2>2, <2>3
<1>2. Largest({a, b, c}) \in {a, b, c} /\ \A m \in {a, b, c} : m <= Largest({a, b, c})
  BY <1>1 DEF Largest
<1> QED BY <1>2

\* What one of a bucket's two counters gains.
Level(cap, n, rate, t) == AtMost(cap, n + t * rate)

LEMMA LevelType ==
  ASSUME NEW cap \in Nat, NEW n \in 0..cap, NEW rate \in Nat, NEW t \in Nat
  PROVE  /\ Level(cap, n, rate, t) \in 0..cap
         /\ n <= Level(cap, n, rate, t)
         /\ Level(cap, n, rate, t) <= n + t * rate
         /\ Level(cap, n, rate, t) = cap \/ Level(cap, n, rate, t) = n + t * rate
<1>1. t * rate \in Nat
  BY Products
<1> QED BY <1>1 DEF Level, AtMost

\* To refill a counter twice is to refill it once.
LEMMA LevelTwice ==
  ASSUME NEW cap \in Nat, NEW n \in 0..cap, NEW rate \in Nat,
         NEW t \in Nat, NEW u \in Nat
  PROVE  Level(cap, Level(cap, n, rate, t), rate, u) = Level(cap, n, rate, t + u)
<1>1. t * rate \in Nat /\ u * rate \in Nat /\ (t + u) * rate = t * rate + u * rate
  BY Products
<1>2. PICK x \in Nat, y \in Nat : x = t * rate /\ y = u * rate
  BY <1>1
<1>3. AtMost(cap, AtMost(cap, n + x) + y) = AtMost(cap, n + (x + y))
  BY DEF AtMost
<1> QED BY <1>1, <1>2, <1>3 DEF Level

\* Whoever waits for a counter finds what was missing of a token.
LEMMA LevelEnough ==
  ASSUME NEW cap \in Nat, NEW n \in 0..cap, NEW rate \in Nat \ {0},
         Minute <= cap, NEW t \in Nat, t >= CeilDiv(Missing(n), rate)
  PROVE  Level(cap, n, rate, t) >= Minute
<1>1. Missing(n) \in Nat /\ n + Missing(n) >= Minute /\ Minute \in Nat
  BY LimitAssumption DEF Missing
<1>2. PICK q \in Nat : q = CeilDiv(Missing(n), rate) /\ q * rate >= Missing(n)
  BY <1>1, CeilEnough
<1>3. t * rate \in Nat /\ q * rate \in Nat /\ q * rate <= t * rate
  BY <1>2, Products
<1>4. n + t * rate >= Minute
  BY <1>1, <1>2, <1>3
<1> QED BY <1>4, <1>1, <1>3 DEF Level, AtMost

LEMMA RefilledIs ==
  ASSUME NEW b \in Bucket, NEW now \in Nat, b.last <= now
  PROVE  /\ now - b.last \in Nat
         /\ Refilled(b, now) = [rps |-> Level(CapRps, b.rps, Rps * Minute, now - b.last),
                                rpm |-> Level(CapRpm, b.rpm, Rpm, now - b.last),
                                last |-> now]
         /\ Refilled(b, now) \in Bucket
<1>1. b.last \in Nat /\ b.rps \in 0..CapRps /\ b.rpm \in 0..CapRpm
  BY DEF Bucket
<1>2. now - b.last \in Nat
  BY <1>1
<1>3. PICK t \in Nat : t = now - b.last
  BY <1>2
<1>4. t * Rps * Minute = t * (Rps * Minute)
  BY LimitAssumption
<1>5. Refilled(b, now) = [rps |-> Level(CapRps, b.rps, Rps * Minute, t),
                          rpm |-> Level(CapRpm, b.rpm, Rpm, t), last |-> now]
  BY <1>3, <1>4 DEF Refilled, Level
<1>6. /\ Level(CapRps, b.rps, Rps * Minute, t) \in 0..CapRps
      /\ Level(CapRpm, b.rpm, Rpm, t) \in 0..CapRpm
  BY <1>1, CapType, LevelType, LimitAssumption
<1>7. Refilled(b, now) \in Bucket
  BY <1>5, <1>6 DEF Bucket
<1> QED BY <1>2, <1>3, <1>5, <1>7

\* The two tests of consumeFromState leave a bucket that is one again.
LEMMA ConsumedIs ==
  ASSUME NEW b \in Bucket, NEW now \in Nat, b.last <= now
  PROVE  /\ Consumed(b, now) \in Bucket /\ Consumed(b, now).last = now
         /\ VerdictOn(b, now) = "refused" => Consumed(b, now) = Refilled(b, now)
         /\ VerdictOn(b, now) = "allowed" =>
              /\ Consumed(b, now).rps + Minute = Refilled(b, now).rps
              /\ Consumed(b, now).rpm + Minute = Refilled(b, now).rpm
<1>1. PICK f \in Bucket : f = Refilled(b, now) /\ f.last = now
  BY RefilledIs
<1>2. CASE Allows(f)
  <2>1. f.rps \in 0..CapRps /\ f.rpm \in 0..CapRpm /\ f.rps >= Minute /\ f.rpm >= Minute
    BY <1>2 DEF Bucket, Allows
  <2>2. PICK x \in Nat, y \in Nat : x = f.rps - Minute /\ y = f.rpm - Minute
    BY <2>1, CapType, LimitAssumption
  <2>3. x \in 0..CapRps /\ y \in 0..CapRpm /\ x + Minute = f.rps /\ y + Minute = f.rpm
    BY <2>1, <2>2, CapType, LimitAssumption
  <2>4. Taken(f) = [f EXCEPT !.rps = x, !.rpm = y]
    BY <2>2 DEF Taken
  <2>5. Taken(f) \in Bucket /\ Taken(f).rps = x /\ Taken(f).rpm = y /\ Taken(f).last = now
    BY <1>1, <2>3, <2>4 DEF Bucket
  <2>6. Consumed(b, now) = Taken(f) /\ VerdictOn(b, now) = "allowed"
    BY <1>1, <1>2 DEF Consumed, VerdictOn
  <2> QED BY <1>1, <2>3, <2>5, <2>6
<1>3. CASE ~Allows(f)
  BY <1>1, <1>3 DEF Consumed, VerdictOn
<1> QED BY <1>2, <1>3

\* Time that passes in two parts fills a bucket as it does in one.
LEMMA RefillTwice ==
  ASSUME NEW b \in Bucket, NEW now \in Nat, NEW later \in Nat,
         b.last <= now, now <= later
  PROVE  Refilled(Refilled(b, now), later) = Refilled(b, later)
<1>1. b.last \in Nat /\ b.rps \in 0..CapRps /\ b.rpm \in 0..CapRpm /\ b.last <= later
  BY DEF Bucket
<1>2. PICK t \in Nat, u \in Nat : t = now - b.last /\ u = later - now /\ t + u = later - b.last
  BY <1>1
<1> DEFINE f == Refilled(b, now)
<1>3. /\ f.rps = Level(CapRps, b.rps, Rps * Minute, t)
      /\ f.rpm = Level(CapRpm, b.rpm, Rpm, t)
      /\ f.last = now /\ f \in Bucket
  BY <1>2, RefilledIs
<1> HIDE DEF f
<1>4. Refilled(f, later) = [rps |-> Level(CapRps, f.rps, Rps * Minute, u),
                            rpm |-> Level(CapRpm, f.rpm, Rpm, u), last |-> later]
  BY <1>2, <1>3, RefilledIs
<1>5. Refilled(b, later) = [rps |-> Level(CapRps, b.rps, Rps * Minute, t + u),
                            rpm |-> Level(CapRpm, b.rpm, Rpm, t + u), last |-> later]
  BY <1>1, <1>2, RefilledIs
<1>6. /\ Level(CapRps, f.rps, Rps * Minute, u) = Level(CapRps, b.rps, Rps * Minute, t + u)
      /\ Level(CapRpm, f.rpm, Rpm, u) = Level(CapRpm, b.rpm, Rpm, t + u)
  <2>1. Level(CapRps, f.rps, Rps * Minute, u) = Level(CapRps, b.rps, Rps * Minute, t + u)
    <3>1. PICK cap \in Nat, rate \in Nat : cap = CapRps /\ rate = Rps * Minute
      BY CapType
    <3>2. PICK n \in 0..cap : n = b.rps
      BY <1>1, <3>1
    <3>3. Level(cap, Level(cap, n, rate, t), rate, u) = Level(cap, n, rate, t + u)
      BY LevelTwice
    <3> QED BY <1>3, <3>1, <3>2, <3>3
  <2>2. Level(CapRpm, f.rpm, Rpm, u) = Level(CapRpm, b.rpm, Rpm, t + u)
    <3>1. PICK cap \in Nat, rate \in Nat : cap = CapRpm /\ rate = Rpm
      BY CapType, LimitAssumption
    <3>2. PICK n \in 0..cap : n = b.rpm
      BY <1>1, <3>1
    <3>3. Level(cap, Level(cap, n, rate, t), rate, u) = Level(cap, n, rate, t + u)
      BY LevelTwice
    <3> QED BY <1>3, <3>1, <3>2, <3>3
  <2> QED BY <2>1, <2>2
<1> QED BY <1>4, <1>5, <1>6 DEF f

LEMMA RetryAfterType ==
  ASSUME NEW b \in Bucket
  PROVE  /\ RetryAfter(b) \in Nat
         /\ RetryAfter(b) >= CeilDiv(Missing(b.rps), Rps * Minute)
         /\ RetryAfter(b) >= CeilDiv(Missing(b.rpm), Rpm)
<1>1. Missing(b.rps) \in Nat /\ Missing(b.rpm) \in Nat
  BY CapType, LimitAssumption DEF Bucket, Missing
<1>2. /\ CeilDiv(Missing(b.rps), Rps * Minute) \in Nat
      /\ CeilDiv(Missing(b.rpm), Rpm) \in Nat
  BY <1>1, CapType, CeilEnough, LimitAssumption
<1> QED BY <1>2, LargestOf DEF RetryAfter

\* retryAfterSeconds is enough for both rates, if the bucket is left alone.
LEMMA WaitIsEnough ==
  ASSUME NEW b \in Bucket
  PROVE  Allows(Refilled(b, b.last + RetryAfter(b)))
<1>1. b.last \in Nat /\ b.rps \in 0..CapRps /\ b.rpm \in 0..CapRpm
  BY DEF Bucket
<1>2. PICK wait \in Nat : wait = RetryAfter(b)
  BY RetryAfterType
<1>3. b.last + wait \in Nat /\ b.last <= b.last + wait /\ (b.last + wait) - b.last = wait
  BY <1>1
<1>4. /\ Level(CapRps, b.rps, Rps * Minute, wait) >= Minute
      /\ Level(CapRpm, b.rpm, Rpm, wait) >= Minute
  BY <1>1, <1>2, LevelEnough, RetryAfterType, CapType, LimitAssumption
<1>5. Refilled(b, b.last + wait) = [rps |-> Level(CapRps, b.rps, Rps * Minute, wait),
                                    rpm |-> Level(CapRpm, b.rpm, Rpm, wait),
                                    last |-> b.last + wait]
  BY <1>3, RefilledIs
<1> QED BY <1>2, <1>4, <1>5 DEF Allows

-----------------------------------------------------------------------------
(* Types. No bucket is newer than the clock, so that a refill is none or   *)
(* more.                                                                   *)

\* What a call does to the cache, whoever it is.
ConfigMove ==
  ConfigNext \/ (\E c \in Call : Return(c)) \/ UNCHANGED configVars

LEMMA ConfigTypeStep ==
  ASSUME ConfigInv, ConfigTypeOK, ConfigMove
  PROVE  ConfigTypeOK'
<1> USE DEF ConfigTypeOK
<1>1. ASSUME NEW c \in Call, Begin(c) PROVE ConfigTypeOK'
  BY <1>1 DEF Begin, Lookup, table, cached
<1>2. ASSUME NEW c \in Call, FetchTtl(c) \/ FetchRow(c) PROVE ConfigTypeOK'
  BY <1>2 DEF FetchTtl, FetchRow, Fetch, table, cached
<1>3. ASSUME NEW c \in Call, SetTtl(c) PROVE ConfigTypeOK'
  <2>1. TtlOf(fetched[c]) \in Nat \ {0}
    <3>1. fetched[c] \in TtlVersion
      BY <1>3 DEF SetTtl, ConfigInv, CallInv
    <3>2. TtlOf(fetched[c]) \in Ttls
      BY <3>1, TtlType
    <3> QED BY <3>2, TtlType
  <2> QED BY <1>3, <2>1 DEF SetTtl, Lookup, table
<1>4. ASSUME NEW c \in Call, SetEntry(c) PROVE ConfigTypeOK'
  <2>1. fetched[c] \in Version
    BY <1>4, ConfigAssumption DEF SetEntry, ConfigInv, CallInv, InTable, Version
  <2>2. began[c] + ttl \in Nat
    OBVIOUS
  <2> QED BY <1>4, <2>1, <2>2 DEF SetEntry, table
<1>5. ASSUME NEW c \in Call, QueryThrows(c) \/ Return(c) PROVE ConfigTypeOK'
  BY <1>5 DEF QueryThrows, Return, table, cached
<1>6. CASE EditRow
  <2>1. row + 1 \in Version
    BY <1>6, ConfigAssumption DEF EditRow, Version
  <2> QED BY <1>6, <2>1 DEF EditRow, cached, call
<1>7. CASE EditTtl \/ ConfigTick \/ UNCHANGED configVars
  BY <1>7 DEF EditTtl, ConfigTick, configVars, table, cached, call
<1> QED
  BY <1>1, <1>2, <1>3, <1>4, <1>5, <1>6, <1>7 DEF ConfigMove, ConfigNext, GetConfig

LimitTyped ==
  /\ pc \in [Call -> Location]
  /\ redis \in {"untried", "connecting", "up", "none"}
  /\ bucket \in [Place -> [Key -> Bucket]]
  /\ next \in [Call -> Bucket]
  /\ verdict \in [Call -> {"none", "allowed", "refused"}]
  /\ via \in [Call -> Place]
  /\ decided \in [Call -> Nat]
  /\ missed \in [Call -> SUBSET Call]
  /\ lost \subseteq Call
  /\ owed \in [Place -> [Key -> Nat \cup {NoValue}]]

\* Nothing is newer than the clock; a check that is about to write has
\* decided, and what it writes is of that moment.
Dated ==
  /\ \A m \in Place, k \in Key : bucket[m][k].last <= clock
  /\ \A c \in Call : pc[c] = "hSet" =>
       /\ verdict[c] \in {"allowed", "refused"}
       /\ next[c].last = decided[c] /\ decided[c] <= clock

LimitInv == ConfigInv /\ ConfigTypeOK /\ LimitTyped /\ Dated

LEMMA KeyType == \A c \in Call : KeyOf(c) \in Key
BY LimitAssumption DEF KeyOf, Key

LEMMA PromiseType ==
  ASSUME NEW b \in Bucket, b.last <= clock, clock \in Nat, NEW old \in Nat \cup {NoValue}
  PROVE  Promise(b, old) \in Nat \cup {NoValue}
BY RefilledIs, RetryAfterType DEF Promise

LEMMA VerdictType ==
  \A b, now : VerdictOn(b, now) \in {"allowed", "refused"}
BY DEF VerdictOn

\* What a check in memory leaves, if it leaves buckets in Redis.
LEMMA MemoryTyped ==
  ASSUME LimitInv, NEW c \in Call, NEW inRedis \in [Key -> Bucket],
         NEW owedInRedis \in [Key -> Nat \cup {NoValue}],
         \A k \in Key : inRedis[k].last <= clock,
         CheckMemoryBucket(c, inRedis, owedInRedis),
         redis' \in {"untried", "connecting", "up", "none"},
         missed' \in [Call -> SUBSET Call], lost' \subseteq Call
  PROVE  LimitTyped' /\ Dated'
<1> DEFINE k == KeyOf(c)
           b == bucket["memory"][k]
<1>1. k \in Key /\ clock \in Nat /\ clock' = clock
  BY KeyType DEF CheckMemoryBucket, configVars, LimitInv, ConfigInv
<1>2. b \in Bucket /\ b.last <= clock /\ bucket["memory"] \in [Key -> Bucket]
  BY <1>1 DEF LimitInv, LimitTyped, Dated, Place
<1> HIDE DEF k, b
<1>3. Consumed(b, clock) \in Bucket /\ Consumed(b, clock).last = clock
  BY <1>1, <1>2, ConsumedIs
<1>4. bucket' = [memory |-> [bucket["memory"] EXCEPT ![k] = Consumed(b, clock)],
                 redis |-> inRedis]
  BY DEF CheckMemoryBucket, k, b
<1>5. /\ bucket'["memory"] = [bucket["memory"] EXCEPT ![k] = Consumed(b, clock)]
      /\ bucket'["redis"] = inRedis
      /\ bucket' \in [Place -> [Key -> Bucket]]
  BY <1>2, <1>3, <1>4 DEF Place
<1>6. \A m \in Place, j \in Key : bucket'[m][j].last <= clock
  BY <1>1, <1>2, <1>3, <1>5 DEF LimitInv, Dated, Place
<1>7. Promise(b, NoValue) \in Nat \cup {NoValue}
  BY <1>1, <1>2, PromiseType
<1>8. owed' \in [Place -> [Key -> Nat \cup {NoValue}]]
  <2>1. owed' = [memory |-> [owed["memory"] EXCEPT ![k] = Promise(b, NoValue)],
                 redis |-> owedInRedis]
    BY DEF CheckMemoryBucket, k, b
  <2>2. owed["memory"] \in [Key -> Nat \cup {NoValue}]
    BY DEF LimitInv, LimitTyped, Place
  <2> QED BY <1>7, <2>1, <2>2 DEF Place
<1>9. /\ pc' = [pc EXCEPT ![c] = VerdictOn(b, clock)]
      /\ verdict' = [verdict EXCEPT ![c] = VerdictOn(b, clock)]
      /\ via' = [via EXCEPT ![c] = "memory"]
      /\ decided' = [decided EXCEPT ![c] = clock]
      /\ next' = [next EXCEPT ![c] = FullBucket]
  BY DEF CheckMemoryBucket, Consume, Goto, k, b
<1>10. FullBucket \in Bucket
  BY CapType DEF FullBucket, Bucket
<1>11. LimitTyped'
  BY <1>1, <1>5, <1>8, <1>9, <1>10, VerdictType
  DEF LimitInv, LimitTyped, Location, Place
<1>12. ASSUME NEW d \in Call, pc'[d] = "hSet"
       PROVE  /\ verdict'[d] \in {"allowed", "refused"}
              /\ next'[d].last = decided'[d] /\ decided'[d] <= clock
  <2>1. d # c
    BY <1>9, <1>12, VerdictType DEF LimitInv, LimitTyped
  <2> QED BY <1>9, <1>12, <2>1 DEF LimitInv, LimitTyped, Dated
<1> QED BY <1>1, <1>6, <1>11, <1>12 DEF Dated

LEMMA LimitInvInit == Init => LimitInv
<1> SUFFICES ASSUME Init PROVE LimitInv
  OBVIOUS
<1>1. ConfigInv
  BY ConfigInvInit DEF Init
<1>2. ConfigTypeOK
  BY ConfigAssumption DEF Init, ConfigInit, ConfigTypeOK, TtlVersion, Version
<1>3. FullBucket \in Bucket /\ FullBucket.last = 0
  BY CapType DEF FullBucket, Bucket
<1>4. bucket \in [Place -> [Key -> Bucket]] /\ next \in [Call -> Bucket]
  BY <1>3 DEF Init
<1>5. LimitTyped
  BY <1>4 DEF Init, LimitTyped, Location, Place
<1>6. Dated
  BY <1>1, <1>3 DEF Init, Dated, ConfigInv
<1> QED BY <1>1, <1>2, <1>5, <1>6 DEF LimitInv

LEMMA ConfigPart ==
  ASSUME [Next]_vars
  PROVE  ConfigMove
<1>1. ASSUME NEW c \in Call, ReadConfig(c) \/ ConfigThrew(c) PROVE ConfigMove
  BY <1>1 DEF ReadConfig, ConfigThrew, ConfigMove
<1>2. ASSUME NEW c \in Call,
             \/ Connect(c) \/ UseRedis(c) \/ UseMemory(c) \/ Connected(c)
             \/ NoRedis(c) \/ HGetAll(c) \/ HSet(c)
             \/ ConfigThrowsLater(c) \/ RedisThrows(c) \/ RedisThrowsLate(c)
      PROVE  ConfigMove
  BY <1>2 DEF Connect, UseRedis, UseMemory, Connected, NoRedis, HGetAll, HSet,
     ConfigThrowsLater, RedisThrows, RedisThrowsLate, OnlyMemory,
     CheckMemoryBucket, ConfigMove
<1>3. CASE ConfigNext \/ UNCHANGED vars
  BY <1>3 DEF vars, ConfigMove
<1> QED BY <1>1, <1>2, <1>3 DEF Next, Step

\* What HSet writes.
LEMMA InRedisTyped ==
  ASSUME LimitInv, NEW c \in Call, pc[c] = "hSet"
  PROVE  /\ InRedis(c) \in [Key -> Bucket]
         /\ \A k \in Key : InRedis(c)[k].last <= clock
         /\ OwedInRedis(c) \in [Key -> Nat \cup {NoValue}]
<1> USE DEF LimitInv, LimitTyped, Dated, Place
<1>1. KeyOf(c) \in Key /\ next[c] \in Bucket /\ next[c].last <= clock
  BY KeyType
<1>2. bucket["redis"] \in [Key -> Bucket] /\ \A k \in Key : bucket["redis"][k].last <= clock
  OBVIOUS
<1>3. owed["redis"] \in [Key -> Nat \cup {NoValue}]
  OBVIOUS
<1> QED BY <1>1, <1>2, <1>3 DEF InRedis, OwedInRedis

\* Steps that leave the buckets and the history alone.
LEMMA IdleTyped ==
  ASSUME LimitInv, bucketVars' = bucketVars, history' = history, ConfigMove,
         redis' \in {"untried", "connecting", "up", "none"},
         pc' \in [Call -> Location],
         \A c \in Call : pc'[c] = "hSet" => pc[c] = "hSet"
  PROVE  LimitTyped' /\ Dated'
<1>1. clock' \in Nat /\ clock <= clock' /\ clock \in Nat
  <2>1. clock' = clock \/ clock' = clock + 1
    BY DEF ConfigMove, ConfigNext, GetConfig, Begin, Fetch, FetchTtl, FetchRow,
       SetTtl, SetEntry, QueryThrows, Return, EditRow, EditTtl, ConfigTick,
       configVars
  <2> QED BY <2>1 DEF LimitInv, ConfigInv
<1>2. LimitTyped'
  BY DEF LimitInv, LimitTyped, bucketVars, history
<1>3. ASSUME NEW m \in Place, NEW k \in Key PROVE bucket'[m][k].last <= clock'
  <2>1. bucket[m][k] \in Bucket /\ bucket[m][k].last <= clock
    BY DEF LimitInv, LimitTyped, Dated
  <2>2. bucket[m][k].last \in Nat
    BY <2>1 DEF Bucket
  <2> QED BY <1>1, <2>1, <2>2 DEF bucketVars
<1>4. ASSUME NEW c \in Call, pc'[c] = "hSet"
      PROVE  /\ verdict'[c] \in {"allowed", "refused"}
             /\ next'[c].last = decided'[c] /\ decided'[c] <= clock'
  <2>1. decided[c] \in Nat
    BY DEF LimitInv, LimitTyped
  <2> QED BY <1>1, <1>4, <2>1 DEF LimitInv, Dated, bucketVars, history
<1> QED BY <1>2, <1>3, <1>4 DEF Dated

LEMMA LimitInvStep == LimitInv /\ [Next]_vars => LimitInv'
<1> SUFFICES ASSUME LimitInv, [Next]_vars PROVE LimitInv'
  OBVIOUS
<1>0. ConfigMove /\ ConfigInv' /\ ConfigTypeOK'
  BY ConfigPart, ConfigInvStep, ConfigTypeStep DEF LimitInv, ConfigMove
<1>q. SUFFICES LimitTyped' /\ Dated'
  BY <1>0 DEF LimitInv
<1>1. CASE (ConfigNext /\ UNCHANGED <<pc, limiter>>) \/ UNCHANGED vars
  BY <1>0, <1>1, IdleTyped DEF limiter, vars, LimitInv, LimitTyped
<1>2. ASSUME NEW c \in Call,
             \/ ReadConfig(c) \/ ConfigThrew(c) \/ ConfigThrowsLater(c)
             \/ Connect(c) \/ UseRedis(c) \/ Connected(c)
      PROVE  LimitTyped' /\ Dated'
  <2>1. /\ bucketVars' = bucketVars /\ history' = history
        /\ redis' \in {"untried", "connecting", "up", "none"}
    BY <1>2 DEF ReadConfig, ConfigThrew, ConfigThrowsLater, Connect, UseRedis,
       Connected, limiter, LimitInv, LimitTyped
  <2>2. PICK l \in Location \ {"hSet"} : pc' = [pc EXCEPT ![c] = l]
    BY <1>2 DEF ReadConfig, ConfigThrew, ConfigThrowsLater, Connect, UseRedis,
       Connected, Goto, Location
  <2>3. /\ pc' \in [Call -> Location]
        /\ \A d \in Call : pc'[d] = "hSet" => pc[d] = "hSet"
    BY <2>2 DEF LimitInv, LimitTyped
  <2> QED BY <1>0, <2>1, <2>3, IdleTyped
<1>3. ASSUME NEW c \in Call, UseMemory(c) \/ NoRedis(c) \/ RedisThrows(c)
      PROVE  LimitTyped' /\ Dated'
  <2>1. /\ CheckMemoryBucket(c, bucket["redis"], owed["redis"])
        /\ missed' = [missed EXCEPT ![c] = {}] /\ lost' = lost
        /\ redis' \in {"untried", "connecting", "up", "none"}
    BY <1>3 DEF UseMemory, NoRedis, RedisThrows, OnlyMemory, LimitInv, LimitTyped
  <2>2. /\ bucket["redis"] \in [Key -> Bucket]
        /\ \A k \in Key : bucket["redis"][k].last <= clock
        /\ owed["redis"] \in [Key -> Nat \cup {NoValue}]
        /\ missed' \in [Call -> SUBSET Call] /\ lost' \subseteq Call
    BY <2>1 DEF LimitInv, LimitTyped, Dated, Place
  <2> QED BY <2>1, <2>2, MemoryTyped
<1>4. ASSUME NEW c \in Call, Overwrite(c)
      PROVE  missed' \in [Call -> SUBSET Call] /\ lost' \subseteq Call
  BY <1>4 DEF Overwrite, LimitInv, LimitTyped
<1>5. ASSUME NEW c \in Call, RedisThrowsLate(c) PROVE LimitTyped' /\ Dated'
  <2>1. /\ pc[c] = "hSet" /\ CheckMemoryBucket(c, InRedis(c), OwedInRedis(c))
        /\ Overwrite(c) /\ redis' = redis
    BY <1>5 DEF RedisThrowsLate
  <2> QED BY <1>4, <2>1, InRedisTyped, MemoryTyped DEF LimitInv, LimitTyped
<1>6. ASSUME NEW c \in Call, HGetAll(c) PROVE LimitTyped' /\ Dated'
  <2> DEFINE k == KeyOf(c)
             b == bucket["redis"][k]
  <2>1. /\ pc[c] = "hGetAll" /\ pc' = [pc EXCEPT ![c] = "hSet"]
        /\ verdict' = [verdict EXCEPT ![c] = VerdictOn(b, clock)]
        /\ via' = [via EXCEPT ![c] = "redis"]
        /\ decided' = [decided EXCEPT ![c] = clock]
        /\ next' = [next EXCEPT ![c] = Consumed(b, clock)]
        /\ owed' = [owed EXCEPT !["redis"][k] = Promise(b, @)]
        /\ UNCHANGED <<clock, redis, bucket, missed, lost>>
    BY <1>6 DEF HGetAll, Consume, Goto, configVars
  <2>2. k \in Key /\ clock \in Nat /\ b \in Bucket /\ b.last <= clock
    BY KeyType DEF LimitInv, LimitTyped, Dated, ConfigInv, Place
  <2>3. owed["redis"] \in [Key -> Nat \cup {NoValue}]
    BY DEF LimitInv, LimitTyped, Place
  <2>4. Promise(b, owed["redis"][k]) \in Nat \cup {NoValue}
    BY <2>2, <2>3, PromiseType
  <2>5. owed' \in [Place -> [Key -> Nat \cup {NoValue}]]
    <3>1. PICK p \in Nat \cup {NoValue} : p = Promise(b, owed["redis"][k])
      BY <2>4
    <3>2. owed' = [owed EXCEPT !["redis"][k] = p]
      BY <2>1, <3>1
    <3> HIDE DEF k
    <3> QED BY <2>2, <3>2 DEF LimitInv, LimitTyped
  <2>6. Consumed(b, clock) \in Bucket /\ Consumed(b, clock).last = clock
    BY <2>2, ConsumedIs
  <2> HIDE DEF b, k
  <2>7. LimitTyped'
    BY <2>1, <2>2, <2>5, <2>6, VerdictType DEF LimitInv, LimitTyped, Location, Place
  <2>8. Dated'
    BY <2>1, <2>2, <2>6, VerdictType DEF LimitInv, LimitTyped, Dated
  <2> QED BY <2>7, <2>8
<1>7. ASSUME NEW c \in Call, HSet(c) PROVE LimitTyped' /\ Dated'
  <2>1. /\ pc[c] = "hSet" /\ Overwrite(c) /\ pc' = [pc EXCEPT ![c] = verdict[c]]
        /\ bucket' = [bucket EXCEPT !["redis"] = InRedis(c)]
        /\ owed' = [owed EXCEPT !["redis"] = OwedInRedis(c)]
        /\ next' = [next EXCEPT ![c] = FullBucket]
        /\ UNCHANGED <<clock, redis, verdict, via, decided>>
    BY <1>7 DEF HSet, Goto, configVars
  <2>2. FullBucket \in Bucket
    BY CapType DEF FullBucket, Bucket
  <2>3. verdict[c] \in {"allowed", "refused"}
    BY <2>1 DEF LimitInv, Dated
  <2>4. LimitTyped'
    BY <1>4, <2>1, <2>2, <2>3, InRedisTyped DEF LimitInv, LimitTyped, Location
  <2>5. \A m \in Place, k \in Key : bucket'[m][k].last <= clock'
    BY <2>1, InRedisTyped DEF LimitInv, LimitTyped, Dated, Place
  <2>6. Dated'
    BY <2>1, <2>3, <2>5 DEF LimitInv, LimitTyped, Dated
  <2> QED BY <2>4, <2>6
<1> QED
  BY <1>1, <1>2, <1>3, <1>5, <1>6, <1>7 DEF Next, Step

\* What a check keeps has its type, whatever fails and in whichever order
\* checks reach Redis: no counter of a bucket leaves its range.
THEOREM LimitTypeCorrect == Spec => []TypeOK
<1>1. LimitInv => TypeOK
  BY DEF LimitInv, LimitTyped, TypeOK
<1> QED BY <1>1, LimitInvInit, LimitInvStep, PTL DEF Spec

-----------------------------------------------------------------------------
(* What a refusal promises. A check between its read and its write that    *)
(* has missed no other write writes what it would have read now.           *)

Enough(b, o) == o # NoValue => o >= b.last /\ Allows(Refilled(b, o))

Kept == \A m \in Place, k \in Key : Enough(bucket[m][k], owed[m][k])

UpToDate(c) ==
  LET b == bucket["redis"][KeyOf(c)]
      o == owed["redis"][KeyOf(c)] IN
  /\ b.last <= decided[c]
  /\ next[c] = Consumed(b, decided[c])
  /\ verdict[c] = VerdictOn(b, decided[c])
  /\ verdict[c] = "refused" => o = NoValue \/ o >= decided[c]

RetryInv ==
  Kept /\ \A c \in Call : pc[c] = "hSet" /\ missed[c] = {} => UpToDate(c)

\* Whoever is refused now finds a token when the wait is over: in the bucket
\* that was read, and in the one that is written back.
LEMMA PromiseKept ==
  ASSUME NEW b \in Bucket, clock \in Nat, b.last <= clock, NEW old, Enough(b, old)
  PROVE  /\ Enough(b, Promise(b, old))
         /\ Enough(Consumed(b, clock), Promise(b, NoValue))
         /\ VerdictOn(b, clock) = "refused" =>
              Promise(b, old) \in Nat /\ Promise(b, old) >= clock
         /\ VerdictOn(b, clock) # "refused" => Promise(b, old) = old
<1>1. PICK f \in Bucket : f = Refilled(b, clock) /\ f.last = clock
  BY RefilledIs
<1>2. CASE VerdictOn(b, clock) = "refused"
  <2>1. PICK wait \in Nat : wait = RetryAfter(f)
    BY RetryAfterType
  <2>2. /\ Promise(b, old) = clock + wait /\ Promise(b, NoValue) = clock + wait
        /\ Consumed(b, clock) = f
    BY <1>1, <1>2, <2>1, ConsumedIs DEF Promise
  <2>3. Allows(Refilled(f, clock + wait))
    BY <1>1, <2>1, WaitIsEnough
  <2>4. Refilled(f, clock + wait) = Refilled(b, clock + wait)
    BY <1>1, RefillTwice
  <2>5. clock + wait \in Nat /\ clock + wait >= clock /\ clock + wait >= b.last
    BY DEF Bucket
  <2> QED BY <1>1, <1>2, <2>2, <2>3, <2>4, <2>5 DEF Enough
<1>3. CASE VerdictOn(b, clock) # "refused"
  BY <1>3 DEF Promise, Enough
<1> QED BY <1>2, <1>3

\* What HSet writes keeps the promises that it leaves.
LEMMA WriteKeeps ==
  ASSUME LimitInv, RetryInv, NEW c \in Call, pc[c] = "hSet", NEW k \in Key
  PROVE  Enough(InRedis(c)[k], OwedInRedis(c)[k])
<1>1. KeyOf(c) \in Key /\ bucket["redis"] \in [Key -> Bucket]
      /\ owed["redis"] \in [Key -> Nat \cup {NoValue}]
  BY KeyType DEF LimitInv, LimitTyped, Place
<1>2. CASE k # KeyOf(c)
  BY <1>1, <1>2 DEF InRedis, OwedInRedis, RetryInv, Kept, Place
<1>3. CASE k = KeyOf(c) /\ (verdict[c] = "allowed" \/ missed[c] # {})
  BY <1>1, <1>3 DEF OwedInRedis, Enough
<1>4. CASE k = KeyOf(c) /\ verdict[c] # "allowed" /\ missed[c] = {}
  <2> DEFINE b == bucket["redis"][k]
             o == owed["redis"][k]
             now == decided[c]
  <2>1. InRedis(c)[k] = next[c] /\ OwedInRedis(c)[k] = o
    BY <1>1, <1>4 DEF InRedis, OwedInRedis
  <2>2. verdict[c] = "refused" /\ now \in Nat
    BY <1>4 DEF LimitInv, LimitTyped, Dated
  <2>3. /\ b.last <= now /\ next[c] = Consumed(b, now)
        /\ VerdictOn(b, now) = "refused" /\ (o = NoValue \/ o >= now)
    BY <1>4, <2>2 DEF RetryInv, UpToDate
  <2>4. b \in Bucket /\ Enough(b, o) /\ o \in Nat \cup {NoValue}
    BY <1>1 DEF RetryInv, Kept, Place
  <2> HIDE DEF b, o, now
  <2>5. next[c] = Refilled(b, now) /\ Refilled(b, now).last = now
    BY <2>2, <2>3, <2>4, ConsumedIs, RefilledIs
  <2>6. o # NoValue => Refilled(next[c], o) = Refilled(b, o)
    BY <2>2, <2>3, <2>4, <2>5, RefillTwice
  <2> QED BY <2>1, <2>3, <2>4, <2>5, <2>6 DEF Enough
<1> QED BY <1>2, <1>3, <1>4

\* Another check that has missed none of the writes is of another key.
LEMMA OthersUpToDate ==
  ASSUME LimitInv, RetryInv, NEW c \in Call, pc[c] = "hSet", Overwrite(c),
         bucket'["redis"] = InRedis(c), owed'["redis"] = OwedInRedis(c),
         NEW d \in Call, d # c, pc[d] = "hSet", missed'[d] = {},
         next'[d] = next[d], verdict'[d] = verdict[d], decided'[d] = decided[d]
  PROVE  UpToDate(d)'
<1>1. missed[d] = {} /\ KeyOf(d) # KeyOf(c)
  BY DEF Overwrite
<1>2. KeyOf(d) \in Key /\ KeyOf(c) \in Key
  BY KeyType
<1>3. /\ bucket'["redis"][KeyOf(d)] = bucket["redis"][KeyOf(d)]
      /\ owed'["redis"][KeyOf(d)] = owed["redis"][KeyOf(d)]
  BY <1>1, <1>2 DEF InRedis, OwedInRedis, LimitInv, LimitTyped, Place
<1>4. UpToDate(d)
  BY <1>1 DEF RetryInv
<1> QED BY <1>3, <1>4 DEF UpToDate, KeyOf

\* A check in memory keeps the promises there.
LEMMA MemoryKeeps ==
  ASSUME LimitInv, RetryInv, NEW c \in Call, NEW inRedis, NEW owedInRedis,
         CheckMemoryBucket(c, inRedis, owedInRedis), NEW k \in Key
  PROVE  Enough(bucket'["memory"][k], owed'["memory"][k])
<1> DEFINE j == KeyOf(c)
           b == bucket["memory"][j]
<1>1. /\ bucket'["memory"] = [bucket["memory"] EXCEPT ![j] = Consumed(b, clock)]
      /\ owed'["memory"] = [owed["memory"] EXCEPT ![j] = Promise(b, NoValue)]
  BY DEF CheckMemoryBucket
<1>2. /\ j \in Key /\ clock \in Nat /\ b \in Bucket /\ b.last <= clock
      /\ bucket["memory"] \in [Key -> Bucket]
      /\ owed["memory"] \in [Key -> Nat \cup {NoValue}]
  BY KeyType DEF LimitInv, LimitTyped, Dated, ConfigInv, Place
<1>3. Enough(b, owed["memory"][j]) /\ Enough(bucket["memory"][k], owed["memory"][k])
  BY <1>2 DEF RetryInv, Kept, Place
<1> HIDE DEF b, j
<1>4. Enough(Consumed(b, clock), Promise(b, NoValue))
  BY <1>2, <1>3, PromiseKept
<1> QED BY <1>1, <1>2, <1>3, <1>4

LEMMA RetryInvStep == LimitInv /\ RetryInv /\ [Next]_vars => RetryInv'
<1> SUFFICES ASSUME LimitInv, RetryInv, [Next]_vars PROVE RetryInv'
  OBVIOUS
<1>0. /\ bucket["redis"] \in [Key -> Bucket] /\ pc \in [Call -> Location]
      /\ owed["redis"] \in [Key -> Nat \cup {NoValue}] /\ clock \in Nat
      /\ DOMAIN next = Call /\ DOMAIN verdict = Call /\ DOMAIN decided = Call
      /\ DOMAIN missed = Call
  BY DEF LimitInv, LimitTyped, ConfigInv, Place
<1>1. ASSUME bucketVars' = bucketVars, history' = history,
             \A c \in Call : pc'[c] = "hSet" => pc[c] = "hSet"
      PROVE  RetryInv'
  BY <1>1 DEF RetryInv, Kept, UpToDate, bucketVars, history, KeyOf
<1>2. CASE (ConfigNext /\ UNCHANGED <<pc, limiter>>) \/ UNCHANGED vars
  BY <1>1, <1>2 DEF limiter, vars
<1>3. ASSUME NEW c \in Call,
             \/ ReadConfig(c) \/ ConfigThrew(c) \/ ConfigThrowsLater(c)
             \/ Connect(c) \/ UseRedis(c) \/ Connected(c)
      PROVE  RetryInv'
  <2>1. bucketVars' = bucketVars /\ history' = history
    BY <1>3 DEF ReadConfig, ConfigThrew, ConfigThrowsLater, Connect, UseRedis,
       Connected, limiter
  <2>2. PICK l \in Location \ {"hSet"} : pc' = [pc EXCEPT ![c] = l]
    BY <1>3 DEF ReadConfig, ConfigThrew, ConfigThrowsLater, Connect, UseRedis,
       Connected, Goto, Location
  <2> QED BY <1>0, <1>1, <2>1, <2>2
<1>4. ASSUME NEW c \in Call, NEW inRedis, NEW owedInRedis,
             CheckMemoryBucket(c, inRedis, owedInRedis),
             \A k \in Key : Enough(inRedis[k], owedInRedis[k]),
             \A d \in Call : d # c /\ pc[d] = "hSet" /\ missed'[d] = {} =>
                             UpToDate(d)'
      PROVE  RetryInv'
  <2>1. bucket'["redis"] = inRedis /\ owed'["redis"] = owedInRedis
    BY <1>4 DEF CheckMemoryBucket
  <2>2. \A k \in Key : Enough(bucket'["memory"][k], owed'["memory"][k])
    BY <1>4, MemoryKeeps
  <2>3. Kept'
    BY <1>4, <2>1, <2>2 DEF Kept, Place, Enough
  <2>4. pc'[c] # "hSet" /\ \A d \in Call : d # c => pc'[d] = pc[d]
    BY <1>0, <1>4, VerdictType DEF CheckMemoryBucket, Goto
  <2> QED BY <1>4, <2>3, <2>4 DEF RetryInv
<1>5. ASSUME NEW c \in Call, UseMemory(c) \/ NoRedis(c) \/ RedisThrows(c)
      PROVE  RetryInv'
  <2>1. /\ CheckMemoryBucket(c, bucket["redis"], owed["redis"])
        /\ missed' = [missed EXCEPT ![c] = {}]
    BY <1>5 DEF UseMemory, NoRedis, RedisThrows, OnlyMemory
  <2>2. \A k \in Key : Enough(bucket["redis"][k], owed["redis"][k])
    BY DEF RetryInv, Kept, Place
  <2>3. ASSUME NEW d \in Call, d # c, pc[d] = "hSet", missed'[d] = {}
        PROVE  UpToDate(d)'
    <3>1. UpToDate(d)
      BY <1>0, <2>1, <2>3 DEF RetryInv
    <3>2. /\ bucket'["redis"] = bucket["redis"] /\ owed'["redis"] = owed["redis"]
          /\ next'[d] = next[d] /\ verdict'[d] = verdict[d]
          /\ decided'[d] = decided[d]
      BY <1>0, <2>1, <2>3 DEF CheckMemoryBucket, Consume
    <3> QED BY <3>1, <3>2 DEF UpToDate, KeyOf
  <2> QED BY <1>4, <2>1, <2>2, <2>3
<1>6. ASSUME NEW c \in Call, RedisThrowsLate(c) PROVE RetryInv'
  <2>1. /\ pc[c] = "hSet" /\ CheckMemoryBucket(c, InRedis(c), OwedInRedis(c))
        /\ Overwrite(c)
    BY <1>6 DEF RedisThrowsLate
  <2>2. bucket'["redis"] = InRedis(c) /\ owed'["redis"] = OwedInRedis(c)
    BY <2>1 DEF CheckMemoryBucket
  <2>3. ASSUME NEW d \in Call, d # c, pc[d] = "hSet", missed'[d] = {}
        PROVE  UpToDate(d)'
    <3>1. /\ next'[d] = next[d] /\ verdict'[d] = verdict[d]
          /\ decided'[d] = decided[d]
      BY <1>0, <2>1, <2>3 DEF CheckMemoryBucket, Consume
    <3> QED BY <2>1, <2>2, <2>3, <3>1, OthersUpToDate
  <2> QED BY <1>4, <2>1, <2>3, WriteKeeps
<1>7. ASSUME NEW c \in Call, HSet(c) PROVE RetryInv'
  <2>1. /\ pc[c] = "hSet" /\ Overwrite(c) /\ pc' = [pc EXCEPT ![c] = verdict[c]]
        /\ bucket' = [bucket EXCEPT !["redis"] = InRedis(c)]
        /\ owed' = [owed EXCEPT !["redis"] = OwedInRedis(c)]
        /\ next' = [next EXCEPT ![c] = FullBucket]
        /\ UNCHANGED <<verdict, decided>>
    BY <1>7 DEF HSet, Goto
  <2>2. /\ bucket'["redis"] = InRedis(c) /\ owed'["redis"] = OwedInRedis(c)
        /\ bucket'["memory"] = bucket["memory"]
        /\ owed'["memory"] = owed["memory"]
    BY <2>1 DEF LimitInv, LimitTyped, Place
  <2>3. Kept'
    BY <2>1, <2>2, WriteKeeps DEF RetryInv, Kept, Place, Enough
  <2>4. ASSUME NEW d \in Call, pc'[d] = "hSet", missed'[d] = {}
        PROVE  UpToDate(d)'
    <3>1. d # c /\ pc[d] = "hSet"
      BY <1>0, <2>1, <2>4 DEF LimitInv, Dated
    <3>2. /\ next'[d] = next[d] /\ verdict'[d] = verdict[d]
          /\ decided'[d] = decided[d]
      BY <1>0, <2>1, <3>1
    <3> QED BY <2>1, <2>2, <2>4, <3>1, <3>2, OthersUpToDate
  <2> QED BY <2>3, <2>4 DEF RetryInv
<1>8. ASSUME NEW c \in Call, HGetAll(c) PROVE RetryInv'
  <2> DEFINE k == KeyOf(c)
             b == bucket["redis"][k]
             o == owed["redis"][k]
  <2>1. /\ pc' = [pc EXCEPT ![c] = "hSet"]
        /\ verdict' = [verdict EXCEPT ![c] = VerdictOn(b, clock)]
        /\ decided' = [decided EXCEPT ![c] = clock]
        /\ next' = [next EXCEPT ![c] = Consumed(b, clock)]
        /\ owed' = [owed EXCEPT !["redis"][k] = Promise(b, @)]
        /\ UNCHANGED <<bucket, missed>>
    BY <1>8 DEF HGetAll, Consume, Goto
  <2>2. k \in Key /\ b \in Bucket /\ b.last <= clock /\ o \in Nat \cup {NoValue}
    BY <1>0, KeyType DEF LimitInv, LimitTyped, Dated, Place
  <2>3. PICK p : p = Promise(b, o)
    OBVIOUS
  <2>4. owed' = [owed EXCEPT !["redis"][k] = p]
    BY <2>1, <2>3
  <2>5. Enough(b, o) /\ Enough(b, p)
    <3>1. Enough(b, o)
      BY <2>2 DEF RetryInv, Kept, Place
    <3> QED BY <1>0, <2>2, <2>3, <3>1, PromiseKept
  <2>6. /\ VerdictOn(b, clock) = "refused" => p \in Nat /\ p >= clock
        /\ VerdictOn(b, clock) # "refused" => p = o
    BY <1>0, <2>2, <2>3, <2>5, PromiseKept
  <2>7. /\ owed'["redis"] = [owed["redis"] EXCEPT ![k] = p]
        /\ owed'["memory"] = owed["memory"]
    BY <2>4 DEF LimitInv, LimitTyped, Place
  <2> HIDE DEF b, k, o
  <2>8. Kept'
    <3>1. ASSUME NEW j \in Key PROVE Enough(bucket'["redis"][j], owed'["redis"][j])
      BY <1>0, <2>1, <2>2, <2>5, <2>7 DEF RetryInv, Kept, Place, b
    <3>2. ASSUME NEW j \in Key PROVE Enough(bucket'["memory"][j], owed'["memory"][j])
      BY <2>1, <2>7 DEF RetryInv, Kept, Place
    <3> QED BY <3>1, <3>2 DEF Kept, Place, Enough
  <2>9. UpToDate(c)'
    BY <1>0, <2>1, <2>2, <2>6, <2>7 DEF UpToDate, b, k, KeyOf
  <2>10. ASSUME NEW d \in Call, d # c, pc'[d] = "hSet", missed'[d] = {}
         PROVE  UpToDate(d)'
    <3>1. UpToDate(d) /\ KeyOf(d) \in Key /\ decided[d] \in Nat /\ decided[d] <= clock
      BY <1>0, <2>1, <2>10, KeyType DEF RetryInv, LimitInv, LimitTyped, Dated
    <3>2. /\ next'[d] = next[d] /\ verdict'[d] = verdict[d]
          /\ decided'[d] = decided[d] /\ bucket' = bucket
      BY <1>0, <2>1, <2>10
    <3>3. owed'["redis"][KeyOf(d)] = owed["redis"][KeyOf(d)]
          \/ (owed'["redis"][KeyOf(d)] \in Nat /\ owed'["redis"][KeyOf(d)] >= clock)
      BY <1>0, <2>2, <2>6, <2>7, <3>1 DEF o
    <3>4. \/ owed'["redis"][KeyOf(d)] = owed["redis"][KeyOf(d)]
          \/ owed'["redis"][KeyOf(d)] >= decided[d]
      BY <1>0, <3>1, <3>3
    <3> QED BY <3>1, <3>2, <3>4 DEF UpToDate, KeyOf
  <2> QED BY <2>8, <2>9, <2>10 DEF RetryInv
<1> QED
  BY <1>2, <1>3, <1>5, <1>6, <1>7, <1>8 DEF Next, Step

\* retryAfterSeconds is enough for every check that is refused, for both rates
\* and in both places, until somebody takes a token or a write of an older
\* read replaces the bucket.
THEOREM RetryAfterEnough == Spec => []RetryAfterIsEnough
<1>1. Init => RetryInv
  BY DEF Init, RetryInv, Kept, Enough, Place
<1>2. RetryInv => RetryAfterIsEnough
  BY DEF RetryInv, Kept, Enough, RetryAfterIsEnough
<1> QED
  BY <1>1, <1>2, LimitInvInit, LimitInvStep, RetryInvStep, PTL DEF Spec

-----------------------------------------------------------------------------
(* The rates. A counter of a bucket covers checks: however far back one    *)
(* looks, what they have spent since and what it holds is no more than the *)
(* cap and what it has gained since.                                       *)

Since(dec, S, s) == {c \in S : dec[c] >= s}

Spends(dec, S, n, last, cap, rate) ==
  \A s \in 0..last :
    Cardinality(Since(dec, S, s)) * Minute + n <= cap + (last - s) * rate

Covers(dec, S, b) ==
  /\ \A c \in S : dec[c] <= b.last
  /\ Spends(dec, S, b.rps, b.last, CapRps, Rps * Minute)
  /\ Spends(dec, S, b.rpm, b.last, CapRpm, Rpm)

LEMMA SinceType ==
  ASSUME NEW dec, NEW S \in SUBSET Call, NEW s
  PROVE  /\ IsFiniteSet(Since(dec, S, s)) /\ Cardinality(Since(dec, S, s)) \in Nat
         /\ Since(dec, S, s) \subseteq S
<1>1. Since(dec, S, s) \subseteq Call /\ IsFiniteSet(Call) /\ Since(dec, S, s) \subseteq S
  BY LimitAssumption DEF Since
<1> QED BY <1>1, FS_Subset, FS_CardinalityType

\* Fewer checks spend less.
LEMMA SpendsSubset ==
  ASSUME NEW dec, NEW S \in SUBSET Call, NEW n \in Nat, NEW last \in Nat,
         NEW cap \in Nat, NEW rate \in Nat, Spends(dec, S, n, last, cap, rate),
         NEW new, NEW T \in SUBSET S, \A c \in T : new[c] = dec[c]
  PROVE  Spends(new, T, n, last, cap, rate)
<1> SUFFICES ASSUME NEW s \in 0..last
             PROVE  Cardinality(Since(new, T, s)) * Minute + n <= cap + (last - s) * rate
  BY DEF Spends
<1>1. Since(new, T, s) \subseteq Since(dec, S, s) /\ T \in SUBSET Call
  BY DEF Since
<1>2. PICK x \in Nat, y \in Nat : /\ x = Cardinality(Since(new, T, s))
                                 /\ y = Cardinality(Since(dec, S, s)) /\ x <= y
  BY <1>1, SinceType, FS_Subset
<1>m. Minute \in Nat
  BY LimitAssumption
<1>3. x * Minute \in Nat /\ y * Minute \in Nat /\ x * Minute <= y * Minute
  <2>1. PICK m \in Nat : m = Minute
    BY <1>m
  <2>2. x * m \in Nat /\ y * m \in Nat /\ x * m <= y * m
    BY <1>2, Products
  <2> QED BY <2>1, <2>2
<1>4. last - s \in Nat
  OBVIOUS
<1>5. (last - s) * rate \in Nat
  BY <1>4, Products
<1>6. y * Minute + n <= cap + (last - s) * rate
  BY <1>2 DEF Spends
<1> QED BY <1>2, <1>3, <1>5, <1>6

\* What a counter gains with time it may have to give.
LEMMA SpendsLater ==
  ASSUME NEW dec \in [Call -> Nat], NEW S \in SUBSET Call,
         NEW cap \in Nat, NEW n \in 0..cap, NEW rate \in Nat,
         NEW last \in Nat, NEW t \in Nat,
         \A c \in S : dec[c] <= last, Spends(dec, S, n, last, cap, rate)
  PROVE  Spends(dec, S, Level(cap, n, rate, t), last + t, cap, rate)
<1> SUFFICES ASSUME NEW s \in 0..(last + t)
             PROVE  Cardinality(Since(dec, S, s)) * Minute + Level(cap, n, rate, t)
                      <= cap + ((last + t) - s) * rate
  BY DEF Spends
<1>1. PICK l \in Nat : /\ l = Level(cap, n, rate, t)
                       /\ l <= cap /\ l <= n + t * rate
  <2>1. /\ Level(cap, n, rate, t) \in 0..cap
        /\ Level(cap, n, rate, t) <= n + t * rate
    BY LevelType
  <2> QED BY <2>1
<1>2. CASE s <= last
  <2>1. PICK x \in Nat : x = last - s /\ (last + t) - s = x + t
    BY <1>2
  <2>2. (x + t) * rate = x * rate + t * rate /\ x * rate \in Nat /\ t * rate \in Nat
    BY Products
  <2>3. PICK y \in Nat : y = Cardinality(Since(dec, S, s)) * Minute
    BY SinceType, LimitAssumption, Products
  <2>4. y + n <= cap + x * rate
    BY <1>2, <2>1, <2>3 DEF Spends
  <2> QED BY <1>1, <2>1, <2>2, <2>3, <2>4
<1>3. CASE s > last
  <2>1. Since(dec, S, s) = {}
    BY <1>3 DEF Since
  <2>2. Cardinality(Since(dec, S, s)) * Minute = 0
    BY <2>1, FS_EmptySet, LimitAssumption
  <2>3. (last + t) - s \in Nat
    OBVIOUS
  <2>4. ((last + t) - s) * rate \in Nat
    BY <2>3, Products
  <2> QED BY <1>1, <2>2, <2>4
<1> QED BY <1>2, <1>3

\* A token of a counter pays for a check.
LEMMA SpendsMore ==
  ASSUME NEW dec \in [Call -> Nat], NEW S \in SUBSET Call,
         NEW cap \in Nat, NEW n \in Nat, NEW rate \in Nat,
         NEW last \in Nat, Spends(dec, S, n + Minute, last, cap, rate),
         NEW c \in Call \ S
  PROVE  Spends([dec EXCEPT ![c] = last], S \cup {c}, n, last, cap, rate)
<1> DEFINE new == [dec EXCEPT ![c] = last]
<1> SUFFICES ASSUME NEW s \in 0..last
             PROVE  Cardinality(Since(new, S \cup {c}, s)) * Minute + n
                      <= cap + (last - s) * rate
  BY DEF Spends
<1>1. Since(new, S \cup {c}, s) = Since(dec, S, s) \cup {c}
  BY DEF Since
<1>2. c \notin Since(dec, S, s)
  BY DEF Since
<1>3. PICK x \in Nat : /\ x = Cardinality(Since(dec, S, s))
                       /\ Cardinality(Since(new, S \cup {c}, s)) = x + 1
  <2>1. IsFiniteSet(Since(dec, S, s)) /\ Cardinality(Since(dec, S, s)) \in Nat
    BY SinceType
  <2>2. Cardinality(Since(dec, S, s) \cup {c}) = Cardinality(Since(dec, S, s)) + 1
    BY <1>2, <2>1, FS_AddElement
  <2> QED BY <1>1, <2>1, <2>2
<1>4. (x + 1) * Minute = x * Minute + Minute /\ x * Minute \in Nat
  BY Products, LimitAssumption
<1>5. last - s \in Nat
  OBVIOUS
<1>6. (last - s) * rate \in Nat
  BY <1>5, Products
<1>7. x * Minute + (n + Minute) <= cap + (last - s) * rate
  BY <1>3 DEF Spends
<1> QED BY <1>3, <1>4, <1>6, <1>7, LimitAssumption

LEMMA CoversSubset ==
  ASSUME NEW dec, NEW S \in SUBSET Call, NEW b \in Bucket, Covers(dec, S, b),
         NEW new, NEW T \in SUBSET S, \A c \in T : new[c] = dec[c]
  PROVE  Covers(new, T, b)
<1>1. b.rps \in Nat /\ b.rpm \in Nat /\ b.last \in Nat
  BY CapType DEF Bucket
<1>2. Spends(new, T, b.rps, b.last, CapRps, Rps * Minute)
  BY <1>1, CapType, SpendsSubset DEF Covers
<1>3. Spends(new, T, b.rpm, b.last, CapRpm, Rpm)
  BY <1>1, CapType, SpendsSubset, LimitAssumption DEF Covers
<1> QED BY <1>2, <1>3 DEF Covers

LEMMA CoversLater ==
  ASSUME NEW dec \in [Call -> Nat], NEW S \in SUBSET Call, NEW b \in Bucket,
         NEW now \in Nat, b.last <= now, Covers(dec, S, b)
  PROVE  Covers(dec, S, Refilled(b, now))
<1>1. b.rps \in 0..CapRps /\ b.rpm \in 0..CapRpm /\ b.last \in Nat
  BY DEF Bucket
<1>2. PICK t \in Nat : t = now - b.last /\ b.last + t = now
  BY <1>1
<1>3. PICK f \in Bucket :
        /\ f = Refilled(b, now) /\ f.last = now
        /\ f.rps = Level(CapRps, b.rps, Rps * Minute, t)
        /\ f.rpm = Level(CapRpm, b.rpm, Rpm, t)
  BY <1>2, RefilledIs
<1>4. Spends(dec, S, f.rps, now, CapRps, Rps * Minute)
  BY <1>1, <1>2, <1>3, CapType, SpendsLater DEF Covers
<1>5. Spends(dec, S, f.rpm, now, CapRpm, Rpm)
  BY <1>1, <1>2, <1>3, CapType, SpendsLater, LimitAssumption DEF Covers
<1>6. \A c \in S : dec[c] <= now
  BY <1>1 DEF Covers
<1> QED BY <1>3, <1>4, <1>5, <1>6 DEF Covers

\* What consumeFromState leaves covers the check too, if it is let through.
LEMMA CoversChecked ==
  ASSUME NEW dec \in [Call -> Nat], NEW S \in SUBSET Call, NEW b \in Bucket,
         NEW now \in Nat, b.last <= now, Covers(dec, S, b), NEW c \in Call \ S
  PROVE  Covers([dec EXCEPT ![c] = now],
                S \cup (IF VerdictOn(b, now) = "allowed" THEN {c} ELSE {}),
                Consumed(b, now))
<1> DEFINE new == [dec EXCEPT ![c] = now]
<1>1. PICK f \in Bucket : f = Refilled(b, now) /\ f.last = now /\ Covers(dec, S, f)
  BY RefilledIs, CoversLater
<1>2. PICK g \in Bucket : g = Consumed(b, now) /\ g.last = now
  BY ConsumedIs
<1>3. g.rps \in Nat /\ g.rpm \in Nat
  BY CapType DEF Bucket
<1>4. CASE VerdictOn(b, now) = "allowed"
  <2>1. f.rps = g.rps + Minute /\ f.rpm = g.rpm + Minute
    BY <1>1, <1>2, <1>4, ConsumedIs
  <2>2. Spends(dec, S, g.rps + Minute, now, CapRps, Rps * Minute)
    BY <1>1, <2>1 DEF Covers
  <2>3. Spends(dec, S, g.rpm + Minute, now, CapRpm, Rpm)
    BY <1>1, <2>1 DEF Covers
  <2>4. Spends(new, S \cup {c}, g.rps, now, CapRps, Rps * Minute)
    BY <1>3, <2>2, CapType, SpendsMore
  <2>5. Spends(new, S \cup {c}, g.rpm, now, CapRpm, Rpm)
    BY <1>3, <2>3, CapType, SpendsMore, LimitAssumption
  <2>6. \A d \in S \cup {c} : new[d] <= now
    BY <1>1 DEF Covers
  <2> QED BY <1>2, <1>4, <2>4, <2>5, <2>6 DEF Covers
<1>5. CASE VerdictOn(b, now) # "allowed"
  <2>1. g = f
    BY <1>1, <1>2, <1>5, ConsumedIs, VerdictType
  <2>2. Covers(new, S, f)
    BY <1>1, CoversSubset
  <2> QED BY <1>2, <1>5, <2>1, <2>2
<1> QED BY <1>4, <1>5

\* Checks that place m has let through on key k, as Admitted counts them.
Through(m, k) ==
  {c \in Call : /\ pc[c] = "allowed" /\ verdict[c] = "allowed"
                /\ via[c] = m /\ KeyOf(c) = k
                /\ m = "redis" => c \notin lost}

\* Those that c has seen, and c itself if it may go on.
Seen(c) ==
  (Through("redis", KeyOf(c)) \ missed[c])
    \cup (IF verdict[c] = "allowed" THEN {c} ELSE {})

RateInv ==
  /\ \A m \in Place, k \in Key : Covers(decided, Through(m, k), bucket[m][k])
  /\ \A c \in Call : pc[c] = "config" => verdict[c] = "none"
  /\ \A c \in Call : pc[c] = "hSet" =>
       via[c] = "redis" /\ Covers(decided, Seen(c), next[c])

LEMMA RateInvInit == Init => RateInv
<1> SUFFICES ASSUME Init PROVE RateInv
  OBVIOUS
<1>1. \A m \in Place, k \in Key : Through(m, k) = {}
  BY DEF Init, Through
<1>2. ASSUME NEW s \in 0..0
      PROVE  /\ Cardinality(Since(decided, {}, s)) * Minute = 0
             /\ 0 - s = 0 /\ (0 - s) * (Rps * Minute) = 0 /\ (0 - s) * Rpm = 0
  <2>1. Since(decided, {}, s) = {} /\ s = 0
    BY DEF Since
  <2> QED BY <2>1, FS_EmptySet, CapType, LimitAssumption
<1>3. Covers(decided, {}, FullBucket)
  BY <1>2, CapType DEF Covers, Spends, FullBucket
<1> QED BY <1>1, <1>3 DEF Init, RateInv

LEMMA RateInvRates == LimitInv /\ RateInv => AdmittedWithinRates
<1> SUFFICES ASSUME LimitInv, RateInv, NEW m \in Place, NEW k \in Key,
                    NEW s \in 0..clock
             PROVE  LET spent == Cardinality(Admitted(m, k, s)) * Minute IN
                    /\ spent <= CapRps + (clock - s) * Rps * Minute
                    /\ spent <= CapRpm + (clock - s) * Rpm
  BY DEF AdmittedWithinRates
<1>1. /\ decided \in [Call -> Nat] /\ bucket[m][k] \in Bucket /\ clock \in Nat
      /\ bucket[m][k].last <= clock /\ Through(m, k) \in SUBSET Call
  BY DEF LimitInv, LimitTyped, Dated, ConfigInv, Through
<1>2. Covers(decided, Through(m, k), Refilled(bucket[m][k], clock))
  BY <1>1, CoversLater DEF RateInv
<1>3. PICK f \in Bucket : f = Refilled(bucket[m][k], clock) /\ f.last = clock
  BY <1>1, RefilledIs
<1>4. Admitted(m, k, s) = Since(decided, Through(m, k), s)
  BY DEF Admitted, Since, Through
<1>5. PICK spent \in Nat : spent = Cardinality(Admitted(m, k, s)) * Minute
  BY <1>1, <1>4, SinceType, LimitAssumption, Products
<1>6. f.rps \in Nat /\ f.rpm \in Nat
  BY CapType DEF Bucket
<1>7. /\ spent + f.rps <= CapRps + (clock - s) * (Rps * Minute)
      /\ spent + f.rpm <= CapRpm + (clock - s) * Rpm
  BY <1>2, <1>3, <1>4, <1>5 DEF Covers, Spends
<1>8. PICK t \in Nat : t = clock - s
  BY <1>1
<1>9. /\ t * (Rps * Minute) \in Nat /\ t * Rpm \in Nat
      /\ t * Rps * Minute = t * (Rps * Minute)
  BY CapType, LimitAssumption, Products
<1> QED BY <1>5, <1>6, <1>7, <1>8, <1>9, CapType

\* Steps that decide nothing.
LEMMA IdleRates ==
  ASSUME LimitInv, RateInv, bucketVars' = bucketVars, history' = history,
         NEW c \in Call, NEW l \in Location \ {"hSet", "config"},
         \/ pc' = pc
         \/ /\ pc' = [pc EXCEPT ![c] = l]
            /\ l = "allowed" => pc[c] = "config"
            /\ pc[c] # "allowed"
  PROVE  RateInv'
<1>0. pc \in [Call -> Location]
  BY DEF LimitInv, LimitTyped
<1>1. ASSUME NEW m, NEW k PROVE Through(m, k)' = Through(m, k)
  <2>1. CASE pc' = pc
    BY <2>1 DEF Through, history, KeyOf
  <2>2. CASE pc' # pc
    <3>0. pc' = [pc EXCEPT ![c] = l]
      BY <2>2
    <3>1. c \notin Through(m, k) /\ c \notin Through(m, k)'
      <4>1. /\ pc[c] # "allowed" /\ pc'[c] = l
            /\ l = "allowed" => pc[c] = "config"
        BY <1>0, <2>2, <3>0
      <4>2. pc'[c] = "allowed" => verdict'[c] = "none"
        BY <4>1 DEF RateInv, history
      <4> QED BY <4>1, <4>2 DEF Through
    <3>2. ASSUME NEW d \in Call, d # c
          PROVE  d \in Through(m, k)' <=> d \in Through(m, k)
      BY <1>0, <3>0, <3>2 DEF Through, history, KeyOf
    <3> QED BY <3>1, <3>2 DEF Through
  <2> QED BY <2>1, <2>2
<1>2. ASSUME NEW d \in Call
      PROVE  /\ pc'[d] = "hSet" => pc[d] = "hSet"
             /\ pc'[d] = "config" => pc[d] = "config"
  BY <1>0
<1>3. ASSUME NEW d \in Call PROVE Seen(d)' = Seen(d)
  BY <1>1 DEF Seen, history, KeyOf
<1> QED BY <1>1, <1>2, <1>3 DEF RateInv, bucketVars, history

\* A step of c, which has not been let through yet; no token is found again.
StepOf(c) ==
  /\ pc[c] # "allowed" /\ lost \subseteq lost'
  /\ \A d \in Call \ {c} :
       /\ pc'[d] = pc[d] /\ verdict'[d] = verdict[d] /\ via'[d] = via[d]
       /\ decided'[d] = decided[d] /\ next'[d] = next[d]

LEMMA ThroughStep ==
  ASSUME NEW c \in Call, StepOf(c), NEW m, NEW k
  PROVE  /\ Through(m, k)' \subseteq Through(m, k) \cup {c}
         /\ c \notin Through(m, k) /\ Through(m, k) \in SUBSET Call
         /\ \A d \in Through(m, k) : decided'[d] = decided[d]
         /\ c \in Through(m, k)' => /\ pc'[c] = "allowed" /\ verdict'[c] = "allowed"
                                   /\ via'[c] = m /\ KeyOf(c) = k
BY DEF StepOf, Through, KeyOf

\* What c leaves alone covers what it did.
LEMMA OtherBuckets ==
  ASSUME LimitInv, RateInv, NEW c \in Call, StepOf(c), NEW m \in Place, NEW k \in Key,
         bucket'[m][k] = bucket[m][k], c \notin Through(m, k)'
  PROVE  Covers(decided, Through(m, k), bucket[m][k])'
<1>1. /\ Through(m, k)' \in SUBSET Through(m, k) /\ Through(m, k) \in SUBSET Call
      /\ \A d \in Through(m, k)' : decided'[d] = decided[d]
  BY ThroughStep
<1>2. bucket[m][k] \in Bucket /\ Covers(decided, Through(m, k), bucket[m][k])
  BY DEF LimitInv, LimitTyped, RateInv
<1>3. Covers(decided', Through(m, k)', bucket[m][k])
  BY <1>1, <1>2, CoversSubset
<1> QED BY <1>3 DEF Covers, Spends, Since

LEMMA OtherWriters ==
  ASSUME LimitInv, RateInv, NEW c \in Call, StepOf(c), NEW d \in Call \ {c}, pc[d] = "hSet",
         c \notin Through("redis", KeyOf(d))' \/ c \in missed'[d],
         missed[d] \subseteq missed'[d]
  PROVE  via'[d] = "redis" /\ Covers(decided, Seen(d), next[d])'
<1> DEFINE S == Seen(d)
           T == Seen(d)'
<1>1. T \in SUBSET S /\ S \in SUBSET Call
  BY ThroughStep DEF Seen, StepOf, KeyOf
<1>2. \A e \in T : decided'[e] = decided[e]
  <2>1. c \notin S
    BY ThroughStep DEF Seen
  <2> QED BY <1>1, <2>1 DEF StepOf
<1>3. /\ next[d] \in Bucket /\ Covers(decided, S, next[d]) /\ via[d] = "redis"
  BY DEF LimitInv, LimitTyped, RateInv
<1> HIDE DEF S
<1>4. Covers(decided', T, next[d])
  <2> HIDE DEF T
  <2> QED BY <1>1, <1>2, <1>3, CoversSubset
<1>5. next'[d] = next[d] /\ via'[d] = via[d]
  BY DEF StepOf
<1> QED BY <1>3, <1>4, <1>5 DEF Covers, Spends, Since, T

LEMMA MemoryRates ==
  ASSUME LimitInv, RateInv, NEW c \in Call, StepOf(c), NEW inRedis, NEW owedInRedis,
         CheckMemoryBucket(c, inRedis, owedInRedis), NEW k \in Key
  PROVE  Covers(decided, Through("memory", k), bucket["memory"][k])'
<1> DEFINE b == bucket["memory"][k]
           S == Through("memory", k)
           own == IF VerdictOn(b, clock) = "allowed" THEN {c} ELSE {}
<1>1. /\ bucket["memory"] \in [Key -> Bucket] /\ b \in Bucket /\ b.last <= clock
      /\ clock \in Nat /\ decided \in [Call -> Nat] /\ Covers(decided, S, b)
      /\ DOMAIN verdict = Call
  BY DEF LimitInv, LimitTyped, Dated, ConfigInv, RateInv, Place
<1>2. CASE k = KeyOf(c)
  <2>1. /\ bucket'["memory"][k] = Consumed(b, clock)
        /\ decided' = [decided EXCEPT ![c] = clock]
        /\ verdict'[c] = VerdictOn(b, clock)
    BY <1>1, <1>2 DEF CheckMemoryBucket, Consume
  <2>2. Covers([decided EXCEPT ![c] = clock], S \cup own, Consumed(b, clock))
    <3>1. c \in Call \ S /\ S \in SUBSET Call
      BY ThroughStep
    <3> HIDE DEF S, b
    <3> QED BY <1>1, <3>1, CoversChecked
  <2>3. Through("memory", k)' \in SUBSET (S \cup own) /\ S \cup own \in SUBSET Call
    BY <2>1, ThroughStep
  <2>4. Consumed(b, clock) \in Bucket
    BY <1>1, ConsumedIs
  <2> HIDE DEF S, b, own
  <2>5. Covers(decided', Through("memory", k)', Consumed(b, clock))
    BY <2>1, <2>2, <2>3, <2>4, CoversSubset
  <2> QED BY <2>1, <2>5 DEF Covers, Spends, Since
<1>3. CASE k # KeyOf(c)
  <2>1. bucket'["memory"][k] = bucket["memory"][k]
    BY <1>1, <1>3 DEF CheckMemoryBucket
  <2>2. c \notin Through("memory", k)'
    BY <1>3, ThroughStep
  <2> QED BY <2>1, <2>2, OtherBuckets DEF Place
<1> QED BY <1>2, <1>3

\* What HSet writes covers the checks that c has seen, and the others have
\* lost their tokens.
LEMMA WriteRates ==
  ASSUME LimitInv, RateInv, NEW c \in Call, StepOf(c), pc[c] = "hSet", Overwrite(c),
         bucket'["redis"] = InRedis(c),
         pc'[c] = "allowed" /\ via'[c] = "redis" =>
           verdict[c] = "allowed" /\ decided'[c] = decided[c],
         NEW k \in Key
  PROVE  Covers(decided, Through("redis", k), bucket["redis"][k])'
<1>1. /\ bucket["redis"] \in [Key -> Bucket] /\ next[c] \in Bucket
      /\ Covers(decided, Seen(c), next[c])
  BY DEF LimitInv, LimitTyped, RateInv, Place
<1>2. CASE k = KeyOf(c)
  <2> DEFINE T == Through("redis", k)'
  <2>1. bucket'["redis"][k] = next[c]
    BY <1>1, <1>2 DEF InRedis
  <2>2. \A d \in T : d \notin missed[c]
    BY DEF Through, Overwrite
  <2>3. c \in T => verdict[c] = "allowed" /\ decided'[c] = decided[c]
    BY ThroughStep
  <2>4. /\ T \in SUBSET Seen(c) /\ Seen(c) \in SUBSET Call
        /\ \A d \in T : decided'[d] = decided[d]
    BY <1>2, <2>2, <2>3, ThroughStep DEF Seen
  <2>5. Covers(decided', T, next[c])
    <3> HIDE DEF T
    <3> QED BY <1>1, <2>4, CoversSubset
  <2> QED BY <2>1, <2>5 DEF Covers, Spends, Since
<1>3. CASE k # KeyOf(c)
  <2>1. bucket'["redis"][k] = bucket["redis"][k]
    BY <1>1, <1>3 DEF InRedis
  <2>2. c \notin Through("redis", k)'
    BY <1>3, ThroughStep
  <2> QED BY <2>1, <2>2, OtherBuckets DEF Place
<1> QED BY <1>2, <1>3

LEMMA RateInvStep == LimitInv /\ RateInv /\ [Next]_vars => RateInv'
<1> SUFFICES ASSUME LimitInv, RateInv, [Next]_vars PROVE RateInv'
  OBVIOUS
<1>0. /\ bucket["redis"] \in [Key -> Bucket] /\ pc \in [Call -> Location]
      /\ bucket \in [Place -> [Key -> Bucket]] /\ clock \in Nat
      /\ decided \in [Call -> Nat]
      /\ DOMAIN next = Call /\ DOMAIN verdict = Call /\ DOMAIN via = Call
      /\ DOMAIN missed = Call
  BY DEF LimitInv, LimitTyped, ConfigInv, Place
<1>1. CASE (ConfigNext /\ UNCHANGED <<pc, limiter>>) \/ UNCHANGED vars
  <2>1. pc' = pc /\ bucketVars' = bucketVars /\ history' = history
    BY <1>1 DEF limiter, vars
  <2>2. CASE Call = {}
    <3>1. \A m, k : Through(m, k)' = Through(m, k)
      BY <2>1 DEF Through, history, KeyOf
    <3> QED BY <2>1, <2>2, <3>1 DEF RateInv, bucketVars, history
  <2>3. CASE Call # {}
    <3>1. PICK c \in Call : TRUE
      BY <2>3
    <3> QED BY <2>1, <3>1, IdleRates DEF Location
  <2> QED BY <2>2, <2>3
<1>2. ASSUME NEW c \in Call,
             \/ ReadConfig(c) \/ ConfigThrew(c) \/ ConfigThrowsLater(c)
             \/ Connect(c) \/ UseRedis(c) \/ Connected(c)
      PROVE  RateInv'
  <2>1. bucketVars' = bucketVars /\ history' = history
    BY <1>2 DEF ReadConfig, ConfigThrew, ConfigThrowsLater, Connect, UseRedis,
       Connected, limiter
  <2>2. \E l \in Location \ {"hSet", "config"} :
          /\ pc' = [pc EXCEPT ![c] = l]
          /\ l = "allowed" => pc[c] = "config"
          /\ pc[c] # "allowed"
    BY <1>2 DEF ReadConfig, ConfigThrew, ConfigThrowsLater, Connect, UseRedis,
       Connected, Goto, Location
  <2> QED BY <2>1, <2>2, IdleRates
<1>3. ASSUME NEW c \in Call, NEW inRedis, NEW owedInRedis,
             CheckMemoryBucket(c, inRedis, owedInRedis),
             pc[c] # "allowed", lost \subseteq lost',
             \A d \in Call \ {c} : missed[d] \subseteq missed'[d],
             \A k \in Key : Covers(decided, Through("redis", k), bucket["redis"][k])'
      PROVE  RateInv'
  <2> DEFINE b == bucket["memory"][KeyOf(c)]
  <2>1. /\ pc' = [pc EXCEPT ![c] = VerdictOn(b, clock)]
        /\ via' = [via EXCEPT ![c] = "memory"]
        /\ verdict' = [verdict EXCEPT ![c] = VerdictOn(b, clock)]
        /\ decided' = [decided EXCEPT ![c] = clock]
        /\ next' = [next EXCEPT ![c] = FullBucket]
    BY <1>3 DEF CheckMemoryBucket, Consume, Goto
  <2>2. pc'[c] \in {"allowed", "refused"} /\ via'[c] = "memory"
    BY <1>0, <2>1, VerdictType
  <2> HIDE DEF b
  <2>3. StepOf(c)
    BY <1>0, <1>3, <2>1 DEF StepOf
  <2>4. \A k \in Key : Covers(decided, Through("memory", k), bucket["memory"][k])'
    BY <1>3, <2>3, MemoryRates
  <2>5. \A m \in Place, k \in Key : Covers(decided, Through(m, k), bucket[m][k])'
    BY <1>3, <2>4 DEF Place
  <2>6. ASSUME NEW d \in Call, pc'[d] = "hSet"
        PROVE  via'[d] = "redis" /\ Covers(decided, Seen(d), next[d])'
    <3>1. d # c /\ pc[d] = "hSet"
      BY <2>2, <2>3, <2>6 DEF StepOf
    <3>2. c \notin Through("redis", KeyOf(d))'
      BY <2>2, <2>3, ThroughStep
    <3> QED BY <1>3, <2>3, <3>1, <3>2, OtherWriters
  <2>7. \A d \in Call : pc'[d] = "config" => verdict'[d] = "none"
    BY <2>2, <2>3 DEF StepOf, RateInv
  <2> QED BY <2>5, <2>6, <2>7 DEF RateInv
<1>4. ASSUME NEW c \in Call, UseMemory(c) \/ NoRedis(c) \/ RedisThrows(c)
      PROVE  RateInv'
  <2>1. /\ CheckMemoryBucket(c, bucket["redis"], owed["redis"])
        /\ missed' = [missed EXCEPT ![c] = {}] /\ lost' = lost
        /\ pc[c] # "allowed"
    BY <1>4 DEF UseMemory, NoRedis, RedisThrows, OnlyMemory
  <2>2. /\ StepOf(c) /\ bucket'["redis"] = bucket["redis"] /\ via'[c] = "memory"
    BY <1>0, <2>1 DEF StepOf, CheckMemoryBucket, Consume, Goto
  <2>3. ASSUME NEW k \in Key
        PROVE  Covers(decided, Through("redis", k), bucket["redis"][k])'
    <3>1. c \notin Through("redis", k)'
      BY <2>2, ThroughStep
    <3> QED BY <2>2, <3>1, OtherBuckets DEF Place
  <2>4. \A d \in Call \ {c} : missed[d] \subseteq missed'[d]
    BY <1>0, <2>1
  <2> QED BY <1>3, <2>1, <2>3, <2>4
<1>5. ASSUME NEW c \in Call, Overwrite(c)
      PROVE  /\ lost \subseteq lost'
             /\ \A d \in Call \ {c} :
                  /\ missed[d] \subseteq missed'[d]
                  /\ pc[d] = "hSet" /\ KeyOf(d) = KeyOf(c) => c \in missed'[d]
  BY <1>5 DEF Overwrite
<1>6. ASSUME NEW c \in Call, RedisThrowsLate(c) PROVE RateInv'
  <2>1. /\ pc[c] = "hSet" /\ CheckMemoryBucket(c, InRedis(c), OwedInRedis(c))
        /\ Overwrite(c)
    BY <1>6 DEF RedisThrowsLate
  <2>2. /\ StepOf(c) /\ bucket'["redis"] = InRedis(c) /\ via'[c] = "memory"
    BY <1>0, <1>5, <2>1 DEF StepOf, CheckMemoryBucket, Consume, Goto
  <2>3. \A k \in Key : Covers(decided, Through("redis", k), bucket["redis"][k])'
    BY <2>1, <2>2, WriteRates
  <2> QED BY <1>3, <1>5, <2>1, <2>3
<1>7. ASSUME NEW c \in Call, HSet(c) PROVE RateInv'
  <2>1. /\ pc[c] = "hSet" /\ Overwrite(c) /\ pc' = [pc EXCEPT ![c] = verdict[c]]
        /\ bucket' = [bucket EXCEPT !["redis"] = InRedis(c)]
        /\ next' = [next EXCEPT ![c] = FullBucket]
        /\ UNCHANGED <<verdict, via, decided>>
    BY <1>7 DEF HSet, Goto
  <2>2. /\ StepOf(c) /\ bucket'["redis"] = InRedis(c)
        /\ bucket'["memory"] = bucket["memory"]
    BY <1>0, <1>5, <2>1 DEF StepOf, Place
  <2>3. pc'[c] = verdict[c] /\ verdict[c] \in {"allowed", "refused"}
    BY <1>0, <2>1 DEF LimitInv, Dated
  <2>4. via[c] = "redis" /\ via'[c] = "redis"
    BY <2>1 DEF RateInv
  <2>5. \A k \in Key : Covers(decided, Through("redis", k), bucket["redis"][k])'
    BY <2>1, <2>2, <2>3, WriteRates
  <2>6. ASSUME NEW k \in Key
        PROVE  Covers(decided, Through("memory", k), bucket["memory"][k])'
    <3>1. c \notin Through("memory", k)'
      BY <2>2, <2>4, ThroughStep
    <3> QED BY <2>2, <3>1, OtherBuckets DEF Place
  <2>7. ASSUME NEW d \in Call, pc'[d] = "hSet"
        PROVE  via'[d] = "redis" /\ Covers(decided, Seen(d), next[d])'
    <3>1. d \in Call \ {c} /\ pc[d] = "hSet"
      BY <2>2, <2>3, <2>7 DEF StepOf
    <3>2. c \in missed'[d] \/ c \notin Through("redis", KeyOf(d))'
      BY <1>5, <2>1, <2>2, <3>1, ThroughStep
    <3>3. missed[d] \subseteq missed'[d]
      BY <1>5, <2>1, <3>1
    <3> QED BY <2>2, <3>1, <3>2, <3>3, OtherWriters
  <2>8. \A d \in Call : pc'[d] = "config" => verdict'[d] = "none"
    BY <2>2, <2>3 DEF StepOf, RateInv
  <2> QED BY <2>5, <2>6, <2>7, <2>8 DEF RateInv, Place
<1>8. ASSUME NEW c \in Call, HGetAll(c) PROVE RateInv'
  <2> DEFINE k == KeyOf(c)
             b == bucket["redis"][k]
             S == Through("redis", k)
             own == IF VerdictOn(b, clock) = "allowed" THEN {c} ELSE {}
  <2>1. /\ pc[c] = "hGetAll" /\ pc' = [pc EXCEPT ![c] = "hSet"]
        /\ verdict' = [verdict EXCEPT ![c] = VerdictOn(b, clock)]
        /\ via' = [via EXCEPT ![c] = "redis"]
        /\ decided' = [decided EXCEPT ![c] = clock]
        /\ next' = [next EXCEPT ![c] = Consumed(b, clock)]
        /\ UNCHANGED <<bucket, missed, lost>>
    BY <1>8 DEF HGetAll, Consume, Goto
  <2>2. StepOf(c) /\ pc'[c] = "hSet" /\ via'[c] = "redis"
    BY <1>0, <2>1 DEF StepOf
  <2>3. k \in Key /\ b \in Bucket /\ b.last <= clock /\ Covers(decided, S, b)
    BY <1>0, KeyType DEF LimitInv, Dated, RateInv, Place
  <2>4. \A m, j : c \notin Through(m, j)'
    BY <2>2, ThroughStep
  <2>5. \A m \in Place, j \in Key : Covers(decided, Through(m, j), bucket[m][j])'
    BY <2>1, <2>2, <2>4, OtherBuckets
  <2>6. Covers(decided, Seen(c), next[c])'
    <3>1. c \in Call \ S /\ S \in SUBSET Call
      BY <2>2, ThroughStep
    <3>2. Covers([decided EXCEPT ![c] = clock], S \cup own, Consumed(b, clock))
      <4> HIDE DEF S, b
      <4> QED BY <1>0, <2>3, <3>1, CoversChecked
    <3>3. Seen(c)' \in SUBSET (S \cup own) /\ S \cup own \in SUBSET Call
      <4>1. Through("redis", k)' \subseteq S
        BY <2>2, <2>4, ThroughStep
      <4>2. verdict'[c] = VerdictOn(b, clock)
        BY <1>0, <2>1
      <4>3. Seen(c)' \subseteq Through("redis", k)' \cup own
        BY <4>2 DEF Seen, KeyOf
      <4> QED BY <3>1, <4>1, <4>3
    <3>4. Consumed(b, clock) \in Bucket
      BY <1>0, <2>3, ConsumedIs
    <3>5. decided' = [decided EXCEPT ![c] = clock] /\ next'[c] = Consumed(b, clock)
      BY <1>0, <2>1
    <3> HIDE DEF S, own, b, k
    <3>6. Covers(decided', Seen(c)', next'[c])
      BY <3>2, <3>3, <3>4, <3>5, CoversSubset
    <3> QED BY <3>6 DEF Covers, Spends, Since
  <2>7. ASSUME NEW d \in Call \ {c}, pc'[d] = "hSet"
        PROVE  via'[d] = "redis" /\ Covers(decided, Seen(d), next[d])'
    <3>1. pc[d] = "hSet" /\ missed[d] \subseteq missed'[d]
      BY <2>1, <2>2, <2>7 DEF StepOf
    <3> QED BY <2>2, <2>4, <3>1, OtherWriters
  <2>8. \A d \in Call : pc'[d] = "config" => verdict'[d] = "none"
    BY <2>2 DEF StepOf, RateInv
  <2> QED BY <2>2, <2>5, <2>6, <2>7, <2>8 DEF RateInv
<1> QED
  BY <1>1, <1>2, <1>4, <1>6, <1>7, <1>8 DEF Next, Step

\* However checks interleave at Redis and whatever fails, neither place lets
\* more checks through than its rates and the burst: what exceeds them has
\* been spent from a bucket that an older write gave back.
THEOREM WithinRates == Spec => []AdmittedWithinRates
BY LimitInvInit, LimitInvStep, RateInvInit, RateInvStep, RateInvRates, PTL DEF Spec

=============================================================================
