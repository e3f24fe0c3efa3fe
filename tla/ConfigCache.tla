----------------------------- MODULE ConfigCache ------------------------------
(***************************************************************************)
(* getConfig of the gateway's resolver.ts for one key: a cache in front of *)
(* admin_config whose time to live is itself a row of that table, looked   *)
(* up again at most once per TtlRefresh. Calls interleave at their         *)
(* queries, and administrators edit the rows meanwhile.                    *)
(*                                                                         *)
(* A row is known by the number of edits it has seen; what it holds is a   *)
(* function of that. Calls answer between ticks or across them.            *)
(***************************************************************************)
EXTENDS Naturals, FiniteSets

CONSTANTS
  Call,         \* invocations of getConfig(key)
  NoValue,      \* not a version
  TtlRows,      \* TtlRows[v]: config.cache_ttl_ms after its v-th edit
  DefaultTtl,   \* taken for a row that is no positive number
  TtlRefresh,   \* the 60000 ms of refreshCacheTtlIfNeeded
  MaxEdits,     \* bound: edits of the key
  MaxTtlEdits,  \* bound: edits of config.cache_ttl_ms
  MaxClock,     \* bound: the clock stops there
  Faults        \* which of FaultKinds can happen

\* A query throws.
ConfigFaultKinds == {"dbError"}

TtlVersion == 0..MaxTtlEdits

ASSUME ConfigAssumption ==
  /\ NoValue \notin Nat
  /\ MaxTtlEdits \in Nat
  /\ TtlRows \in [TtlVersion -> Nat]
  /\ DefaultTtl \in Nat \ {0} /\ TtlRefresh \in Nat \ {0}
  /\ MaxEdits \in Nat /\ MaxClock \in Nat

\* Number.isFinite(parsed) && parsed > 0 ? parsed : 10000
TtlOf(v) == IF TtlRows[v] > 0 THEN TtlRows[v] ELSE DefaultTtl

Ttls == {TtlOf(v) : v \in TtlVersion} \cup {DefaultTtl}

VARIABLES
  clock,      \* Date.now()
  row,        \* edits admin_config has seen of the key
  editedAt,   \* editedAt[v]: when the row became version v
  ttlRow,     \* edits it has seen of config.cache_ttl_ms
  ttl,        \* cacheTtlMs
  ttlAt,      \* cacheTtlLoadedAt
  entry,      \* cache.get(key); value NoValue without one
  at,         \* at[c]: where getConfig(c) is
  began,      \* began[c]: the now it has taken
  fetched,    \* fetched[c]: the row its query has brought
  got         \* got[c]: the version it has returned

table  == <<row, editedAt, ttlRow>>
cached == <<ttl, ttlAt, entry>>
call   == <<at, began, fetched, got>>
configVars == <<clock, table, cached, call>>

-----------------------------------------------------------------------------
Version == 0..MaxEdits

ConfigTypeOK ==
  /\ clock \in Nat
  /\ row \in Version
  /\ editedAt \in [Version -> Nat]
  /\ ttlRow \in TtlVersion
  /\ ttl \in Nat \ {0} /\ ttlAt \in Nat
  /\ entry \in [value : Version \cup {NoValue}, expiresAt : Nat]
  /\ at \in [Call -> {"new", "ttl", "ttlSet", "load", "set", "done", "thrown",
                   "over"}]
  /\ began \in [Call -> Nat]
  /\ fetched \in [Call -> Version \cup TtlVersion \cup {NoValue}]
  /\ got \in [Call -> Version \cup {NoValue}]

\* At the start cacheTtlLoadedAt is 0, more than TtlRefresh ago.
ConfigInit ==
  /\ clock = TtlRefresh
  /\ row = 0 /\ editedAt = [v \in Version |-> 0]
  /\ ttlRow = 0
  /\ ttl = DefaultTtl /\ ttlAt = 0
  /\ entry = [value |-> NoValue, expiresAt |-> 0]
  /\ at = [c \in Call |-> "new"]
  /\ began = [c \in Call |-> 0]
  /\ fetched = [c \in Call |-> NoValue]
  /\ got = [c \in Call |-> NoValue]

-----------------------------------------------------------------------------
(* getConfig *)

\* The entry is compared with the now of the start; what has expired is
\* loaded. (at is the caller's record of where it goes on.)
Lookup(c, now) ==
  LET hit == entry.value # NoValue /\ entry.expiresAt > now IN
  /\ at' = [at EXCEPT ![c] = IF hit THEN "done" ELSE "load"]
  /\ got' = [got EXCEPT ![c] = IF hit THEN entry.value ELSE @]

\* refreshCacheTtlIfNeeded returns at once, or queries.
Begin(c) ==
  /\ at[c] = "new"
  /\ began' = [began EXCEPT ![c] = clock]
  /\ IF clock - ttlAt < TtlRefresh
       THEN Lookup(c, clock)
       ELSE at' = [at EXCEPT ![c] = "ttl"] /\ UNCHANGED got
  /\ UNCHANGED <<clock, table, cached, fetched>>

\* The database executes one of the two queries.
Fetch(c, query, version, next) ==
  /\ at[c] = query
  /\ at' = [at EXCEPT ![c] = next]
  /\ fetched' = [fetched EXCEPT ![c] = version]
  /\ UNCHANGED <<clock, table, cached, began, got>>

FetchTtl(c) == Fetch(c, "ttl", ttlRow, "ttlSet")
FetchRow(c) == Fetch(c, "load", row, "set")

\* Whichever refresh ends last is in force, with the now of its start.
SetTtl(c) ==
  /\ at[c] = "ttlSet"
  /\ ttl' = TtlOf(fetched[c])
  /\ ttlAt' = began[c]
  /\ Lookup(c, began[c])
  /\ fetched' = [fetched EXCEPT ![c] = NoValue]
  /\ UNCHANGED <<clock, table, entry, began>>

\* Mutant: the entry lives from when it was loaded.
SetEntryLate(c) ==
  /\ at[c] = "set"
  /\ entry' = [value |-> fetched[c], expiresAt |-> clock + ttl]
  /\ at' = [at EXCEPT ![c] = "done"]
  /\ got' = [got EXCEPT ![c] = fetched[c]]
  /\ fetched' = [fetched EXCEPT ![c] = NoValue]
  /\ UNCHANGED <<clock, table, ttl, ttlAt, began>>

\* The entry lives from when the call began, however long the query took.
SetEntry(c) ==
  /\ at[c] = "set"
  /\ entry' = [value |-> fetched[c], expiresAt |-> began[c] + ttl]
  /\ at' = [at EXCEPT ![c] = "done"]
  /\ got' = [got EXCEPT ![c] = fetched[c]]
  /\ fetched' = [fetched EXCEPT ![c] = NoValue]
  /\ UNCHANGED <<clock, table, ttl, ttlAt, began>>

QueryThrows(c) ==
  /\ "dbError" \in Faults
  /\ at[c] \in {"ttl", "load"}
  /\ at' = [at EXCEPT ![c] = "thrown"]
  /\ UNCHANGED <<clock, table, cached, began, fetched, got>>

\* The caller goes on; got and began were its frame.
Return(c) ==
  /\ at' = [at EXCEPT ![c] = "over"]
  /\ began' = [began EXCEPT ![c] = 0]
  /\ got' = [got EXCEPT ![c] = NoValue]
  /\ UNCHANGED <<clock, table, cached, fetched>>

GetConfig(c) ==
  Begin(c) \/ FetchTtl(c) \/ SetTtl(c) \/ FetchRow(c) \/ SetEntry(c)

-----------------------------------------------------------------------------
(* Administrators and time *)

EditRow ==
  /\ row < MaxEdits
  /\ row' = row + 1
  /\ editedAt' = [editedAt EXCEPT ![row + 1] = clock]
  /\ UNCHANGED <<clock, ttlRow, cached, call>>

EditTtl ==
  /\ ttlRow + 1 \in TtlVersion
  /\ ttlRow' = ttlRow + 1
  /\ UNCHANGED <<clock, row, editedAt, cached, call>>

ConfigTick ==
  /\ clock < MaxClock
  /\ clock' = clock + 1
  /\ UNCHANGED <<table, cached, call>>

ConfigNext ==
  \/ \E c \in Call : GetConfig(c) \/ QueryThrows(c)
  \/ EditRow \/ EditTtl \/ ConfigTick

ConfigSpec == ConfigInit /\ [][ConfigNext]_configVars

-----------------------------------------------------------------------------
(* Properties *)

\* What getConfig returns was in the table less than a time to live before
\* the call began, or later: concurrent loads, slow queries and the edit of
\* the time to live itself do not make a value any older.
BoundedStaleness ==
  \A c \in Call :
    at[c] = "done" /\ got[c] # row
    => \E t \in Ttls : editedAt[got[c] + 1] + t > began[c]
=============================================================================
