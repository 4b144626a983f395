----------------------------- MODULE LimitsCache -----------------------------
(***************************************************************************)
(* The read-through cache of a tenant's limits, tenantLimits and           *)
(* loadLimits of internal/usecases/quota/enforcer.go.  Requests refresh it *)
(* concurrently, the lock is not held across the load, an administrator    *)
(* changes the limits at any time, and a load may fail.  The entries of    *)
(* two tenants have nothing in common: this is one tenant's.               *)
(***************************************************************************)
EXTENDS Naturals

CONSTANTS
  Requests,     \* calls of tenantLimits
  TTL,          \* Config.LimitsTTL, in ticks of the clock
  MaxClock,     \* bound: how far the clock runs
  MaxVersion    \* bound: how often the limits change

ASSUME CacheAssumption ==
  /\ TTL \in Nat \ {0}
  /\ MaxClock \in Nat
  /\ MaxVersion \in Nat

VARIABLES
  clock,      \* the time
  version,    \* how often the tenant's limits changed in Postgres
  since,      \* since[t]: the version when tick t began
  entry,      \* e.limits[tenant]
  phase,      \* "idle", "sampled", "loading", "loaded", "served", "stale", "refused"
  at,         \* now, as each request sampled it
  had,        \* the entry each request looked up
  got         \* the version each request loaded, then the one it enforces

vars == <<clock, version, since, entry, phase, at, had, got>>

None == [some |-> FALSE, version |-> 0, fetched |-> 0]
Entries == [some : BOOLEAN, version : Nat, fetched : Nat]
Phases == {"idle", "sampled", "loading", "loaded", "served", "stale", "refused"}

\* The types; and no entry comes from the future.
TypeOK ==
  /\ clock \in 0..MaxClock
  /\ version \in Nat
  /\ since \in [0..MaxClock -> Nat]
  /\ entry \in Entries /\ entry.fetched <= clock
  /\ phase \in [Requests -> Phases]
  /\ at \in [Requests -> Nat]
  /\ had \in [Requests -> Entries]
  /\ got \in [Requests -> Nat]

Init ==
  /\ clock = 0
  /\ version = 0
  /\ since = [t \in 0..MaxClock |-> 0]
  /\ entry = None
  /\ phase = [r \in Requests |-> "idle"]
  /\ at = [r \in Requests |-> 0]
  /\ had = [r \in Requests |-> None]
  /\ got = [r \in Requests |-> 0]

Advance ==
  /\ clock < MaxClock
  /\ clock' = clock + 1
  /\ since' = [since EXCEPT ![clock + 1] = version]
  /\ UNCHANGED <<version, entry, phase, at, had, got>>

\* An administrator changes the tenant's quotas.
ChangeLimits ==
  /\ version < MaxVersion
  /\ version' = version + 1
  /\ UNCHANGED <<clock, since, entry, phase, at, had, got>>

\* now := e.now()
Sample(r) ==
  /\ phase[r] = "idle"
  /\ phase' = [phase EXCEPT ![r] = "sampled"]
  /\ at' = [at EXCEPT ![r] = clock]
  /\ UNCHANGED <<clock, version, since, entry, had, got>>

\* An entry another request fetched after now is fresh too.
Fresh(e, now) == e.some /\ now < e.fetched + TTL

\* The entry is read under the lock, and the lock is dropped.
Hit(r) ==
  /\ phase[r] = "sampled"
  /\ Fresh(entry, at[r])
  /\ phase' = [phase EXCEPT ![r] = "served"]
  /\ had' = [had EXCEPT ![r] = entry]
  /\ got' = [got EXCEPT ![r] = entry.version]
  /\ UNCHANGED <<clock, version, since, entry, at>>

Miss(r) ==
  /\ phase[r] = "sampled"
  /\ ~Fresh(entry, at[r])
  /\ phase' = [phase EXCEPT ![r] = "loading"]
  /\ had' = [had EXCEPT ![r] = entry]
  /\ UNCHANGED <<clock, version, since, entry, at, got>>

Load(r) ==
  /\ phase[r] = "loading"
  /\ phase' = [phase EXCEPT ![r] = "loaded"]
  /\ got' = [got EXCEPT ![r] = version]
  /\ UNCHANGED <<clock, version, since, entry, at, had>>

\* Mutation: a failed refresh refuses the request.
FailRefuses(r) ==
  /\ phase[r] = "loading"
  /\ phase' = [phase EXCEPT ![r] = "refused"]
  /\ UNCHANGED <<clock, version, since, entry, at, had, got>>

\* A failed refresh serves the entry the request found, however old.
Fail(r) ==
  /\ phase[r] = "loading"
  /\ \/ /\ had[r].some
        /\ phase' = [phase EXCEPT ![r] = "stale"]
        /\ got' = [got EXCEPT ![r] = had[r].version]
     \/ /\ ~had[r].some
        /\ phase' = [phase EXCEPT ![r] = "refused"]
        /\ UNCHANGED got
  /\ UNCHANGED <<clock, version, since, entry, at, had>>

\* Mutation: the entry is stamped with the time it is stored.
StampStored(r) == clock

\* The stamp is the time sampled before the load, not after it.
Stamp(r) == at[r]

Store(r) ==
  /\ phase[r] = "loaded"
  /\ entry' = [some |-> TRUE, version |-> got[r], fetched |-> Stamp(r)]
  /\ phase' = [phase EXCEPT ![r] = "served"]
  /\ UNCHANGED <<clock, version, since, at, had, got>>

Step(r) == Sample(r) \/ Hit(r) \/ Miss(r) \/ Load(r) \/ Fail(r) \/ Store(r)

Next == Advance \/ ChangeLimits \/ \E r \in Requests : Step(r)

Spec == Init /\ [][Next]_vars

(***************************************************************************)
(* Properties.                                                             *)
(***************************************************************************)

\* "Quotas change rarely ... a short-lived cache": unless a refresh failed, a
\* request enforces limits no older than TTL, whatever the order in which
\* concurrent loads finish and overwrite each other's entries.
StalenessBounded ==
  \A r \in Requests : phase[r] = "served" =>
    \A t \in 0..MaxClock : t + TTL <= at[r] + 1 => since[t] <= got[r]

\* "A failed refresh serves the stale entry: old limits beat no limits": once
\* there is an entry, a request yet to look it up is never refused for want of one.
OldLimitsBeatNone ==
  \A r \in Requests :
    [](entry.some /\ phase[r] \in {"idle", "sampled"} => [](phase[r] # "refused"))

(***************************************************************************)
(* Why the staleness is bounded: an entry holds at least the limits of the *)
(* tick it is stamped with.                                                *)
(***************************************************************************)

HistoryInv ==
  /\ \A t, u \in 0..MaxClock : t <= u /\ u <= clock => since[t] <= since[u]
  /\ \A t \in 0..MaxClock : t <= clock => since[t] <= version

EntryInv ==
  /\ entry.some => since[entry.fetched] <= entry.version
  /\ \A r \in Requests : at[r] <= clock
  /\ \A r \in Requests : phase[r] = "loaded" => since[at[r]] <= got[r]

\* The inductive invariant of the proof in module LimitsCacheProofs.
IndInv == TypeOK /\ HistoryInv /\ EntryInv /\ StalenessBounded
=============================================================================
