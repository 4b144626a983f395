---------------------------- MODULE QuotaEnforcer ----------------------------
(***************************************************************************)
(* Spend caps of one tenant, enforced by several replicas of the proxy     *)
(* against counters they share in Redis and rebuild from Postgres:         *)
(*                                                                         *)
(*   internal/usecases/quota/enforcer.go          Reserve, Reconcile, the  *)
(*                                                resync loop, the outage  *)
(*                                                policy                   *)
(*   internal/adapters/repositories/redisquota/   the three Lua scripts    *)
(*   internal/adapters/repositories/usage_counters.go  the durable side    *)
(*                                                                         *)
(* A usage has three fields (requests, tokens, cost).  Only the cost is    *)
(* ever compared with a limit and the scripts treat each field alike, so   *)
(* the model keeps the cost.  Redis runs a script atomically; every other  *)
(* pair of calls of one request may interleave with any other actor.       *)
(* The delta flusher is kept abstract here (a set of accepted deltas):     *)
(* module Flusher is its detail.                                           *)
(***************************************************************************)
EXTENDS Totals

CONSTANTS
  Requests,       \* completion requests of the tenant
  Replicas,       \* proxy processes; each also names its resync loop
  Host,           \* [Requests -> Replicas]: where each request was routed
  Windows,        \* counters: one per window of the tenant
  Spans,          \* the window sets ApplicableLimits may return at some time
  MaxCost,        \* [Windows -> Nat]: what may be spent in a window
  Block,          \* [Windows -> BOOLEAN]: crossing it rejects the request
  Costs,          \* the costs a request may be estimated at, or really have
  FailClosed,     \* on_unavailable: refuse (TRUE) or serve unenforced (FALSE)
  MaxSeedRounds,  \* maxSeedRounds in the code
  MaxFaults       \* bound: how many failures one behaviour may contain

ASSUME QuotaAssumption ==
  /\ IsFiniteSet(Requests)
  /\ Requests \cap Replicas = {}
  /\ Host \in [Requests -> Replicas]
  /\ Spans \subseteq (SUBSET Windows) \ {{}}
  /\ MaxCost \in [Windows -> Nat]
  /\ Block \in [Windows -> BOOLEAN]
  /\ Costs \subseteq Nat
  /\ FailClosed \in BOOLEAN
  /\ MaxSeedRounds \in Nat \ {0}
  /\ MaxFaults \in Nat

VARIABLES
  \* Redis
  live,       \* windows whose counter key exists
  counter,    \* cost_nanos of each counter (0 where the key is absent)
  backup,     \* what the asynchronous Redis replica holds: [live, counter]
  \* Postgres
  durable,    \* usage_counters.cost_nanos of each window
  \* each replica
  unflushed,  \* deltas <<request, window>> its flusher has accepted
  degraded,   \* Enforcer.degraded
  wake,       \* a token in the wake channel, which has room for one
  known,      \* the tenant is in the limits cache
  \* each request
  status,     \* where in Reserve or Reconcile it is
  span,       \* the windows its reservation covers
  reserved,   \* its estimated cost
  actual,     \* what it turned out to cost; 0 until it is reconciled
  round,      \* seed rounds done by its Reserve
  toAdd,      \* windows whose delta Reconcile has yet to hand over
  \* each rehydration: a request's, or a replica's resync pass
  asked,      \* windows being rehydrated; {} when there is none
  unread,     \* those of them not yet read from Postgres
  snap,       \* what was read
  \* calls whose caller has given up and which Redis may still run
  strayReserves,  \* requests whose reservation is one
  strayAdjusts,   \* requests whose correction is one
  straySeeds,     \* the windows and the snapshot of each seed that is one
  \* history, read by no action
  applied,    \* requests whose reserve script incremented the counters
  adjusted,   \* requests whose adjust script ran
  landed,     \* deltas committed to Postgres at least once
  late,       \* deltas whose correction ran after they were committed
  dup,        \* what Postgres counted twice because a commit was ambiguous
  intact,     \* windows Redis has neither lost nor rolled back
  faults      \* failures so far

redisVars == <<live, counter, backup, intact>>
storeVars == <<durable, landed, late, dup>>
procVars  == <<unflushed, degraded, wake, known>>
seedVars  == <<asked, unread, snap>>
strayVars == <<strayReserves, strayAdjusts, straySeeds>>
vars == <<live, counter, backup, durable, unflushed, degraded, wake, known,
          status, span, reserved, actual, round, toAdd, asked, unread,
          snap, strayReserves, strayAdjusts, straySeeds, applied, adjusted,
          landed, late, dup, intact, faults>>

Agents == Requests \cup Replicas

Statuses == {"new", "reserving", "rehydrating", "admitted", "adding", "done",
             "blocked", "refused", "unenforced", "crashed"}

Deltas == Requests \X Windows

Seeds == [windows : SUBSET Windows, snap : [Windows -> Nat]]

TypeOK ==
  /\ live \subseteq Windows
  /\ counter \in [Windows -> Int]
  /\ backup \in [live : SUBSET Windows, counter : [Windows -> Int]]
  /\ durable \in [Windows -> Nat]
  /\ unflushed \in [Replicas -> SUBSET Deltas]
  /\ degraded \in [Replicas -> BOOLEAN]
  /\ wake \in [Replicas -> BOOLEAN]
  /\ known \in [Replicas -> BOOLEAN]
  /\ status \in [Requests -> Statuses]
  /\ span \in [Requests -> SUBSET Windows]
  /\ reserved \in [Requests -> Nat]
  /\ actual \in [Requests -> Nat]
  /\ round \in [Requests -> Nat]
  /\ toAdd \in [Requests -> SUBSET Windows]
  /\ asked \in [Agents -> SUBSET Windows]
  /\ unread \in [Agents -> SUBSET Windows]
  /\ snap \in [Agents -> [Windows -> Nat]]
  /\ strayReserves \subseteq Requests
  /\ strayAdjusts \subseteq Requests
  /\ straySeeds \subseteq Seeds
  /\ applied \subseteq Requests
  /\ adjusted \subseteq Requests
  /\ landed \subseteq Deltas
  /\ late \subseteq Deltas
  /\ dup \in [Windows -> Nat]
  /\ intact \subseteq Windows
  /\ faults \in Nat

Init ==
  /\ live = {}
  /\ counter = [w \in Windows |-> 0]
  /\ backup = [live |-> {}, counter |-> [w \in Windows |-> 0]]
  /\ durable = [w \in Windows |-> 0]
  /\ unflushed = [p \in Replicas |-> {}]
  /\ degraded = [p \in Replicas |-> FALSE]
  /\ wake = [p \in Replicas |-> FALSE]
  /\ known = [p \in Replicas |-> FALSE]
  /\ status = [r \in Requests |-> "new"]
  /\ span = [r \in Requests |-> {}]
  /\ reserved = [r \in Requests |-> 0]
  /\ actual = [r \in Requests |-> 0]
  /\ round = [r \in Requests |-> 0]
  /\ toAdd = [r \in Requests |-> {}]
  /\ asked = [a \in Agents |-> {}]
  /\ unread = [a \in Agents |-> {}]
  /\ snap = [a \in Agents |-> [w \in Windows |-> 0]]
  /\ strayReserves = {}
  /\ strayAdjusts = {}
  /\ straySeeds = {}
  /\ applied = {}
  /\ adjusted = {}
  /\ landed = {}
  /\ late = {}
  /\ dup = [w \in Windows |-> 0]
  /\ intact = Windows
  /\ faults = 0

(***************************************************************************)
(* The outage policy.                                                      *)
(***************************************************************************)

\* A failure: at most MaxFaults in a behaviour.
Fault == faults < MaxFaults /\ faults' = faults + 1

\* What an unenforceable request is answered with: ErrQuotaUnavailable, or a
\* zero reservation under which it is served without being counted.
Unenforceable == IF FailClosed THEN "refused" ELSE "unenforced"

\* failed: apply the policy to r, and remember that enforcement is degraded.
Failed(r) ==
  /\ status' = [status EXCEPT ![r] = Unenforceable]
  /\ degraded' = [degraded EXCEPT ![Host[r]] = TRUE]
  /\ UNCHANGED <<wake, known>>

\* recovered, and requestResync: a non-blocking send on a channel of one.
Recovered(p) ==
  /\ degraded' = [degraded EXCEPT ![p] = FALSE]
  /\ wake' = [wake EXCEPT ![p] = @ \/ degraded[p]]
  /\ UNCHANGED known

(***************************************************************************)
(* Reserve: limits and estimate.                                           *)
(***************************************************************************)

\* The limits are read, some apply, and the request is priced at c.
Arrive(r, ws, c) ==
  /\ status[r] = "new"
  /\ status' = [status EXCEPT ![r] = "reserving"]
  /\ span' = [span EXCEPT ![r] = ws]
  /\ reserved' = [reserved EXCEPT ![r] = c]
  /\ known' = [known EXCEPT ![Host[r]] = TRUE]
  /\ UNCHANGED <<redisVars, storeVars, unflushed, degraded, wake, actual, round,
                 toAdd, seedVars, strayVars, applied, adjusted, faults>>

\* No quota covers the request, or none of its targets has a price.
ArriveUnchecked(r) ==
  /\ status[r] = "new"
  /\ \/ status' = [status EXCEPT ![r] = "unenforced"]
     \/ status' = [status EXCEPT ![r] = Unenforceable]
  /\ known' = [known EXCEPT ![Host[r]] = TRUE]
  /\ UNCHANGED <<redisVars, storeVars, unflushed, degraded, wake, span,
                 reserved, actual, round, toAdd, seedVars, strayVars, applied,
                 adjusted, faults>>

\* Postgres cannot say what the limits are and no cached set can stand in.
LimitsUnavailable(r) ==
  /\ status[r] = "new"
  /\ ~known[Host[r]]
  /\ Fault
  /\ Failed(r)
  /\ UNCHANGED <<redisVars, storeVars, unflushed, span, reserved, actual, round,
                 toAdd, seedVars, strayVars, applied, adjusted>>

(***************************************************************************)
(* Reserve: one run of reserve.lua, and the answers it may give.           *)
(***************************************************************************)

\* Mutation: the script compares what is spent and forgets the reservation.
CrossedBySpent(r) == {w \in span[r] : Block[w] /\ counter[w] > MaxCost[w]}

\* Windows of r whose blocking cap the reservation would cross.
Crossed(r) == {w \in span[r] : Block[w] /\ counter[w] + reserved[r] > MaxCost[w]}

\* The script increments every window of r.
Increment(r) ==
  /\ counter' = [w \in Windows |->
                   IF w \in span[r] THEN counter[w] + reserved[r] ELSE counter[w]]
  /\ applied' = applied \cup {r}

\* {'missing', ...}: nothing reserved, the missing windows are to be seeded.
ReserveMissing(r) ==
  /\ status[r] = "reserving"
  /\ span[r] \ live # {}
  /\ status' = [status EXCEPT ![r] = "rehydrating"]
  /\ asked' = [asked EXCEPT ![r] = span[r] \ live]
  /\ unread' = [unread EXCEPT ![r] = span[r] \ live]
  /\ UNCHANGED <<redisVars, storeVars, procVars, span, reserved, actual, round,
                 toAdd, snap, strayVars, applied, adjusted, faults>>

\* {'blocked', ...}: nothing reserved, the request is over quota.
ReserveBlocked(r) ==
  /\ status[r] = "reserving"
  /\ span[r] \subseteq live
  /\ Crossed(r) # {}
  /\ status' = [status EXCEPT ![r] = "blocked"]
  /\ Recovered(Host[r])
  /\ UNCHANGED <<redisVars, storeVars, unflushed, span, reserved, actual, round,
                 toAdd, seedVars, strayVars, applied, adjusted, faults>>

\* {'ok', ...}: reserved in every window; crossed soft caps are only logged.
ReserveOK(r) ==
  /\ status[r] = "reserving"
  /\ span[r] \subseteq live
  /\ Crossed(r) = {}
  /\ Increment(r)
  /\ status' = [status EXCEPT ![r] = "admitted"]
  /\ Recovered(Host[r])
  /\ UNCHANGED <<live, backup, intact, storeVars, unflushed, span, reserved,
                 actual, round, toAdd, seedVars, strayVars, adjusted, faults>>

\* The call fails, by a timeout or because the client went away.  Redis may run
\* the script all the same, at once or later: a reservation nobody will reconcile.
ReserveError(r) ==
  /\ status[r] = "reserving"
  /\ Fault
  /\ Failed(r)
  /\ strayReserves' = strayReserves \cup {r}
  /\ UNCHANGED <<redisVars, storeVars, unflushed, span, reserved, actual, round,
                 toAdd, seedVars, strayAdjusts, straySeeds, applied, adjusted>>

\* Redis runs it, and nobody reads its answer.
StrayReserve(r) ==
  /\ r \in strayReserves
  /\ strayReserves' = strayReserves \ {r}
  /\ \/ /\ span[r] \subseteq live
        /\ Crossed(r) = {}
        /\ Increment(r)
     \/ /\ ~(span[r] \subseteq live) \/ Crossed(r) # {}
        /\ UNCHANGED <<counter, applied>>
  /\ UNCHANGED <<live, backup, intact, storeVars, procVars, status, span, reserved,
                 actual, round, toAdd, seedVars, strayAdjusts, straySeeds, adjusted,
                 faults>>

(***************************************************************************)
(* rehydrate: read each window's durable counter, then raise the live ones *)
(* with seed.lua.  Run by a request for missing windows and by a replica's *)
(* resync pass for the windows that apply now.                             *)
(***************************************************************************)

ReadDurable(a, w) ==
  /\ w \in unread[a]
  /\ snap' = [snap EXCEPT ![a][w] = durable[w]]
  /\ unread' = [unread EXCEPT ![a] = @ \ {w}]
  /\ UNCHANGED <<redisVars, storeVars, procVars, status, span, reserved, actual,
                 round, toAdd, asked, strayVars, applied, adjusted, faults>>

\* Mutation: the snapshot is added to the counter instead of bounding it.
RaiseBySum(ws, s) ==
  /\ counter' = [w \in Windows |-> IF w \in ws THEN counter[w] + s[w] ELSE counter[w]]
  /\ live' = live \cup ws

\* Mutation: the snapshot overwrites the counter, whatever that held.
RaiseByOverwrite(ws, s) ==
  /\ counter' = [w \in Windows |-> IF w \in ws THEN s[w] ELSE counter[w]]
  /\ live' = live \cup ws

\* Mutation: only missing counters are seeded; an existing one is trusted.
RaiseMissingOnly(ws, s) ==
  /\ counter' = [w \in Windows |-> IF w \in ws \ live THEN s[w] ELSE counter[w]]
  /\ live' = live \cup ws

\* Mutation: a window Postgres has no usage for is not created.
RaiseNonZero(ws, s) ==
  LET used == {w \in ws : s[w] > 0}
  IN /\ counter' = [w \in Windows |->
                      IF w \in used THEN MaxOf(counter[w], s[w]) ELSE counter[w]]
     /\ live' = live \cup used

\* seed.lua: each counter becomes the maximum of itself and the snapshot; a
\* missing one is created.
Raise(ws, s) ==
  /\ counter' = [w \in Windows |->
                   IF w \notin ws THEN counter[w]
                   ELSE IF w \in live THEN MaxOf(counter[w], s[w])
                   ELSE s[w]]
  /\ live' = live \cup ws

\* The rehydration of a is over: forget it.
EndRehydrate(a) ==
  /\ asked' = [asked EXCEPT ![a] = {}]
  /\ unread' = [unread EXCEPT ![a] = {}]
  /\ snap' = [snap EXCEPT ![a] = [w \in Windows |-> 0]]

\* A request goes round the seed loop again, unless that was the last round.
SeedForRequest(r) ==
  /\ asked[r] # {}
  /\ unread[r] = {}
  /\ Raise(asked[r], snap[r])
  /\ EndRehydrate(r)
  /\ round' = [round EXCEPT ![r] = @ + 1]
  /\ \/ /\ round[r] + 1 < MaxSeedRounds
        /\ status' = [status EXCEPT ![r] = "reserving"]
        /\ UNCHANGED <<degraded, wake, known>>
     \/ /\ round[r] + 1 >= MaxSeedRounds
        /\ Failed(r)
  /\ UNCHANGED <<backup, intact, storeVars, unflushed, span, reserved, actual,
                 toAdd, strayVars, applied, adjusted, faults>>

SeedForResync(p) ==
  /\ asked[p] # {}
  /\ unread[p] = {}
  /\ Raise(asked[p], snap[p])
  /\ EndRehydrate(p)
  /\ UNCHANGED <<backup, intact, storeVars, procVars, status, span, reserved,
                 actual, round, toAdd, strayVars, applied, adjusted, faults>>

\* A read fails, or the seed call does, whose script Redis may still run.  A
\* request takes the outage policy; a resync pass is logged as incomplete.
RehydrateError(a) ==
  /\ asked[a] # {}
  /\ Fault
  /\ straySeeds' = straySeeds \cup {s \in {[windows |-> asked[a], snap |-> snap[a]]} : unread[a] = {}}
  /\ EndRehydrate(a)
  /\ \/ a \in Requests /\ Failed(a)
     \/ a \in Replicas /\ UNCHANGED <<status, degraded, wake, known>>
  /\ UNCHANGED <<redisVars, storeVars, unflushed, span, reserved, actual, round,
                 toAdd, strayReserves, strayAdjusts, applied, adjusted>>

StraySeed(s) ==
  /\ s \in straySeeds
  /\ straySeeds' = straySeeds \ {s}
  /\ Raise(s.windows, s.snap)
  /\ UNCHANGED <<backup, intact, storeVars, procVars, status, span, reserved, actual,
                 round, toAdd, seedVars, strayReserves, strayAdjusts, applied,
                 adjusted, faults>>

\* resync, entered on a tick or on a wake token.  It covers the windows that
\* apply now to a tenant this replica has cached; with none it does nothing,
\* and a token that arrives during a pass waits for the next one.
ResyncOnTick(p) ==
  /\ asked[p] = {}
  /\ known[p]
  /\ \E ws \in Spans : /\ asked' = [asked EXCEPT ![p] = ws]
                       /\ unread' = [unread EXCEPT ![p] = ws]
  /\ UNCHANGED <<redisVars, storeVars, procVars, status, span, reserved, actual,
                 round, toAdd, snap, strayVars, applied, adjusted, faults>>

ResyncOnWake(p) ==
  /\ asked[p] = {}
  /\ wake[p]
  /\ known[p]  \* always so: a token is left only after the tenant was cached
  /\ wake' = [wake EXCEPT ![p] = FALSE]
  /\ \E ws \in Spans : /\ asked' = [asked EXCEPT ![p] = ws]
                       /\ unread' = [unread EXCEPT ![p] = ws]
  /\ UNCHANGED <<redisVars, storeVars, unflushed, degraded, known, status, span,
                 reserved, actual, round, toAdd, snap, strayVars, applied,
                 adjusted, faults>>

(***************************************************************************)
(* Reconcile: correct the live counters, then hand the deltas over.        *)
(***************************************************************************)

\* adjust.lua on the windows of r that still have a counter.
Correct(r, c) ==
  /\ counter' = [w \in Windows |->
                   IF w \in span[r] \cap live THEN counter[w] + c - reserved[r]
                                              ELSE counter[w]]
  /\ adjusted' = adjusted \cup {r}

\* What follows an adjustment, whether it worked or not: a request that cost
\* nothing is finished, any other has a delta to add for each window.  (One
\* that was served for free still hands over its tokens and its count of one;
\* its cost adds nothing to any counter.)
Charge(r, c) ==
  /\ actual' = [actual EXCEPT ![r] = c]
  /\ status' = [status EXCEPT ![r] = IF c = 0 THEN "done" ELSE "adding"]
  /\ toAdd' = [toAdd EXCEPT ![r] = IF c = 0 THEN {} ELSE span[r]]

ReconcileAdjust(r, c) ==
  /\ status[r] = "admitted"
  /\ Correct(r, c)
  /\ Charge(r, c)
  /\ UNCHANGED <<live, backup, intact, storeVars, procVars, span, reserved,
                 round, seedVars, strayVars, applied, faults>>

\* The call fails, and is only logged: "counter keeps the reservation", unless
\* Redis runs the script all the same, at once or after the deltas went out.
AdjustError(r, c) ==
  /\ status[r] = "admitted"
  /\ c # reserved[r]
  /\ Fault
  /\ strayAdjusts' = strayAdjusts \cup {r}
  /\ Charge(r, c)
  /\ UNCHANGED <<redisVars, storeVars, procVars, span, reserved, round, seedVars,
                 strayReserves, straySeeds, applied, adjusted>>

StrayAdjust(r) ==
  /\ r \in strayAdjusts
  /\ strayAdjusts' = strayAdjusts \ {r}
  /\ Correct(r, actual[r])
  /\ late' = late \cup {d \in landed : d[1] = r /\ d[2] \in live}
  /\ UNCHANGED <<live, backup, intact, durable, landed, dup, procVars, status, span,
                 reserved, actual, round, toAdd, seedVars, strayReserves, straySeeds,
                 applied, faults>>

\* One window handed over is one less to go.
Handed(r, w) ==
  /\ w \in toAdd[r]
  /\ toAdd' = [toAdd EXCEPT ![r] = @ \ {w}]
  /\ status' = [status EXCEPT ![r] = IF toAdd[r] = {w} THEN "done" ELSE "adding"]

\* Flusher.Add accepts the delta, or drops it: its buffer is full or closed.
AddDelta(r, w) ==
  /\ Handed(r, w)
  /\ \/ unflushed' = [unflushed EXCEPT ![Host[r]] = @ \cup {<<r, w>>}]
     \/ UNCHANGED unflushed
  /\ UNCHANGED <<redisVars, storeVars, degraded, wake, known, span, reserved,
                 actual, round, seedVars, strayVars, applied, adjusted, faults>>

(***************************************************************************)
(* The flusher's write of a batch of deltas to Postgres, one transaction.  *)
(***************************************************************************)

\* What a set of deltas adds to window w.
DeltaTotal(B, w) ==
  Total(Requests, [r \in Requests |-> IF <<r, w>> \in B THEN actual[r] ELSE 0])

\* Mutation: the batch carries each request's correction, not its cost.
CommitCorrections(B) ==
  /\ durable' = [w \in Windows |->
       durable[w] + DeltaTotal(B, w)
         - Total(Requests, [r \in Requests |-> IF <<r, w>> \in B THEN reserved[r] ELSE 0])]
  /\ dup' = [w \in Windows |-> dup[w] + DeltaTotal(B \cap landed, w)]
  /\ landed' = landed \cup B

\* AddDeltas commits batch B.
Commit(B) ==
  /\ durable' = [w \in Windows |-> durable[w] + DeltaTotal(B, w)]
  /\ dup' = [w \in Windows |-> dup[w] + DeltaTotal(B \cap landed, w)]
  /\ landed' = landed \cup B

Flush(p, B) ==
  /\ B \subseteq unflushed[p]
  /\ B # {}
  /\ Commit(B)
  /\ unflushed' = [unflushed EXCEPT ![p] = @ \ B]
  /\ UNCHANGED <<redisVars, late, degraded, wake, known, status, span, reserved,
                 actual, round, toAdd, seedVars, strayVars, applied, adjusted,
                 faults>>

\* The commit takes effect but its answer is lost: the flusher keeps the
\* deltas for the next tick.  (A commit that did not take effect changes
\* nothing, and needs no action.)
FlushAmbiguous(p, B) ==
  /\ B \subseteq unflushed[p]
  /\ B # {}
  /\ Fault
  /\ Commit(B)
  /\ UNCHANGED <<redisVars, late, procVars, status, span, reserved, actual,
                 round, toAdd, seedVars, strayVars, applied, adjusted>>

(***************************************************************************)
(* What may go wrong around the enforcer.                                  *)
(***************************************************************************)

\* The key of w expires, is evicted, or is lost with the Redis that held it.
LoseWindow(w) ==
  /\ w \in live
  /\ Fault
  /\ live' = live \ {w}
  /\ counter' = [counter EXCEPT ![w] = 0]
  /\ intact' = intact \ {w}
  /\ UNCHANGED <<backup, storeVars, procVars, status, span, reserved, actual,
                 round, toAdd, seedVars, strayVars, applied, adjusted>>

\* Redis replication is asynchronous: the replica holds some earlier state.
\* (What it holds matters only while a failover may still come.)
Replicate ==
  /\ faults < MaxFaults
  /\ backup # [live |-> live, counter |-> counter]
  /\ backup' = [live |-> live, counter |-> counter]
  /\ UNCHANGED <<live, counter, intact, storeVars, procVars, status, span,
                 reserved, actual, round, toAdd, seedVars, strayVars, applied,
                 adjusted, faults>>

\* The Redis replica is promoted without the primary's last writes.
Failover ==
  /\ backup # [live |-> live, counter |-> counter]
  /\ Fault
  /\ live' = backup.live
  /\ counter' = backup.counter
  /\ intact' = {w \in intact : /\ w \in live <=> w \in backup.live
                               /\ counter[w] = backup.counter[w]}
  /\ UNCHANGED <<backup, storeVars, procVars, status, span, reserved, actual,
                 round, toAdd, seedVars, strayVars, applied, adjusted>>

\* Statuses in which no code of the request is left to run.
Ended == {"new", "done", "blocked", "refused", "unenforced", "crashed"}

\* A proxy process dies, and a fresh one takes its place: requests it was
\* serving are never reconciled and its flusher's deltas are gone.
Crash(p) ==
  /\ Fault
  /\ status' = [r \in Requests |->
                  IF Host[r] = p /\ status[r] \notin Ended THEN "crashed" ELSE status[r]]
  /\ toAdd' = [r \in Requests |-> IF Host[r] = p THEN {} ELSE toAdd[r]]
  /\ unflushed' = [unflushed EXCEPT ![p] = {}]
  /\ degraded' = [degraded EXCEPT ![p] = FALSE]
  /\ wake' = [wake EXCEPT ![p] = FALSE]
  /\ known' = [known EXCEPT ![p] = FALSE]
  /\ LET gone == {p} \cup {r \in Requests : Host[r] = p}
     IN /\ asked' = [a \in Agents |-> IF a \in gone THEN {} ELSE asked[a]]
        /\ unread' = [a \in Agents |-> IF a \in gone THEN {} ELSE unread[a]]
        /\ snap' = [a \in Agents |-> IF a \in gone THEN [w \in Windows |-> 0] ELSE snap[a]]
  /\ UNCHANGED <<redisVars, storeVars, span, reserved, actual, round, strayVars,
                 applied, adjusted>>

-----------------------------------------------------------------------------

RequestStep(r) ==
  \/ \E ws \in Spans, c \in Costs : Arrive(r, ws, c)
  \/ ArriveUnchecked(r)
  \/ LimitsUnavailable(r)
  \/ ReserveMissing(r)
  \/ ReserveBlocked(r)
  \/ ReserveOK(r)
  \/ ReserveError(r)
  \/ SeedForRequest(r)
  \/ \E c \in Costs : ReconcileAdjust(r, c)
  \/ \E c \in Costs : AdjustError(r, c)
  \/ \E w \in Windows : AddDelta(r, w)

ReplicaStep(p) ==
  \/ ResyncOnTick(p)
  \/ ResyncOnWake(p)
  \/ SeedForResync(p)
  \/ \E B \in SUBSET unflushed[p] : Flush(p, B)
  \/ \E B \in SUBSET unflushed[p] : FlushAmbiguous(p, B)
  \/ Crash(p)

RehydrateStep(a) ==
  \/ \E w \in Windows : ReadDurable(a, w)
  \/ RehydrateError(a)

StrayStep ==
  \/ \E r \in Requests : StrayReserve(r) \/ StrayAdjust(r)
  \/ \E s \in straySeeds : StraySeed(s)

RedisStep ==
  \/ \E w \in Windows : LoseWindow(w)
  \/ Replicate
  \/ Failover

Next ==
  \/ \E r \in Requests : RequestStep(r)
  \/ \E p \in Replicas : ReplicaStep(p)
  \/ \E a \in Agents : RehydrateStep(a)
  \/ StrayStep
  \/ RedisStep

Spec == Init /\ [][Next]_vars

(***************************************************************************)
(* What the counters mean.                                                 *)
(***************************************************************************)

\* Reconcile has learnt what r cost.
Reconciled(r) == status[r] \in {"adding", "done"} \/ actual[r] # 0

\* The most r has been charged, at any time, in window w.
Peak(w) == [r \in Requests |->
              IF r \in applied /\ w \in span[r] THEN MaxOf(reserved[r], actual[r]) ELSE 0]

\* What the live counter of w should hold for r: its reservation, until the
\* adjust script replaces that by the cost.
Held(w) == [r \in Requests |->
              IF r \in applied /\ w \in span[r]
              THEN IF r \in adjusted THEN actual[r] ELSE reserved[r]
              ELSE 0]

\* What r owes window w: its cost once known, its reservation until then.
Committed(w) == [r \in Requests |->
                   IF r \in applied /\ w \in span[r]
                   THEN IF Reconciled(r) THEN actual[r] ELSE reserved[r]
                   ELSE 0]

\* By how much r turned out dearer than the estimate it was admitted on.
Overrun(w) == [r \in Requests |->
                 IF r \in applied /\ w \in span[r] /\ actual[r] > reserved[r]
                 THEN actual[r] - reserved[r] ELSE 0]

\* What w counts twice because a correction ran late: by then the cost had
\* reached Postgres, and a seed may have raised the counter to it.
Late(w) == [r \in Requests |-> IF <<r, w>> \in late THEN Overrun(w)[r] ELSE 0]

\* No adjustment of a request in w is missing or ran late, and no commit of w was
\* ambiguous.
Clean(w) ==
  /\ dup[w] = 0
  /\ \A r \in Requests : /\ w \in span[r] /\ Reconciled(r) => r \in adjusted
                         /\ <<r, w>> \notin late

(***************************************************************************)
(* Safety.                                                                 *)
(***************************************************************************)

\* No usage is counted twice, whatever is lost, repeated or rolled back: a
\* live counter never exceeds what its requests were charged at their peak, but
\* for two things.  Postgres itself counts twice what an ambiguous commit
\* repeats; and a correction that timed out, and that Redis runs only after its
\* delta was committed, is counted again by as much as the request overran its
\* estimate.  This is why Reconcile adjusts before it hands the delta to the
\* flusher, and why seed.lua takes a maximum.
NoDoubleCount ==
  \A w \in live : counter[w] <= Total(Requests, Peak(w)) + dup[w] + Total(Requests, Late(w))

\* While Redis keeps w and runs every adjustment of it in time, and no commit is
\* ambiguous, the live counter is exact: the costs of the reconciled requests plus the
\* reservations of the others.  Neither concurrent rehydrations nor resync
\* passes racing with reservations and flushes disturb it.
LiveCounterExact ==
  \A w \in live \cap intact :
    Clean(w) => counter[w] = Total(Requests, Held(w))

\* The cap: as long as Redis keeps w, what the admitted requests of all
\* replicas owe a blocking window never exceeds its limit by more than they
\* overran their own estimates, even when adjustments fail.
CapHolds ==
  \A w \in intact :
    Block[w] => Total(Requests, Committed(w)) <= MaxCost[w] + Total(Requests, Overrun(w))

\* The durable counter is the sum of the costs of the requests whose delta was
\* committed, each once, plus what ambiguous commits repeated.
DurableAccounted ==
  \A w \in Windows : durable[w] = DeltaTotal(landed, w) + dup[w]

\* A request needs one seed round, and one more for each failure: rehydrating
\* replicas never keep undoing each other's work.
SeedRoundsBounded == \A r \in Requests : round[r] <= 1 + faults

\* A request is turned away as over quota only when what was charged to some
\* blocking window, at its peak, leaves no room for it, with the two exceptions
\* of NoDoubleCount and no other.
BlockedOnlyWhenFull ==
  [][\A r \in Requests : status'[r] = "blocked" /\ status[r] # "blocked" =>
       \E w \in span[r] :
         /\ Block[w]
         /\ Total(Requests, Peak(w)) + dup[w] + Total(Requests, Late(w)) + reserved[r] > MaxCost[w]]_vars

(***************************************************************************)
(* Liveness.  Every call is bounded by a timeout, so a request's goroutine *)
(* goes on; the resync and flush loops run on tickers.  Arrivals and       *)
(* failures are not fair, and failures are finitely many.                  *)
(***************************************************************************)

RequestProgress(r) ==
  \/ ReserveMissing(r)
  \/ ReserveBlocked(r)
  \/ ReserveOK(r)
  \/ SeedForRequest(r)
  \/ \E c \in Costs : ReconcileAdjust(r, c)
  \/ \E w \in Windows : AddDelta(r, w)

Fairness ==
  /\ \A r \in Requests : WF_vars(RequestProgress(r))
  /\ \A p \in Replicas : /\ WF_vars(ResyncOnTick(p))
                         /\ WF_vars(SeedForResync(p))
                         /\ WF_vars(\E B \in SUBSET unflushed[p] : Flush(p, B))
  /\ \A a \in Agents : WF_vars(\E w \in Windows : ReadDurable(a, w))

FairSpec == Spec /\ Fairness

\* A counter that Redis lost, or brought back stale, does not stay behind: once
\* the failures are over, every live counter that some replica still enforces
\* is at least what Postgres knows was spent, and remains so.
CountersCatchUp ==
  <>[](\A w \in live : /\ \A ws \in Spans : w \in ws
                       /\ \E p \in Replicas : known[p]
                       => counter[w] >= durable[w])

(***************************************************************************)
(* The inductive invariant behind NoDoubleCount.                           *)
(***************************************************************************)

\* r has been charged its cost in w, so a delta of it may be on its way.
Owes(r, w) == r \in applied /\ w \in span[r] /\ Reconciled(r)

\* How the status of a request goes with the rest of its state.
ControlInv ==
  \A r \in Requests :
    /\ status[r] \in {"new", "reserving", "rehydrating"} => r \notin applied
    /\ status[r] \in {"admitted", "adding"} => r \in applied
    /\ status[r] \in Statuses \ {"adding", "done", "crashed"} => actual[r] = 0
    /\ status[r] = "adding" => actual[r] # 0
    /\ r \notin applied => actual[r] = 0
    /\ asked[r] # {} => status[r] = "rehydrating"
    /\ toAdd[r] # {} => status[r] = "adding"
    /\ toAdd[r] \subseteq span[r]

\* A reservation that is still on its way was given up; a correction that is has
\* not run; one that ran, late or not, is of a reconciled request.
StrayInv ==
  \A r \in Requests :
    /\ r \in strayReserves => status[r] = Unenforceable /\ r \notin applied
    /\ r \in strayAdjusts => r \in applied /\ Reconciled(r) /\ r \notin adjusted
    /\ r \in adjusted => Reconciled(r)
    /\ \A w \in Windows : <<r, w>> \in late => r \in adjusted

\* A delta in a flusher or in Postgres comes from a reconciled request.
DeltaInv ==
  \A r \in Requests, w \in Windows :
    /\ <<r, w>> \in landed => Owes(r, w)
    /\ \A p \in Replicas : <<r, w>> \in unflushed[p] => Owes(r, w)

\* A snapshot is at most what Postgres holds by now.
SnapshotInv ==
  \A w \in Windows : /\ \A a \in Agents : snap[a][w] <= durable[w]
                     /\ \A s \in straySeeds : s.snap[w] <= durable[w]

\* The most r has been charged in w so far: its cost counts once the adjust script
\* ran or the delta was committed.
Charged(w) == [r \in Requests |->
                 IF r \in applied /\ w \in span[r]
                 THEN IF r \in adjusted \/ <<r, w>> \in landed
                      THEN MaxOf(reserved[r], actual[r]) ELSE reserved[r]
                 ELSE 0]

\* NoDoubleCount, of the Redis replica too and of absent counters as well.
PeakInv ==
  \A w \in Windows :
    /\ counter[w] <= Total(Requests, Charged(w)) + dup[w] + Total(Requests, Late(w))
    /\ backup.counter[w] <= Total(Requests, Charged(w)) + dup[w] + Total(Requests, Late(w))

IndInv ==
  TypeOK /\ ControlInv /\ StrayInv /\ DeltaInv /\ SnapshotInv /\ DurableAccounted /\ PeakInv

(***************************************************************************)
(* The inductive invariant behind CapHolds, LiveCounterExact and           *)
(* SeedRoundsBounded, on top of IndInv.                                    *)
(***************************************************************************)

\* While Redis keeps a window, the counter of every window some request was
\* counted in exists.
IntactLive == \A r \in applied : span[r] \cap intact \subseteq live

\* What a seed may make of Held: the cost of a request that Postgres knows and the
\* adjust script has not corrected yet.
Seeded(w) == [r \in Requests |->
                IF r \in applied /\ w \in span[r]
                THEN IF r \in adjusted THEN actual[r]
                     ELSE IF <<r, w>> \in landed THEN MaxOf(reserved[r], actual[r])
                     ELSE reserved[r]
                ELSE 0]

\* The live counter is what it should hold, up to what seeds raised it by.
HeldInv ==
  \A w \in live \cap intact :
    /\ Total(Requests, Held(w)) <= counter[w]
    /\ counter[w] <= Total(Requests, Seeded(w)) + dup[w] + Total(Requests, Late(w))

\* Why r goes round the seed loop: the windows it once found missing are live
\* again, unless a failure has taken one away since.
SeedInv ==
  \A r \in Requests :
    /\ round[r] <= 1 + faults
    /\ status[r] = "new" => round[r] = 0
    /\ status[r] = "reserving" /\ ~(span[r] \subseteq live) => round[r] <= faults
    /\ status[r] = "rehydrating" =>
         /\ round[r] <= faults
         /\ ~(span[r] \subseteq live \cup asked[r]) => round[r] < faults

CapInv ==
  IntactLive /\ HeldInv /\ CapHolds /\ SeedInv
=============================================================================
