# A TLA+ model of go-route

go-route is an OpenAI-compatible proxy. A request names a model alias; the proxy
tries a ladder of upstream targets until one starts to answer, relays that answer,
holds the tenant to its spend caps, and records what it did. Several replicas run
against one Postgres and one Redis; an admin service on the same Postgres keeps
tenants, keys, quotas and administrators.

This directory models the parts of it that are hard to test, checks them with TLC
on small instances and proves the safety properties, all but one, with TLAPS for every instance.
`PROJECT.json` lists the components, the runs, the mutants each property is tried
against, the lines of code behind every definition, and the hazards the properties
are for.

## The system

| Part | State | Operations | Talks to |
|---|---|---|---|
| proxy handler, client stream (`proxyapi`) | one request | `Completions`, `Commit`, `Send`, `SendError` | everything below, in order: quota, dispatcher, sink, quota |
| dispatcher (`usecases/dispatch`) | the outcome being built | `Run`, `tryTarget`, `relay` | providers, client stream |
| provider client (`oaicompat`) | an open upstream response | `Stream`, `Next`, `Close` | upstreams |
| quota enforcer (`usecases/quota/enforcer.go`) | limits cache, degraded flag, wake token | `Reserve`, `Reconcile`, the resync loop | Redis scripts, durable counters, flusher |
| live counters (`redisquota`, three Lua scripts) | one hash per tenant and window, in Redis | reserve, seed, adjust | |
| delta flusher (`usecases/quota/flusher.go`) | channel, map of pending counters | `Add`, `Close`, a goroutine | durable counters |
| durable counters (`usage_counters.go`) | one Postgres row per tenant and window | `Get`, `AddDeltas` | |
| decision sink (`outbound/sink`), record writer (`records.go`) | channel, batch; two tables | `Record`, `Flush`, a goroutine, `Write` | Postgres |
| observability reads (`repositories/observability.go`) | none | `Get`, `Aggregate`, `ListAudit` | the sink's two tables |
| shutdown (`cmd/go-route/serve.go`) | | drain, cut streams, flush sink, close enforcer | all of the proxy |
| admin users (`usecases/admin/users.go`, `throttle.go`) | accounts, refresh tokens, audit rows; failures per key | create, disable, password change, login, refresh, logout | Postgres |
| admin service (the rest of `usecases/admin`) | tenants, keys, quotas, credentials, audit rows | twelve mutations, under a tenant lock or a unique index | Postgres |
| admin HTTP adapter (`adminapi`, `schemas/admin/gen`) | none | guard, body, contract, binding, 23 handlers | admin service, admin users, observability |
| API key authentication (`repositories/auth.go`) | none | `Authenticate` | the admin service's tables |
| pricing, estimates, SSE codec, clock windows | none (pure or immutable) | | |
| routing, configuration, start-up | immutable tables | | |

The hard behaviour is where these meet. Replicas share counters through scripts
that are atomic one by one and through nothing else. A rehydration reads Postgres
and writes Redis later. Redis may lose a key or come back with older values.
Every reply may be lost after the effect took place. The flusher and the sink race
with their own shutdown. A client may leave, and a shutdown may cut a request,
between any two steps of the handler.

What makes each part correct:

- *Quota*: usage is never counted twice; the live counter is exact while nothing
  fails; admitted requests of all replicas stay within a cap, up to what they
  overran their own estimates; nobody is refused while there is room; counters that
  went backwards catch up.
- *Flusher*: an accepted delta is committed or accounted for; it is committed more
  than once only after an ambiguous failure; shutdown neither panics nor strands it.
- *Limits cache*: limits older than the TTL are enforced only after a failed refresh.
- *Dispatch*: one target's stream reaches the client, under one status line; the
  recorded attempts explain the course of the ladder; no upstream body leaks; the
  request is settled once and by the right rule.
- *Sink*: every decision ends in exactly one place; the ledger and the audit log agree
  at every instant; a flush drains.
- *Admin users*: a refresh token is exchanged once; a password change ends what was opened
  under the old one; every change has exactly its audit row; failed logins are throttled.
- *Admin service*: the audit log, in the order of its times, replays to the tables; it explains
  every answer, every retry, and who could do what when.
- *Readers*: a read sees whole decisions; a report compares what it counts; a walk through
  pages neither repeats nor skips.
- *Functions*: every admin request gets a status its contract declares and no mutation runs
  for a reader; windows tile time; a charge is covered by its reservation; a cut event stream
  does not look finished.

## The modules

| Module | Models | Runs |
|---|---|---|
| `QuotaEnforcer` (`Totals`, `MCQuota`) | enforcer, scripts, durable counters, Redis failures, crashes | `quota_faults`, `quota_race`, `quota_live` |
| `Flusher` (`MCFlusher`) | the delta flusher of one replica | `flusher` |
| `DeltaLog` | abstract: what `QuotaEnforcer` assumes of the flusher | refined in `flusher` |
| `LimitsCache` | the cache of one tenant's limits | `limits_cache` |
| `Dispatch` | handler, dispatcher, provider client, client stream: one request | `dispatch`, `dispatch_timeout` |
| `Sink` | decision sink and record writer | `sink`, `sink_shutdown` |
| `Observability` (`MCObservability`) | composes `Sink` with the readers of its tables | `sink` |
| `AdminSessions` (`MCAdminSessions`) | one account: users, refresh tokens, throttle | `admin_sessions` |
| `AdminStore` | the admin tables and the statements run on them | in `AdminTx` |
| `AdminTx` (`MCAdminTx`) | composes `AdminStore` and the guard of `AdminAPI`: tenants, keys, quotas, credentials | `admin` |
| `AdminAPI` | admin HTTP adapter: from a request to a status | `functions` |
| `Windows`, `Pricing`, `SSE` | clock windows and quota validation; costs and prices; the event format | `functions` |
| `Stateless` (`MCFunctions`) | composes `AdminAPI`, `Windows` and `Pricing` as a specification of one step from an input to a result; `MCFunctions` gives the inputs and adds event streams | `functions` |
| `QuotaProofs` | theorems about `QuotaEnforcer` and its sums | |
| `SinkProofs` | theorems about `Sink` and `Observability` | |
| `FlusherProofs`, `LimitsCacheProofs`, `DispatchProofs`, `AdminSessionsProofs`, `AdminTxProofs`, `StatelessProofs` | theorems about the module each is named for | |

Definitions named "Mutation" are used by no specification. Each is a plausible mistake
in the code that one of the properties must notice; `PROJECT.json` pairs them.

### QuotaEnforcer

One tenant. A usage in the code has three fields; only the cost is compared with a
limit and the scripts treat the fields alike, so the model keeps the cost. A run of a
Lua script is one step, because Redis runs it to completion. Everything else
interleaves: each durable read of a rehydration, the seed call, each delta handed to
the flusher.

`status` says where in `Reserve` or `Reconcile` a request is. `Arrive` is `Reserve` up
to its loop, `ReserveMissing`, `ReserveBlocked` and `ReserveOK` are the three replies
of `reserve.lua`, and `ReserveError` is a failed call. `ReadDurable`, `SeedForRequest`, `SeedForResync` and
`RehydrateError` are `rehydrate`, run by a request for its missing windows or by a
replica's resync pass for all that apply. `ReconcileAdjust`, `AdjustError` and
`AddDelta` are `Reconcile`. `Flush` and `FlushAmbiguous` are the flusher at the level
of `DeltaLog`. `LoseWindow`, `Replicate`, `Failover` and `Crash` are the world.

A call of Redis that fails may be one that only timed out. The client does not repeat it,
but Redis may run its script at any later time, or never: `ReserveError`, `RehydrateError` and `AdjustError`
leave a stray call behind, which `StrayReserve`, `StraySeed` or `StrayAdjust` runs. A stray
reservation is never reconciled. A stray seed carries an old snapshot, which the maximum in
`seed.lua` makes harmless. A stray correction is not: if the request's delta was flushed
meanwhile, and a resync raised the counter to it, the correction adds the overrun of the request
again. `NoDoubleCount` and `BlockedOnlyWhenFull` therefore have two exceptions, each with its exact size:
what an ambiguous commit repeated (`dup`) and the overruns of the corrections that ran late (`Late`). TLC refutes
both properties without either.

History variables (`applied`, `adjusted`, `landed`, `late`, `dup`, `intact`) are read by no
action; the properties need them. `intact` is the set of windows Redis has neither
lost nor rolled back; `dup` is what Postgres itself counted twice.

### Flusher and DeltaLog

A pending counter is the set of deltas summed into it, so that a lost or repeated
delta is visible. `Add` is two steps, both under the read lock, and `Close` waits for
the lock (`NoReaders`). A failed write may have committed. `ImplementsLog` states that
`Flusher` implements `DeltaLog` under the mapping *held* = channel and map.

### LimitsCache

The clock is a counter and `since[t]` remembers how often the limits had changed when
tick *t* began. The lock is held only for the lookup and for the store, so loads
finish in any order. The entry is stamped with the time sampled before the load;
that is why overwriting a newer entry is harmless within the TTL.

### Dispatch

`pc` follows `Completions` through `Run`, `tryTarget` and `relay` to the deferred
`Reconcile`. Errors are records of a kind, a retry flag, and what `errors.Is` would find
beneath them. An upstream's events are abstracted to what the relay distinguishes: content,
usage beside content, usage alone, the terminal event, and whether a report of usage totals zero: such
a report replaces an earlier one, and `actualUsage` then charges the reservation. The client and the request's
context are separate: a write may fail before net/http cancels the context and the
context may be cut, by a shutdown, while the client is there.

### Sink

`Record`'s look at the flag and its send are two steps, as are `Flush`'s store and
close. `Write` is three steps (two COPYs and a commit) of one transaction.

### Observability

`Sink` with one reader that makes one read at any time. `Get` and `hydrateLadder` are the two
queries of explain, each with its own snapshot. `AggregateUsage` and `attachComparisons` are
the two statements of a report; `Snapshot` is the isolation level of their transaction, and a
report keeps the set of requests each of its rows stands for. `ListAudit` is one page; the
cursor goes out encoded and comes back. A page reads the log as it is then, so rows that commit
during a walk with times the walk has passed are not shown: `PageWalk` promises only what was
there at the start. The range of times asked for is taken to hold every row.

### AdminSessions

One account; the throttle's keys contain the email, so accounts share nothing. A call
of `Users` is a record in `call` whose `pc` says between which two of its database calls
it is. A transaction is one step at its commit, with two exceptions that READ COMMITTED
makes visible. `UpdateUser` is the first statement of a disable or a password change:
it takes the lock of the user's row, for which a login's `StartAdminSession` waits, and the
next statement fixes the set of tokens it will revoke. `auditSessionReuse` fixes the same
set for a replayed token. The commit then revokes those of the set that are still live; a
token a refresh inserts in between is not among them. `Fail` is any error: the call ends
and its transaction rolls back. Times are clock readings, so that a failure may be
counted, and a session stored, with an old one. The fields `login`, `pw` and `raced` of a
session and the variable `failed` are history.

`OldPasswordEnds` says what a password change guarantees, and with which two
exceptions; TLC refutes the property without either. A login that read the row before the
change and stored its session after it, or a refresh that committed between the
revocation's snapshot and its commit, leaves a session that the change did not see, and
the refreshes of that session inherit it. And access tokens carry whole seconds, so one
issued in the second of the change still counts as issued after it.

`ThrottleHolds` is about failures that stand (`Standing`). A failure is counted with the time its login
began, so one that arrives late pulls the end of the window back and lets a login through sooner. The
property bounds that: a failure stands for the window less what the slowest login counted after
it took, so a late failure costs no more than its own duration and wipes out nothing. `sweep` deletes
windows that have passed, which `fail` would reset and `blocked` ignores; it is left out.

### AdminTx and AdminStore

A table is a set of rows, and a statement of `db/gen` an operator that gives the tables it
leaves and the rows it returns. A mutation of `usecases/admin` is an operator that decides
between an answer and a change with its audit row. A call goes through four steps: `Begin` (the
guard, with a machine credential; `BeginCommand` for the token commands), `Resolve` (the reads
before any lock), `Work` (lock, read again, decide, write) and `Commit`. Only the holder of a
lock changes what it protects, so the statements under a lock are one step; `LockOf` is the row or
the index entry a transaction waits for. `Fail` is a rollback, and a `Commit` may go unanswered:
the caller then repeats the call or not. Ids and times come from one clock that only goes up:
with replicas whose clocks disagree, audit rows are ordered only as well as the clocks are.

`AuditReplays` reads the log in the order of its times, as an auditor does, and must arrive at
the tables. `Authenticate` is what a gateway request would be told in each state.

### AdminAPI

One definition per operation for what the generated wrapper binds, what the strict handler
decodes, how the handler may end, and which statuses the contract declares, joined in
`HandlerWithOptions`; a list of refusals for the middleware, in the order of `NewServer`. A request
is what these layers tell apart: its token, whether its body is too large, not JSON or of the wrong
shape, whether it fits the contract, which parameters do not bind, and how the service ends.
`Body` runs for every method: a GET with a body that is too large is answered 413, which no GET declares,
and one that is not JSON 400, which `Whoami` does not; `ContractKept` names these as its exception, and TLC
refutes it without. Requests for routes that do not exist are left out.

### Windows, Pricing, SSE

`Windows` has the calendar as day numbers, `ClockWindow`, `WindowAt`, and the path of a quota set
from the API through validation to the table's constraints (`quotas_period_bounds`, `quotas_period_order`,
`quotas_cost_non_negative`). Instants have nanoseconds, and `Micros` is what a timestamptz keeps of one. A period that begins and
ends in one microsecond passes `Validate` and fails `quotas_period_order`; `WindowsTile` says that this is the only
set of quotas that is accepted and not stored.

`Pricing` has the truncating, wrapping integer arithmetic of costs, the dated table, the estimate,
the reservation at the dearest target, the charge and the ledger's record. `ChargesCovered` leaves out
two cases, and TLC refutes it without either. Where a target's input is free and its cached tokens are
not, an estimate, which knows no cached tokens, prices them at nothing. And a request's own ceiling
enters the estimate without a bound: the product with the rate wraps around at 64 bits, and the
reservation is then too small. A request that reports no usage is charged its reservation while the
ledger records a cost of zero. `validatePricing` takes the last block listed for the latest, `NewTable` the
last by date: in a table listed newest first, a target absent from the newest block has no price.

`SSE` decodes a sequence of tokens, line ends among them, as `Decoder.Next` does, and `WriteEvent` encodes.
A data line that itself ends in a carriage return loses it when it is relayed; `StreamFaithful`
says so.

## The runs and their bounds

| Run | Instance | Distinct states |
|---|---|---|
| `quota_faults` | 2 requests, 1 replica with its resync loop, 1 blocking window of limit 3, costs 1 and 2, any 2 failures, fail closed | 2.9 million |
| `quota_race` | 2 requests on 2 replicas, a blocking and a soft window, costs 0 and 2, no failures, fail open; deadlock is checked | 1.2 million |
| `quota_live` | as `quota_faults` with 1 failure, fair | 420 thousand |
| `flusher` | 4 deltas, 3 counters, capacity 2, 2 failed writes | 44 thousand |
| `limits_cache` | 3 requests, TTL 2, clock to 3, 2 changes | 910 thousand |
| `dispatch` | 2 targets, 3 events per stream; deadlock is checked | 250 thousand |
| `sink` | 4 decisions of 2 tenants, buffer 2, batch 2; 1 reader, 1 group shown, pages of 1 row | 470 thousand |
| `admin_sessions` | 4 calls, 3 at once, 2 failures allowed, every lifetime and window 2 ticks, clock to 3; calls are symmetric | 2.2 million |
| `admin` | 3 calls, 2 at once, on 1 tenant, 2 credentials, 2 window kinds, from an empty and a provisioned database; calls are symmetric | 700 thousand |
| `functions` | all requests of 23 operations; 60 instants in pairs around month ends and leap days, quota sets of 1, 2 and 5; 2 targets, tables of up to 2 blocks, integers of 24 bits; streams of up to 4 of 11 lines | 300 thousand |

Why they are enough to meet the hazards: two requests whose costs sum past the limit
are what an unsound admission needs; two failures allow an ambiguous commit followed
by a failover, or a crash between a lost reply and a resync, or a correction that times out and runs late; four deltas on three
counters overflow both the channel and the map of two; two targets let a ladder
fail and still be relayed, or fail to its end; four decisions fill a buffer of two while a batch of
two is being written; four calls are a login, two refreshes of its token and whatever
races with them, and the clock reaches past a token's expiry, so that a login sweeps a
chain of two. Three admin calls are a change, one that races with it and its repetition;
the provisioned database stands for the calls before them. Four decisions, two of one time and
one written late, are what a page of one row can repeat or skip. The bounds on failures, clock, versions, events and failed
writes are the constants `MaxFaults`, `MaxClock`, `MaxCalls`, `MaxVersion`, `MaxEvents`,
`MaxFailures` and `MaxLines`; `Half`, 2^63 in the
code, is 2^23, small enough for products to wrap. The theorems below remove the bounds.

Deadlock is not checked where the system may stop: a process that shut down or
whose requests have ended.

Two runs are expected to be violated. `dispatch_timeout` shows that an upstream that
sends no headers within the transport's timeout ends the ladder: net/http's error
answers to `context.DeadlineExceeded`, which `retryable` takes for the end of the
request, while the comment at the timeout says the dispatcher can still fail over.
`sink_shutdown` shows `Record` sending on the channel `Flush` has just closed, while
`ports/sink.go` says that it must not fail; the flusher, which holds a lock across the same
two steps, passes `NeverPanics`.

### Fairness

- A request's goroutine takes its next step: every call it makes has a timeout.
- The resync, flush and batch loops run on tickers, and a Go `select` with several
  ready cases picks one at random, so a case ready again and again is taken. Hence
  strong fairness of `Tick` in `Flusher` and `Sink`, weak fairness elsewhere.
- Arrivals, failures, the client, the clock, `Close` and `Flush` are not fair. In
  `Dispatch` the upstream is not fair either: it may be silent for ever. What is fair is that a
  call or read ends when the request's context has ended (`CutShort`); strongly, because
  buffered events may be read first.
- `Dispatch` takes writes to the client to return. The proxy sets no write timeout, so a
  connected client that never reads can hold a handler; that is listed as a hazard.

## What is proved

Every theorem holds for all values of the constants that the named assumption of its module
allows, the bounds among them: any finite set of requests, any replicas, windows, limits, costs
and number of failures in `QuotaEnforcer` (`QuotaAssumption`); any deltas, counters, capacity and
number of failed writes in `Flusher` (`FlusherAssumption`); any TTL, clock and number of changes
in `LimitsCache` (`CacheAssumption`); any length of ladder and of stream in `Dispatch`
(`DispatchAssumption`); any finite set of decisions and any capacities in `Sink`
(`SinkAssumption`), with any rows, report limit and page size in `Observability`
(`ObservabilityAssumption`); any calls, clients, lifetimes and limits in `AdminSessions`
(`SessionsAssumption`); any finite set of callers, any number of calls and any tenants, keys, quotas and
credentials in `AdminTx` (`AdminAssumption`); any dates and quota sets, any price table that
`validatePricing` accepts, any request and any width of integers in `Stateless`
(`StatelessAssumption`). Each proof goes by one inductive invariant, a conjunction of named parts
kept at the end of the component's module or in the module of its proofs. A lemma per action shows that the
action keeps the parts it can disturb.

**Quota.** `QuotaProofs` proves `TypeCorrect`, `NeverCountedTwice` (`[]NoDoubleCount`),
`DurableExact` (`[]DurableAccounted`) and the action property `NeverBlockedEarly`
(`BlockedOnlyWhenFull`), by `IndInv`. `NoDoubleCount` is not inductive: a
seed raises a counter to a snapshot, so one must know that a snapshot never exceeds the
durable counter (`SnapshotInv`), that the durable counter is the sum of the landed
deltas plus duplicates (`DurableAccounted`), and that a delta lands only for a request
already charged its cost (`DeltaInv`, `ControlInv`), which is where adjusting before
adding matters. The bound itself is kept in a sharper form, for the Redis replica's counters too (`PeakInv`): a request's cost
counts only once its correction ran or its delta was committed (`Charged`), since a correction that is
still on its way (`StrayInv`) adds it later.

It also proves `CapNeverCrossed` (`[]CapHolds`), `CounterExact` (`[]LiveCounterExact`)
and `SeedingTerminates` (`[]SeedRoundsBounded`), by `IndInv /\ CapInv`. A counter that Redis kept holds at least what
its requests hold, and at most that with the costs a seed brought in before their correction ran
(`HeldInv`); where no correction is missing or late and nothing was committed twice, the two bounds meet. A
counter that someone was counted in exists as long as Redis keeps it (`IntactLive`). A request goes
round the seed loop again only if a failure took away a window since it asked (`SeedInv`).

To these sums a step is one of four kinds (`StepKind`): it leaves them alone, admits a request, charges one, or runs a late
correction. The invariants of the sums are shown per kind.

Sums over requests are the cardinality of a disjoint union (`Totals`), so that the facts
needed (monotonicity, adding one request's share, summing two functions) follow from the
cardinality theorems without induction. `QuotaProofs` begins with them; `SinkProofs` has the ones a report needs.

**Flusher.** `FlusherTyped`, `NothingLostSilently` (`[]NoSilentLoss`), `CommitsBounded`
(`[]CommittedOnce`), `AddNeverPanics` (`[]NeverPanics`), `CloseIsComplete` (`[]CloseFlushes`) and the
refinement `FlusherImplementsLog` (`Spec => ImplementsLog`), by `FlusherInv`: how far `Close` and the goroutine have
come determines what is left (`CloseInv`; no reader is inside once the flag is set), and a delta is in
one place, where only a pending one may be in Postgres too (`PlaceInv`). The refinement needs `PlaceInv`: without
it a step of the flusher could hold again what the log has let go.

**Limits cache.** `CacheStaleness` (`[]StalenessBounded`), by `IndInv`: an entry holds at
least the limits of the tick it is stamped with. `StaleLimitsServed` (`OldLimitsBeatNone`): once an entry is
there a request stays sure of one (`Sure`), since entries are replaced and never dropped.

**Sink.** `SinkTyped`, `NoDecisionVanishes` (`[]Conserved`), `SpendAlwaysExplained` (`[]LedgerExplained`) and
`FlushIsComplete` (`[]FlushDrains`), by `SinkInv`: no decision waits twice and none that waits is anywhere
else (`PlaceInv`), and the phases of `Flush` and of the goroutine agree (`ControlInv`). They are theorems of `Spec` of
`Sink`; the readers that `Observability` adds change none of its variables.

**Readers.** `ReadsAgree` (`[]ReadsConsistent`) and `WalkComplete` (`[]PageWalk`), theorems of `ObsSpec`, by `SinkInv /\
ReaderInv`. The rows of a report are whole groups of one snapshot and no group left out is dearer than one shown (`ReportInv`), so
totals are sizes of disjoint unions. The rows a walk has seen are in order and end at its cursor, and what was there at its start
and is not seen lies past the cursor (`WalkInv`). A page is described as the first rows of a strict total order
and not by sorting, so that a row written late moves no row that was shown.

**Dispatch.** `DispatchTyped`, `OneResponse` (`[]OneTargetSeen`), `OutcomesAreValid` (`[]OutcomeValid`),
`LadderIsExplained` (`[]LadderExplained`), `NoBodyLeaks` (`[]NoLeakedBody`) and `RequestsSettledFairly`
(`[]SettledFairly`), by `DispatchInv`: where the handler is determines the status (`StageInv`), the open body (`BodyInv`), how far the
attempts have come (`LadderInv`), what may have been written (`ReplyInv`, `RelayInv`), which report was the last
(`MeterInv`) and what was charged (`ChargeInv`). What the client saw is compared with what the upstream
sent by an order-preserving map between the two (`IsVisiblePart`) and not by filtering, which is a recursion.

**Admin sessions.** `RotationsChain` (`[]RotationChains`), `OldPasswordsEnd` (`[]OldPasswordEnds`), `AuditsAccount`
(`[]AuditAccounts`), by `SessionsInv`. That the sweep breaks no reference needs that rotations go to rows which
expire no sooner (`ChainInv`), and that needs what a call remembers: its time was sampled after
its token's row was inserted (`TokenOK`). That no old session survives needs that a change under way has every
session that does not race it in its set, and a time no earlier than their access tokens (`PasswordOK`);
that nobody is disabled twice needs the row lock (`LockOK`). The audit rows are counted against the rows they tell of
(`LedgerInv`, `LastLoginInv`). The action property `ThrottleIsKept` (`ThrottleHolds`) adds `ThrottleInv`: the
counter never falls behind the young failures, now or later. It holds although calls count their failures with the times they
began at, because a window that is found to have passed ended before that time. That a failure which stands is young
(`StandingIsYoung`) needs that it was counted no later than those after it (`CountedInv`).

**Admin service.** `AuditReplaysAlways` (`[]AuditReplays`), `AuditLegalAlways` (`[]AuditLegal`), `AnswersExplainedAlways`
(`[]AnswersExplained`) and `AccessExplainedAlways` (`[]AccessExplained`), by `AdminInv`. What a set of audit rows tells (`Told`)
is defined without an order: of each object, its row with the latest time. The core of the invariant is that the committed rows
tell the tables. It is kept because a row committed later than another about the same object has a later time
(`LogOK`), and that needs the locks: a call takes its time and reads again under a lock that no other call holds
(`LocksApart`), so what it is about to write still fits the tables at its commit (`CallOK`), and no two calls share a time
(`StampsOK`). `Linked` says that every row has its object and every object the row of its creation. The properties replay the log
one time after another; that the replay up to any time tells what `Told` says of the rows up to it is shown for the least time
at which it would not.

**Functions.** `WindowsAlwaysTile` (`[]WindowsTile`), `ChargesAlwaysCovered` (`[]ChargesCovered`) and `ContractAlwaysKept`
(`[]ContractKept`): the invariant `Computed` says that a result is the function of its input, and the rest is about the functions. For the
calendar, the number of a month's first day and that of the next differ by the length of the month, for every year
(`MonthLength`, `MonthsApart`), so that windows cut time without gaps (`CutTiles`, `ClockTiles`). For prices, a product that fits is
monotone in tokens and rate through the truncating division (`TokenCostIs`, `CostsLess`), and the reservation is at
least the estimate at each target (`Reservation`). For the contract, what each of the 23 operations declares is tabulated (`Table`), and a
refusal is the first that applies (`FirstOfFive`, `RefusalIs`).

Where these proofs need induction, over times or the blocks of a price table, they take a least
counterexample in a set of numbers, which the well-founded order of the naturals provides, and the operators are stated by
sets and orders instead of recursion.

Only model-checked: liveness (`CountersCatchUp`, `AcceptedLands`, `CancelEnds`, `RecordsLand`), which is out of the
prover's reach, and `StreamFaithful`, since `SSE` decodes by recursive operators over the input.
Of the type invariants, `QuotaEnforcer`'s is also checked by a run.

## What is not modelled

Wording, formats, headers and the mapping of bodies; routing tables, configuration and start-up;
latency percentiles and the printing of reports; generated clients and mocks; cryptography. Lua's
doubles are taken as exact: they are up to 2^53 nanodollars, nine million dollars in one window.
A window that closes is a lost key (`LoseWindow`) and a new window is another element of
`Windows` in `QuotaEnforcer`; the calendar behind them is the module `Windows`. `QuotaEnforcer` takes any
estimate and any cost, so `Pricing` plays no part in it. Row locks inside `AddDeltas` are not modelled.

## Plan

1. `Shutdown`: drain, abort, sink flush and enforcer close as one sequence over many requests,
   composing what `Dispatch`, `Sink` and `Flusher` each show of it.
2. `FlushLocks`: row locks of overlapping batches, and that the sort order prevents deadlock.
3. `SSE` as a state machine of one step per line, so that `StreamFaithful` can be proved by an invariant of the
   decoder's state instead of enumerated.
