------------------------------- MODULE Flusher -------------------------------
(***************************************************************************)
(* The delta flusher of one replica, internal/usecases/quota/flusher.go:   *)
(* requests add usage deltas through a bounded channel, one goroutine      *)
(* merges them into a map of counters and writes the map on a ticker, and  *)
(* Close races with both.  A counter's pending usage is the set of deltas  *)
(* summed into it.                                                         *)
(***************************************************************************)
EXTENDS Naturals, Sequences, FiniteSets

CONSTANTS
  Deltas,       \* usage deltas, each added once
  Keys,         \* counters: tenant, window kind and window start
  KeyOf,        \* [Deltas -> Keys]
  Buffer,       \* capacity of the channel, and of the map
  MaxFailures   \* bound: how many writes may fail in one behaviour

ASSUME FlusherAssumption ==
  /\ KeyOf \in [Deltas -> Keys]
  /\ Buffer \in Nat \ {0}
  /\ MaxFailures \in Nat

VARIABLES
  phase,     \* Add of each delta: "idle", "sending" (under RLock), "returned"
  ch,        \* the channel's contents
  closed,    \* Flusher.closed, and the channel is closed with it
  pending,   \* [Keys -> deltas summed]; a key with none is not in the map
  loop,      \* the goroutine: "select", "writing", "last" (write), "done", "killed"
  closer,    \* Close: "none", "waiting", "returned", "timedout"
  times,     \* how often each delta was committed to Postgres
  dropped,   \* deltas the dropped counter counts
  lost,      \* deltas still held when the process ended
  panicked,  \* a send on the closed channel
  failures   \* failed writes so far

vars == <<phase, ch, closed, pending, loop, closer, times, dropped, lost,
          panicked, failures>>

Pending == UNION {pending[k] : k \in Keys}
Queued == {ch[i] : i \in DOMAIN ch}
MapKeys == {k \in Keys : pending[k] # {}}
Landed == {d \in Deltas : times[d] > 0}

\* The types, and the capacities of the channel and of the map: "a database
\* outage grows the map by counters rather than by requests, and merge caps even
\* that".
TypeOK ==
  /\ phase \in [Deltas -> {"idle", "sending", "returned"}]
  /\ ch \in Seq(Deltas) /\ Len(ch) <= Buffer
  /\ closed \in BOOLEAN
  /\ pending \in [Keys -> SUBSET Deltas] /\ Cardinality(MapKeys) <= Buffer
  /\ loop \in {"select", "writing", "last", "done", "killed"}
  /\ closer \in {"none", "waiting", "returned", "timedout"}
  /\ times \in [Deltas -> Nat]
  /\ dropped \subseteq Deltas
  /\ lost \subseteq Deltas
  /\ panicked \in BOOLEAN
  /\ failures \in Nat

Init ==
  /\ phase = [d \in Deltas |-> "idle"]
  /\ ch = <<>>
  /\ closed = FALSE
  /\ pending = [k \in Keys |-> {}]
  /\ loop = "select"
  /\ closer = "none"
  /\ times = [d \in Deltas |-> 0]
  /\ dropped = {}
  /\ lost = {}
  /\ panicked = FALSE
  /\ failures = 0

(***************************************************************************)
(* Add.  The read lock is held from the check of closed to the send.       *)
(***************************************************************************)

AddCheck(d) ==
  /\ phase[d] = "idle"
  /\ loop # "killed"
  /\ \/ /\ closed
        /\ dropped' = dropped \cup {d}
        /\ phase' = [phase EXCEPT ![d] = "returned"]
     \/ /\ ~closed
        /\ phase' = [phase EXCEPT ![d] = "sending"]
        /\ UNCHANGED dropped
  /\ UNCHANGED <<ch, closed, pending, loop, closer, times, lost, panicked, failures>>

AddSend(d) ==
  /\ phase[d] = "sending"
  /\ phase' = [phase EXCEPT ![d] = "returned"]
  /\ panicked' = (panicked \/ closed)
  /\ \/ /\ Len(ch) < Buffer
        /\ ch' = Append(ch, d)
        /\ UNCHANGED dropped
     \/ /\ Len(ch) >= Buffer
        /\ dropped' = dropped \cup {d}
        /\ UNCHANGED ch
  /\ UNCHANGED <<closed, pending, loop, closer, times, lost, failures>>

(***************************************************************************)
(* The goroutine.                                                          *)
(***************************************************************************)

\* Mutation: a delta replaces what its counter had pending.
MergeReplaces(d) ==
  \/ /\ KeyOf[d] \in MapKeys \/ Cardinality(MapKeys) < Buffer
     /\ pending' = [pending EXCEPT ![KeyOf[d]] = {d}]
     /\ UNCHANGED dropped
  \/ /\ ~(KeyOf[d] \in MapKeys \/ Cardinality(MapKeys) < Buffer)
     /\ dropped' = dropped \cup {d}
     /\ UNCHANGED pending

\* merge: sum into the counter's entry, or make one if there is room.
Merge(d) ==
  \/ /\ KeyOf[d] \in MapKeys \/ Cardinality(MapKeys) < Buffer
     /\ pending' = [pending EXCEPT ![KeyOf[d]] = @ \cup {d}]
     /\ UNCHANGED dropped
  \/ /\ KeyOf[d] \notin MapKeys /\ Cardinality(MapKeys) >= Buffer
     /\ dropped' = dropped \cup {d}
     /\ UNCHANGED pending

Receive ==
  /\ loop = "select"
  /\ ch # <<>>
  /\ Merge(Head(ch))
  /\ ch' = Tail(ch)
  /\ UNCHANGED <<phase, closed, loop, closer, times, lost, panicked, failures>>

\* Mutation: closing stops the goroutine before the channel is drained.
ReceiveClosedUndrained ==
  /\ loop = "select"
  /\ closed
  /\ loop' = IF MapKeys = {} THEN "done" ELSE "last"
  /\ UNCHANGED <<phase, ch, closed, pending, closer, times, dropped, lost, panicked,
                 failures>>

\* The channel is closed and empty: write once more and stop.
ReceiveClosed ==
  /\ loop = "select"
  /\ ch = <<>>
  /\ closed
  /\ loop' = IF MapKeys = {} THEN "done" ELSE "last"
  /\ UNCHANGED <<phase, ch, closed, pending, closer, times, dropped, lost, panicked,
                 failures>>

\* Mutation: the ticker writes full maps only.
TickWhenFull ==
  /\ loop = "select"
  /\ Cardinality(MapKeys) >= Buffer
  /\ loop' = "writing"
  /\ UNCHANGED <<phase, ch, closed, pending, closer, times, dropped, lost, panicked,
                 failures>>

Tick ==
  /\ loop = "select"
  /\ MapKeys # {}
  /\ loop' = "writing"
  /\ UNCHANGED <<phase, ch, closed, pending, closer, times, dropped, lost, panicked,
                 failures>>

\* AddDeltas' transaction takes effect.
Committed == times' = [d \in Deltas |-> times[d] + IF d \in Pending THEN 1 ELSE 0]

\* Where the goroutine goes after a write.
AfterWrite == loop' = IF loop = "last" THEN "done" ELSE "select"

\* Mutation: the written deltas stay in the map.
KeepWritten == UNCHANGED pending

\* A written map is replaced by an empty one.
ClearWritten == pending' = [k \in Keys |-> {}]

WriteOK ==
  /\ loop \in {"writing", "last"}
  /\ Committed
  /\ ClearWritten
  /\ AfterWrite
  /\ UNCHANGED <<phase, ch, closed, closer, dropped, lost, panicked, failures>>

\* The write fails, whether or not its commit took effect.  The deltas stay
\* for the next tick; after the last write there is none.
WriteFails ==
  /\ loop \in {"writing", "last"}
  /\ failures < MaxFailures
  /\ failures' = failures + 1
  /\ \/ UNCHANGED times
     \/ Committed
  /\ \/ loop = "last" /\ lost' = lost \cup Pending
                      /\ pending' = [k \in Keys |-> {}]
     \/ loop = "writing" /\ UNCHANGED <<lost, pending>>
  /\ AfterWrite
  /\ UNCHANGED <<phase, ch, closed, closer, dropped, panicked>>

(***************************************************************************)
(* Close, and the end of the process after it.                             *)
(***************************************************************************)

\* Mutation: the channel is closed without waiting for the readers.
NoReadersIgnored == TRUE

\* Lock waits until no Add holds the read lock.
NoReaders == \A d \in Deltas : phase[d] # "sending"

Close ==
  /\ closer = "none"
  /\ NoReaders
  /\ closed' = TRUE
  /\ closer' = "waiting"
  /\ UNCHANGED <<phase, ch, pending, loop, times, dropped, lost, panicked, failures>>

CloseReturns ==
  /\ closer = "waiting"
  /\ loop = "done"
  /\ closer' = "returned"
  /\ UNCHANGED <<phase, ch, closed, pending, loop, times, dropped, lost, panicked,
                 failures>>

\* The shutdown deadline passes first, and the process exits.
CloseTimesOut ==
  /\ closer = "waiting"
  /\ loop # "done"
  /\ closer' = "timedout"
  /\ loop' = "killed"
  /\ lost' = lost \cup Pending \cup Queued
  /\ ch' = <<>>
  /\ pending' = [k \in Keys |-> {}]
  /\ \/ UNCHANGED times
     \/ loop \in {"writing", "last"} /\ Committed
  /\ UNCHANGED <<phase, closed, dropped, panicked, failures>>

-----------------------------------------------------------------------------

LoopStep == Receive \/ ReceiveClosed \/ Tick \/ WriteOK \/ WriteFails

Next ==
  \/ \E d \in Deltas : AddCheck(d) \/ AddSend(d)
  \/ LoopStep
  \/ Close
  \/ CloseReturns
  \/ CloseTimesOut

Spec == Init /\ [][Next]_vars

\* The goroutine never blocks: a write is bounded by flushWriteTimeout, and the
\* ticker keeps firing.  An Add never blocks either.
Fairness ==
  /\ WF_vars(Receive \/ ReceiveClosed)
  /\ SF_vars(Tick)
  /\ WF_vars(WriteOK \/ WriteFails)
  /\ \A d \in Deltas : WF_vars(AddSend(d))
  /\ WF_vars(CloseReturns)

FairSpec == Spec /\ Fairness

(***************************************************************************)
(* Properties.                                                             *)
(***************************************************************************)

\* Every delta whose Add returned can be accounted for: it is queued, pending,
\* in Postgres, in the dropped counter, or was lost when the process ended.
NoSilentLoss ==
  \A d \in Deltas : phase[d] = "returned" =>
    d \in Queued \cup Pending \cup Landed \cup dropped \cup lost

\* A delta is committed twice only when a write that took effect was reported
\* as failed, and then no more often than writes failed.
CommittedOnce == \A d \in Deltas : times[d] <= 1 + failures

\* "A delta arriving after shutdown is dropped too, not a panic."
NeverPanics == ~panicked

\* Close stops accepting deltas and writes what is pending: once it returned,
\* nothing is left behind, unless the last write failed.
CloseFlushes ==
  closer = "returned" =>
    /\ Queued \cup Pending = {}
    /\ failures = 0 => lost = {}

\* An accepted delta does not wait for ever: it reaches Postgres, or a counter
\* map without room, or the process ends.
AcceptedLands ==
  \A d \in Deltas :
    d \in Queued \cup Pending ~> d \in Landed \cup dropped \cup lost

\* The flusher is a delta log.
Log == INSTANCE DeltaLog WITH
         held <- Queued \cup Pending, landed <- Landed,
         refused <- dropped, givenUp <- lost
ImplementsLog == Log!LogSpec

(***************************************************************************)
(* The inductive invariant behind the safety properties and the refinement *)
(***************************************************************************)

\* How far Close and the goroutine have come, and what that says of the rest.
CloseInv ==
  /\ closed <=> closer # "none"
  /\ closed => NoReaders
  /\ ~panicked
  /\ loop \in {"writing", "last"} => Pending # {}
  /\ loop \in {"last", "done", "killed"} => closed /\ ch = <<>>
  /\ loop \in {"done", "killed"} => Pending = {}
  /\ closer = "returned" => loop = "done"
  /\ closer = "timedout" <=> loop = "killed"
  /\ lost # {} => failures > 0 \/ closer = "timedout"

\* A delta is in one place at a time.  Only one that is pending may be in
\* Postgres as well: a failed write took effect.
PlaceInv ==
  /\ \A i, j \in DOMAIN ch : ch[i] = ch[j] => i = j
  /\ Queued \cap Pending = {}
  /\ \A d \in Deltas : phase[d] # "returned" =>
       d \notin Queued \cup Pending \cup Landed \cup dropped \cup lost
  /\ \A d \in Queued : d \notin Landed \cup dropped \cup lost
  /\ \A d \in Pending : d \notin dropped \cup lost /\ times[d] <= failures

FlusherInv ==
  TypeOK /\ IsFiniteSet(MapKeys) /\ CloseInv /\ PlaceInv /\ NoSilentLoss /\ CommittedOnce
=============================================================================
