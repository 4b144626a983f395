-------------------------------- MODULE Sink --------------------------------
(***************************************************************************)
(* The decision sink: the buffer of outbound/sink/buffered.go and the      *)
(* writer of repositories/records.go behind it.  Request goroutines Record *)
(* decisions into a bounded channel, one goroutine writes them in batches, *)
(* each to two tables in one transaction, and a shutdown's Flush closes    *)
(* the channel.  Nothing orders Record's look at the closed flag and its   *)
(* send against Flush's store of the flag and its close.                   *)
(***************************************************************************)
EXTENDS Naturals, Sequences, FiniteSets, SequencesExt

CONSTANTS
  Decisions,     \* decisions, each recorded by a goroutine of its own
  BufferSize,    \* Config.BufferSize
  BatchSize      \* Config.BatchSize

ASSUME SinkAssumption ==
  /\ IsFiniteSet(Decisions)
  /\ BufferSize \in Nat \ {0}
  /\ BatchSize \in Nat \ {0}

VARIABLES
  phase,     \* Record of each decision: "idle", "sending", "returned", "panicked"
  ch,        \* the channel's contents
  chClosed,  \* the channel is closed
  closed,    \* Buffered.closed
  batch,     \* the goroutine's batch
  loop,      \* the goroutine: "select", in RecordWriter.Write "write", "ledgered"
             \* and "copied", then "done", or "killed" with the process
  last,      \* the write under way is the last
  flush,     \* Flush: "none", "stored", "waiting", "returned", "timedout"
  ledger,    \* rows of each decision in usage_ledger, committed
  audit,     \* and in audit_log
  failed,    \* decisions of batches whose write failed
  dropped,   \* decisions the dropped counter counts
  lost       \* decisions accepted and unwritten when the process ended

vars == <<phase, ch, chClosed, closed, batch, loop, last, flush, ledger, audit, failed, dropped, lost>>

Written == {d \in Decisions : ledger[d] > 0}
Waiting == ToSet(ch) \cup ToSet(batch)

\* The types, and the capacities of the channel and of the batch.
TypeOK ==
  /\ phase \in [Decisions -> {"idle", "sending", "returned", "panicked"}]
  /\ ch \in Seq(Decisions) /\ Len(ch) <= BufferSize
  /\ chClosed \in BOOLEAN
  /\ closed \in BOOLEAN
  /\ batch \in Seq(Decisions) /\ Len(batch) <= BatchSize
  /\ loop \in {"select", "write", "ledgered", "copied", "done", "killed"}
  /\ last \in BOOLEAN
  /\ flush \in {"none", "stored", "waiting", "returned", "timedout"}
  /\ ledger \in [Decisions -> Nat] /\ audit \in [Decisions -> Nat]
  /\ failed \subseteq Decisions
  /\ dropped \subseteq Decisions
  /\ lost \subseteq Decisions

Init ==
  /\ phase = [d \in Decisions |-> "idle"]
  /\ ch = <<>> /\ chClosed = FALSE /\ closed = FALSE
  /\ batch = <<>>
  /\ loop = "select" /\ last = FALSE
  /\ flush = "none"
  /\ ledger = [d \in Decisions |-> 0] /\ audit = [d \in Decisions |-> 0]
  /\ failed = {} /\ dropped = {} /\ lost = {}

(***************************************************************************)
(* Record.                                                                 *)
(***************************************************************************)

RecordCheck(d) ==
  /\ phase[d] = "idle"
  /\ loop # "killed"
  /\ \/ /\ closed
        /\ dropped' = dropped \cup {d}
        /\ phase' = [phase EXCEPT ![d] = "returned"]
     \/ /\ ~closed
        /\ phase' = [phase EXCEPT ![d] = "sending"]
        /\ UNCHANGED dropped
  /\ UNCHANGED <<ch, chClosed, closed, batch, loop, last, flush, ledger, audit, failed, lost>>

\* A select with a default never waits.  A send on a closed channel panics,
\* default or not.
RecordSend(d) ==
  /\ phase[d] = "sending"
  /\ loop # "killed"
  /\ \/ /\ chClosed
        /\ phase' = [phase EXCEPT ![d] = "panicked"]
        /\ UNCHANGED <<ch, dropped>>
     \/ /\ ~chClosed /\ Len(ch) < BufferSize
        /\ ch' = Append(ch, d)
        /\ phase' = [phase EXCEPT ![d] = "returned"]
        /\ UNCHANGED dropped
     \/ /\ ~chClosed /\ Len(ch) >= BufferSize
        /\ dropped' = dropped \cup {d}
        /\ phase' = [phase EXCEPT ![d] = "returned"]
        /\ UNCHANGED ch
  /\ UNCHANGED <<chClosed, closed, batch, loop, last, flush, ledger, audit, failed, lost>>

(***************************************************************************)
(* The goroutine.                                                          *)
(***************************************************************************)

Full(n) == n >= BatchSize

Receive ==
  /\ loop = "select"
  /\ ch # <<>>
  /\ batch' = Append(batch, Head(ch))
  /\ ch' = Tail(ch)
  /\ loop' = IF Full(Len(batch) + 1) THEN "write" ELSE "select"
  /\ UNCHANGED <<phase, chClosed, closed, last, flush, ledger, audit, failed, dropped, lost>>

\* Mutation: a closed channel ends the goroutine with its batch unwritten.
ReceiveClosedUnwritten ==
  /\ loop = "select"
  /\ ch = <<>> /\ chClosed
  /\ loop' = "done"
  /\ UNCHANGED <<phase, ch, chClosed, closed, batch, last, flush, ledger, audit, failed, dropped, lost>>

ReceiveClosed ==
  /\ loop = "select"
  /\ ch = <<>> /\ chClosed
  /\ loop' = IF batch = <<>> THEN "done" ELSE "write"
  /\ last' = TRUE
  /\ UNCHANGED <<phase, ch, chClosed, closed, batch, flush, ledger, audit, failed, dropped, lost>>

\* Mutation: the ticker writes full batches only.
TickFull == Len(batch) >= BatchSize

TickDue == batch # <<>>

Tick ==
  /\ loop = "select"
  /\ TickDue
  /\ loop' = "write"
  /\ UNCHANGED <<phase, ch, chClosed, closed, batch, last, flush, ledger, audit, failed, dropped, lost>>

\* Mutation: the batch is not emptied.
BatchKept == batch' = batch

BatchEmptied == batch' = <<>>

\* A batch is tried once: one that failed is counted, not repeated.
EndWrite ==
  /\ BatchEmptied
  /\ loop' = IF last THEN "done" ELSE "select"

Rows(table) ==
  [d \in Decisions |-> table[d] + Cardinality({i \in DOMAIN batch : batch[i] = d})]

\* Mutation: the ledger rows are copied outside the transaction.
StageLedgerNow == ledger' = Rows(ledger)

\* Rows copied in a transaction are in no table yet.
StageLedger == UNCHANGED ledger

CopyLedger ==
  /\ loop = "write"
  /\ StageLedger
  /\ loop' = "ledgered"
  /\ UNCHANGED <<phase, ch, chClosed, closed, batch, last, flush, audit, failed, dropped, lost>>

CopyAudit ==
  /\ loop = "ledgered"
  /\ loop' = "copied"
  /\ UNCHANGED <<phase, ch, chClosed, closed, batch, last, flush, ledger, audit, failed, dropped, lost>>

CommitRows == ledger' = Rows(ledger) /\ audit' = Rows(audit)

\* The commit succeeds; it may still be reported as failed.
CommitBatch ==
  /\ loop = "copied"
  /\ CommitRows
  /\ \/ UNCHANGED failed
     \/ failed' = failed \cup ToSet(batch)
  /\ EndWrite
  /\ UNCHANGED <<phase, ch, chClosed, closed, last, flush, dropped, lost>>

\* A tenant cannot be looked up, a row cannot be encoded, or the database fails
\* before the commit: the whole batch is rolled back.
WriteFails ==
  /\ loop \in {"write", "ledgered", "copied"}
  /\ failed' = failed \cup ToSet(batch)
  /\ EndWrite
  /\ UNCHANGED <<phase, ch, chClosed, closed, last, flush, ledger, audit, dropped, lost>>

(***************************************************************************)
(* Flush, and the end of the process after it.                             *)
(***************************************************************************)

FlushStore ==
  /\ flush = "none"
  /\ closed' = TRUE
  /\ flush' = "stored"
  /\ UNCHANGED <<phase, ch, chClosed, batch, loop, last, ledger, audit, failed, dropped, lost>>

FlushClose ==
  /\ flush = "stored"
  /\ chClosed' = TRUE
  /\ flush' = "waiting"
  /\ UNCHANGED <<phase, ch, closed, batch, loop, last, ledger, audit, failed, dropped, lost>>

FlushReturns ==
  /\ flush = "waiting"
  /\ loop = "done"
  /\ flush' = "returned"
  /\ UNCHANGED <<phase, ch, chClosed, closed, batch, loop, last, ledger, audit, failed, dropped, lost>>

\* The flush deadline passes first, and the process exits; a commit under way
\* may still take effect.
FlushTimesOut ==
  /\ flush = "waiting"
  /\ loop # "done"
  /\ flush' = "timedout"
  /\ loop' = "killed"
  /\ \/ lost' = lost \cup Waiting /\ UNCHANGED <<ledger, audit>>
     \/ loop = "copied" /\ lost' = lost \cup ToSet(ch) /\ CommitRows
  /\ ch' = <<>>
  /\ batch' = <<>>
  /\ UNCHANGED <<phase, chClosed, closed, last, failed, dropped>>

-----------------------------------------------------------------------------

WriteStep == CopyLedger \/ CopyAudit \/ CommitBatch \/ WriteFails

Next ==
  \/ \E d \in Decisions : RecordCheck(d) \/ RecordSend(d)
  \/ Receive \/ ReceiveClosed \/ Tick
  \/ WriteStep
  \/ FlushStore \/ FlushClose \/ FlushReturns \/ FlushTimesOut

Spec == Init /\ [][Next]_vars

\* The goroutine waits only in its select, and a write is bounded by WriteTimeout.
\* The ticker keeps firing, and a select with several ready cases starves none.
Fairness ==
  /\ WF_vars(Receive \/ ReceiveClosed)
  /\ SF_vars(Tick)
  /\ WF_vars(WriteStep)
FairSpec == Spec /\ Fairness

(***************************************************************************)
(* Properties.                                                             *)
(***************************************************************************)

\* Every decision Record took is in exactly one place: waiting, in the ledger once,
\* failed, dropped, or lost with the process, and Stats counts it there.  Only a
\* commit that took effect and was reported as failed is counted twice.
Conserved ==
  \A d \in Decisions :
    LET places == <<d \in Waiting, d \in Written \cup failed, d \in dropped, d \in lost>>
    IN  /\ ledger[d] <= 1
        /\ Cardinality({i \in DOMAIN places : places[i]}) =
             IF phase[d] = "returned" THEN 1 ELSE 0

\* Whenever the process dies, no spend is in the ledger without its explanation in
\* the audit log: "two COPYs without one would let a crash leave spend recorded
\* with no explanation of where it went".
LedgerExplained == ledger = audit

\* "Flush blocks until buffered records are persisted": once it returned, no
\* decision a Record took is waiting, and none will ever be taken.
FlushDrains ==
  flush = "returned" =>
    /\ Waiting = {}
    /\ \A d \in Decisions : phase[d] = "returned" => d \in Written \cup failed \cup dropped

\* A decision in the channel or the batch is written, or its write fails, or the
\* process ends.
RecordsLand ==
  \A d \in Decisions : d \in Waiting ~> d \in Written \cup failed \cup lost

\* "It MUST NOT block and MUST NOT fail": Record does not panic.
RecordNeverFails == \A d \in Decisions : phase[d] # "panicked"

(***************************************************************************)
(* The inductive invariant behind Conserved and FlushDrains.               *)
(***************************************************************************)

\* How far Flush and the goroutine have come, and what that says of the rest.
ControlInv ==
  /\ closed <=> flush # "none"
  /\ chClosed <=> flush \in {"waiting", "returned", "timedout"}
  /\ last => chClosed /\ ch = <<>>
  /\ loop = "select" => ~last /\ Len(batch) < BatchSize
  /\ loop \in {"done", "killed"} => ch = <<>> /\ batch = <<>>
  /\ loop = "done" => last
  /\ flush = "returned" => loop = "done"
  /\ flush = "timedout" <=> loop = "killed"
  /\ lost # {} => flush = "timedout"

\* No decision waits twice, and none that waits is anywhere else.
PlaceInv ==
  /\ IsInjective(ch) /\ IsInjective(batch) /\ ToSet(ch) \cap ToSet(batch) = {}
  /\ \A d \in Decisions :
       /\ ledger[d] <= 1
       /\ phase[d] = "returned" <=> d \in Waiting \cup Written \cup failed \cup dropped \cup lost
       /\ d \in Waiting => d \notin Written \cup failed \cup dropped \cup lost
       /\ d \in Written \cup failed => d \notin dropped \cup lost
       /\ d \in dropped => d \notin lost

SinkInv == TypeOK /\ ControlInv /\ PlaceInv /\ LedgerExplained
=============================================================================
