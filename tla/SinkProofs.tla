----------------------------- MODULE SinkProofs -----------------------------
(***************************************************************************)
(* The decision sink, for every set of decisions and every size of the     *)
(* buffer and of a batch: no decision is duplicated or disappears, the     *)
(* ledger and the audit log agree, and Flush drains; and what is read of   *)
(* the ledger meanwhile: a report adds up to the decisions it covers, and  *)
(* a walk of the audit pages meets every row once.                         *)
(***************************************************************************)
EXTENDS Observability, FiniteSetTheorems, TLAPS

(***************************************************************************)
(* Sums of weights, which count units.                                     *)
(***************************************************************************)

\* The units of finitely many natural weights are finitely many.
LEMMA UnitsFinite ==
  ASSUME NEW S, IsFiniteSet(S), NEW f \in [S -> Nat]
  PROVE  IsFiniteSet(Units(S, f))
<1> DEFINE T == {{x} \X (1..f[x]) : x \in S}
           g == [x \in S |-> {x} \X (1..f[x])]
<1>1. g \in Surjection(S, T)
  BY DEF Surjection
<1>2. IsFiniteSet(T)
  BY <1>1, FS_Surjection
<1>3. \A x \in S : IsFiniteSet({x} \X (1..f[x]))
  <2> TAKE x \in S
  <2>1. IsFiniteSet({x})
    BY FS_Singleton
  <2>2. f[x] \in Int /\ 1 \in Int
    OBVIOUS
  <2>3. IsFiniteSet(1..f[x])
    BY <2>2, FS_Interval
  <2> QED
    BY <2>1, <2>3, FS_Product
<1>4. \A U \in T : IsFiniteSet(U)
  BY <1>3
<1> QED
  BY <1>2, <1>4, FS_UNION DEF Units

\* A sum of natural weights is a natural number.
LEMMA TotalType ==
  ASSUME NEW S, IsFiniteSet(S), NEW f \in [S -> Nat]
  PROVE  Total(S, f) \in Nat
BY UnitsFinite, FS_CardinalityType DEF Total

\* Membership in Units, spelled out.
LEMMA UnitsMember ==
  ASSUME NEW S, NEW f \in [S -> Nat], NEW u
  PROVE  u \in Units(S, f) <=> \E x \in S : \E k \in 1..f[x] : u = <<x, k>>
BY DEF Units

\* The sizes of disjoint groups sum to the size of their union: the units of the k-th
\* weight are numbered as the members of the k-th group are.
LEMMA SizeOfGroups ==
  ASSUME NEW K, IsFiniteSet(K), NEW X, \A k \in K : IsFiniteSet(X[k]),
         \A j, k \in K : j # k => X[j] \cap X[k] = {}
  PROVE  Total(K, [k \in K |-> Cardinality(X[k])]) = Cardinality(UNION {X[k] : k \in K})
<1> DEFINE f == [k \in K |-> Cardinality(X[k])]
           U == UNION {X[k] : k \in K}
           b == [k \in K |-> CHOOSE h : h \in Bijection(1..f[k], X[k])]
           B == [u \in Units(K, f) |-> b[u[1]][u[2]]]
<1>1. f \in [K -> Nat]
  BY FS_CardinalityType
<1>2. \A k \in K : b[k] \in Bijection(1..f[k], X[k])
  <2> TAKE k \in K
  <2>1. \E h : h \in Bijection(1..f[k], X[k])
    BY FS_CardinalityType DEF ExistsBijection
  <2> QED BY <2>1
<1>3. \A k \in K : /\ b[k] \in [1..f[k] -> X[k]]
                   /\ \A i, j \in 1..f[k] : b[k][i] = b[k][j] => i = j
                   /\ \A x \in X[k] : \E i \in 1..f[k] : b[k][i] = x
  <2> HIDE DEF f, b
  <2> TAKE k \in K
  <2>1. b[k] \in Injection(1..f[k], X[k]) /\ b[k] \in Surjection(1..f[k], X[k])
    BY <1>2 DEF Bijection
  <2> QED BY <2>1 DEF Injection, Surjection, IsInjective
<1>4. \A u : u \in Units(K, f) <=> \E k \in K : \E i \in 1..f[k] : u = <<k, i>>
  BY <1>1, UnitsMember
<1>5. B = [u \in Units(K, f) |-> b[u[1]][u[2]]] /\ \A k \in K : \A i \in 1..f[k] : B[<<k, i>>] = b[k][i]
  BY <1>4
<1> HIDE DEF f, b, B
<1>6. B \in [Units(K, f) -> U]
  <2>1. ASSUME NEW u \in Units(K, f) PROVE b[u[1]][u[2]] \in U
    <3>1. PICK k \in K : \E i \in 1..f[k] : u = <<k, i>>
      BY <1>4
    <3>2. PICK i \in 1..f[k] : u = <<k, i>>
      BY <3>1
    <3>3. b[k][i] \in X[k] /\ u[1] = k /\ u[2] = i
      BY <1>3, <3>2
    <3> QED BY <3>3
  <2> QED BY <2>1, <1>5
<1>7. \A u, v \in Units(K, f) : B[u] = B[v] => u = v
  <2> SUFFICES ASSUME NEW u \in Units(K, f), NEW v \in Units(K, f), B[u] = B[v] PROVE u = v
    OBVIOUS
  <2>a. PICK k \in K : \E i \in 1..f[k] : u = <<k, i>>
    BY <1>4
  <2>1. PICK i \in 1..f[k] : u = <<k, i>>
    BY <2>a
  <2>b. PICK l \in K : \E j \in 1..f[l] : v = <<l, j>>
    BY <1>4
  <2>2. PICK j \in 1..f[l] : v = <<l, j>>
    BY <2>b
  <2>3. b[k][i] = b[l][j] /\ b[k][i] \in X[k] /\ b[l][j] \in X[l]
    <3>1. B[u] = b[k][i] /\ B[v] = b[l][j]
      BY <1>5, <2>1, <2>2
    <3> QED BY <1>3, <3>1, <2>1, <2>2
  <2>4. k = l
    BY <2>3
  <2> QED BY <1>3, <2>1, <2>2, <2>3, <2>4
<1>8. \A x \in U : \E u \in Units(K, f) : B[u] = x
  <2> TAKE x \in U
  <2>1. PICK k \in K : x \in X[k]
    OBVIOUS
  <2>2. PICK i \in 1..f[k] : b[k][i] = x
    BY <1>3, <2>1
  <2> QED BY <1>4, <1>5, <2>2
<1>9. ExistsBijection(Units(K, f), U)
  BY <1>6, <1>7, <1>8 DEF ExistsBijection, Bijection, Injection, Surjection, IsInjective
<1>10. IsFiniteSet(Units(K, f))
  BY <1>1, UnitsFinite
<1>11. Cardinality(U) = Cardinality(Units(K, f))
  BY <1>9, <1>10, FS_Bijection
<1> QED BY <1>11 DEF Total, f
(***************************************************************************)
(* Queues.                                                                 *)
(***************************************************************************)

\* Appending to a queue without repetitions.
LEMMA AppendSet ==
  ASSUME NEW S, NEW s \in Seq(S), NEW d \in S
  PROVE  /\ Append(s, d) \in Seq(S) /\ Len(Append(s, d)) = Len(s) + 1
         /\ ToSet(Append(s, d)) = ToSet(s) \cup {d}
         /\ IsInjective(s) /\ d \notin ToSet(s) => IsInjective(Append(s, d))
<1> DEFINE t == Append(s, d)
<1>1. /\ t \in Seq(S) /\ Len(t) = Len(s) + 1 /\ DOMAIN s = 1..Len(s)
      /\ DOMAIN t = 1..(Len(s) + 1) /\ Len(s) \in Nat
  OBVIOUS
<1>2. t[Len(s) + 1] = d /\ \A i \in 1..Len(s) : t[i] = s[i]
  OBVIOUS
<1> HIDE DEF t
<1>3. ToSet(t) = ToSet(s) \cup {d}
  BY <1>1, <1>2 DEF ToSet
<1>4. ASSUME IsInjective(s), d \notin ToSet(s), NEW i \in DOMAIN t, NEW j \in DOMAIN t, t[i] = t[j]
      PROVE  i = j
  BY <1>1, <1>2, <1>4 DEF ToSet, IsInjective
<1>5. IsInjective(s) /\ d \notin ToSet(s) => IsInjective(t)
  BY <1>4 DEF IsInjective
<1> QED
  BY <1>1, <1>3, <1>5 DEF t

\* Taking the head of a queue without repetitions.
LEMMA TailSet ==
  ASSUME NEW S, NEW s \in Seq(S), s # <<>>, IsInjective(s)
  PROVE  /\ Tail(s) \in Seq(S) /\ Len(Tail(s)) = Len(s) - 1
         /\ Head(s) \in S /\ ToSet(s) = ToSet(Tail(s)) \cup {Head(s)}
         /\ Head(s) \notin ToSet(Tail(s)) /\ IsInjective(Tail(s))
<1> DEFINE t == Tail(s)
<1>1. /\ t \in Seq(S) /\ Len(t) = Len(s) - 1 /\ DOMAIN s = 1..Len(s)
      /\ DOMAIN t = 1..(Len(s) - 1) /\ Len(s) \in Nat \ {0}
  OBVIOUS
<1>2. Head(s) = s[1] /\ Head(s) \in S /\ \A i \in 1..(Len(s) - 1) : t[i] = s[i + 1]
  OBVIOUS
<1> HIDE DEF t
<1>3. \A i \in DOMAIN t : i + 1 \in DOMAIN s /\ i + 1 # 1 /\ t[i] = s[i + 1]
  BY <1>1, <1>2
<1>4. ASSUME NEW i \in DOMAIN s, i # 1 PROVE s[i] \in ToSet(t)
  <2>1. i - 1 \in DOMAIN t /\ t[i - 1] = s[i]
    BY <1>1, <1>2, <1>4
  <2> QED
    BY <2>1 DEF ToSet
<1>5. 1 \in DOMAIN s
  BY <1>1
<1>6. ToSet(t) \subseteq ToSet(s) /\ Head(s) \in ToSet(s)
  BY <1>2, <1>3, <1>5 DEF ToSet
<1>7. ToSet(s) = ToSet(t) \cup {Head(s)}
  BY <1>2, <1>4, <1>6 DEF ToSet
<1>8. Head(s) \notin ToSet(t)
  BY <1>2, <1>3, <1>5 DEF ToSet, IsInjective
<1>9. ASSUME NEW i \in DOMAIN t, NEW j \in DOMAIN t, t[i] = t[j] PROVE i = j
  <2>1. i + 1 = j + 1 /\ i \in Nat /\ j \in Nat
    BY <1>1, <1>3, <1>9 DEF IsInjective
  <2> QED
    BY <2>1
<1> QED
  BY <1>1, <1>2, <1>7, <1>8, <1>9 DEF t, IsInjective

\* An empty queue.
LEMMA EmptySeqSet == ToSet(<<>>) = {} /\ IsInjective(<<>>)
BY DEF ToSet, IsInjective

\* In a batch without repetitions each decision has one row.
LEMMA OneRow ==
  ASSUME NEW s, IsInjective(s), NEW d
  PROVE  Cardinality({i \in DOMAIN s : s[i] = d}) = IF d \in ToSet(s) THEN 1 ELSE 0
<1> DEFINE I == {i \in DOMAIN s : s[i] = d}
<1>1. CASE d \in ToSet(s)
  <2>1. PICK i \in DOMAIN s : s[i] = d
    BY <1>1 DEF ToSet
  <2>2. I = {i}
    BY <2>1 DEF IsInjective
  <2>3. Cardinality(I) = 1
    BY <2>2, FS_Singleton
  <2> QED
    BY <1>1, <2>3
<1>2. CASE d \notin ToSet(s)
  <2>1. I = {}
    BY <1>2 DEF ToSet
  <2> QED
    BY <1>2, <2>1, FS_EmptySet
<1> QED
  BY <1>1, <1>2

\* A commit adds one row for each decision of the batch, to both tables.
LEMMA CommitEffect ==
  ASSUME TypeOK, IsInjective(batch), LedgerExplained, CommitRows
  PROVE  /\ ledger' \in [Decisions -> Nat] /\ audit' = ledger'
         /\ \A d \in Decisions : ledger'[d] = IF d \in ToSet(batch) THEN ledger[d] + 1 ELSE ledger[d]
<1>1. \A d \in Decisions : ledger[d] \in Nat
  BY DEF TypeOK
<1>2. ledger' = Rows(ledger) /\ audit' = Rows(ledger)
  BY DEF CommitRows, LedgerExplained
<1>3. \A d \in Decisions : Rows(ledger)[d] = ledger[d] + (IF d \in ToSet(batch) THEN 1 ELSE 0)
  BY OneRow DEF Rows
<1>4. Rows(ledger) = [d \in Decisions |-> Rows(ledger)[d]]
  BY DEF Rows
<1>5. \A d \in Decisions : Rows(ledger)[d] = IF d \in ToSet(batch) THEN ledger[d] + 1 ELSE ledger[d]
  BY <1>1, <1>3
<1> QED
  BY <1>1, <1>2, <1>4, <1>5

\* Record's check of the closed flag keeps the invariant.
LEMMA CheckStep ==
  ASSUME SinkInv, NEW d \in Decisions, RecordCheck(d)
  PROVE  SinkInv'
<1>a. TypeOK /\ ControlInv /\ PlaceInv /\ LedgerExplained
  BY DEF SinkInv
<1>b. UNCHANGED <<ch, chClosed, closed, batch, loop, last, flush, ledger, audit, failed, lost,
                  Waiting, Written>>
  BY DEF RecordCheck, Waiting, Written
<1>c. phase[d] = "idle" /\ d \notin Waiting \cup Written \cup failed \cup dropped \cup lost
  BY <1>a DEF RecordCheck, PlaceInv
<1>d. \/ dropped' = dropped \cup {d} /\ phase'[d] = "returned"
      \/ dropped' = dropped /\ phase'[d] = "sending"
  BY <1>a DEF RecordCheck, TypeOK
<1>e. \A x \in Decisions : x # d => phase'[x] = phase[x]
  BY <1>a DEF RecordCheck, TypeOK
<1>1. TypeOK'
  BY <1>a, <1>b DEF TypeOK, RecordCheck
<1>2. ControlInv'
  BY <1>a, <1>b DEF ControlInv
<1>3. PlaceInv'
  BY <1>a, <1>b, <1>c, <1>d, <1>e DEF PlaceInv
<1> QED
  BY <1>a, <1>b, <1>1, <1>2, <1>3 DEF SinkInv, LedgerExplained

\* Record's send keeps the invariant, also when it panics.
LEMMA SendStep ==
  ASSUME SinkInv, NEW d \in Decisions, RecordSend(d)
  PROVE  SinkInv'
<1>a. TypeOK /\ ControlInv /\ PlaceInv /\ LedgerExplained
  BY DEF SinkInv
<1>b. UNCHANGED <<chClosed, closed, batch, loop, last, flush, ledger, audit, failed, lost, Written>>
  BY DEF RecordSend, Written
<1>c. phase[d] = "sending" /\ d \notin Waiting \cup Written \cup failed \cup dropped \cup lost
  BY <1>a DEF RecordSend, PlaceInv
<1>d. \/ chClosed /\ ch' = ch /\ dropped' = dropped /\ phase'[d] = "panicked"
      \/ /\ ~chClosed /\ Len(ch) < BufferSize /\ ch' = Append(ch, d) /\ dropped' = dropped
         /\ phase'[d] = "returned"
      \/ ~chClosed /\ ch' = ch /\ dropped' = dropped \cup {d} /\ phase'[d] = "returned"
  BY <1>a DEF RecordSend, TypeOK
<1>e. \A x \in Decisions : x # d => phase'[x] = phase[x]
  BY <1>a DEF RecordSend, TypeOK
<1>f. ch \in Seq(Decisions) /\ Len(ch) <= BufferSize /\ Len(ch) \in Nat /\ BufferSize \in Nat
  BY <1>a, SinkAssumption DEF TypeOK
<1>g. CASE ch' = ch
  <2>1. UNCHANGED <<ToSet(ch), Waiting>>
    BY <1>b, <1>g DEF Waiting
  <2>2. TypeOK'
    BY <1>a, <1>b, <1>g DEF TypeOK, RecordSend
  <2>3. ControlInv'
    BY <1>a, <1>b, <1>g DEF ControlInv
  <2>4. PlaceInv'
    <3>1. ch' # Append(ch, d)
      <4>1. Len(Append(ch, d)) = Len(ch) + 1
        BY <1>f, AppendSet
      <4> QED
        BY <1>f, <1>g, <4>1
    <3>2. \/ dropped' = dropped /\ phase'[d] = "panicked"
          \/ dropped' = dropped \cup {d} /\ phase'[d] = "returned"
      BY <1>d, <3>1
    <3> QED
      BY <1>a, <1>b, <1>c, <1>e, <1>g, <2>1, <3>2 DEF PlaceInv
  <2> QED
    BY <1>a, <1>b, <2>2, <2>3, <2>4 DEF SinkInv, LedgerExplained
<1>h. CASE /\ ~chClosed /\ Len(ch) < BufferSize /\ ch' = Append(ch, d) /\ dropped' = dropped
           /\ phase'[d] = "returned"
  <2>1. /\ ch' \in Seq(Decisions) /\ Len(ch') = Len(ch) + 1
        /\ ToSet(ch') = ToSet(ch) \cup {d}
        /\ IsInjective(ch) /\ d \notin ToSet(ch) => IsInjective(ch')
    BY <1>f, <1>h, AppendSet
  <2>2. Waiting' = Waiting \cup {d}
    BY <1>b, <2>1 DEF Waiting
  <2>3. TypeOK'
    <3>1. Len(ch') <= BufferSize
      BY <1>f, <1>h, <2>1
    <3> QED
      BY <1>a, <1>b, <1>h, <2>1, <3>1 DEF TypeOK, RecordSend
  <2>4. ControlInv'
    BY <1>a, <1>b, <1>h DEF ControlInv
  <2>5. PlaceInv'
    <3>1. d \notin ToSet(ch) /\ d \notin ToSet(batch)
      BY <1>c DEF Waiting
    <3> QED
      BY <1>a, <1>b, <1>c, <1>e, <1>h, <2>1, <2>2, <3>1 DEF PlaceInv
  <2> QED
    BY <1>a, <1>b, <2>3, <2>4, <2>5 DEF SinkInv, LedgerExplained
<1> QED
  BY <1>d, <1>g, <1>h

\* A receive moves a decision from the channel to the batch.
LEMMA ReceiveStep ==
  ASSUME SinkInv, Receive
  PROVE  SinkInv'
<1> DEFINE d == Head(ch)
<1>a. TypeOK /\ ControlInv /\ PlaceInv /\ LedgerExplained
  BY DEF SinkInv
<1>b. UNCHANGED <<phase, chClosed, closed, last, flush, ledger, audit, failed, dropped, lost, Written>>
  BY DEF Receive, Written
<1>c. loop = "select" /\ ch # <<>> /\ batch' = Append(batch, d) /\ ch' = Tail(ch)
  BY DEF Receive
<1>d. ch \in Seq(Decisions) /\ batch \in Seq(Decisions) /\ IsInjective(ch) /\ IsInjective(batch)
  BY <1>a DEF TypeOK, PlaceInv
<1>e. /\ ch' \in Seq(Decisions) /\ Len(ch') = Len(ch) - 1 /\ d \in Decisions
      /\ ToSet(ch) = ToSet(ch') \cup {d} /\ d \notin ToSet(ch') /\ IsInjective(ch')
  BY <1>c, <1>d, TailSet
<1>f. /\ batch' \in Seq(Decisions) /\ Len(batch') = Len(batch) + 1
      /\ ToSet(batch') = ToSet(batch) \cup {d}
      /\ d \notin ToSet(batch) => IsInjective(batch')
  BY <1>c, <1>d, <1>e, AppendSet
<1>g. d \notin ToSet(batch)
  BY <1>a, <1>e DEF PlaceInv
<1>h. Len(batch) < BatchSize /\ Len(batch) \in Nat /\ BatchSize \in Nat /\ Len(ch) \in Nat
      /\ Len(ch) <= BufferSize /\ BufferSize \in Nat
  BY <1>a, <1>c, <1>d, SinkAssumption DEF ControlInv, TypeOK
<1>i. loop' = IF Len(batch) + 1 >= BatchSize THEN "write" ELSE "select"
  BY DEF Receive, Full
<1> HIDE DEF d
<1>1. TypeOK'
  <2>1. Len(ch') <= BufferSize /\ Len(batch') <= BatchSize
    BY <1>e, <1>f, <1>h
  <2> QED
    BY <1>a, <1>b, <1>e, <1>f, <1>i, <2>1 DEF TypeOK
<1>2. ControlInv'
  <2>1. loop' = "select" => Len(batch') < BatchSize
    BY <1>f, <1>h, <1>i
  <2>2. ~last /\ flush # "returned" /\ flush # "timedout" /\ loop' \in {"write", "select"}
    BY <1>a, <1>c, <1>i DEF ControlInv
  <2> QED
    BY <1>a, <1>b, <2>1, <2>2 DEF ControlInv
<1>3. PlaceInv'
  <2>1. Waiting' = Waiting
    BY <1>e, <1>f DEF Waiting
  <2>2. ToSet(ch') \cap ToSet(batch') = {}
    BY <1>a, <1>e, <1>f DEF PlaceInv
  <2> QED
    BY <1>a, <1>b, <1>e, <1>f, <1>g, <2>1, <2>2 DEF PlaceInv
<1> QED
  BY <1>a, <1>b, <1>1, <1>2, <1>3 DEF SinkInv, LedgerExplained

\* The steps that move no decision.
LEMMA TurnStep ==
  ASSUME SinkInv,
         \/ ReceiveClosed \/ Tick \/ CopyLedger \/ CopyAudit
         \/ FlushStore \/ FlushClose \/ FlushReturns \/ UNCHANGED vars
  PROVE  SinkInv'
<1>a. TypeOK /\ ControlInv /\ PlaceInv /\ LedgerExplained
  BY DEF SinkInv
<1>b. UNCHANGED <<phase, ch, batch, ledger, audit, failed, dropped, lost>>
  BY DEF ReceiveClosed, Tick, CopyLedger, StageLedger, CopyAudit, FlushStore, FlushClose,
         FlushReturns, vars
<1>c. PlaceInv' /\ LedgerExplained'
  BY <1>a, <1>b DEF PlaceInv, Waiting, Written, LedgerExplained
<1>1. TypeOK'
  BY <1>a, <1>b DEF TypeOK, ReceiveClosed, Tick, CopyLedger, CopyAudit, FlushStore, FlushClose,
         FlushReturns, vars
<1>2. ControlInv'
  <2>1. CASE ReceiveClosed
    BY <1>a, <1>b, <2>1 DEF ControlInv, ReceiveClosed
  <2>2. CASE Tick \/ CopyLedger \/ CopyAudit
    BY <1>a, <1>b, <2>2 DEF ControlInv, Tick, CopyLedger, CopyAudit
  <2>3. CASE FlushStore \/ FlushClose \/ FlushReturns
    BY <1>a, <1>b, <2>3 DEF ControlInv, FlushStore, FlushClose, FlushReturns
  <2>4. CASE UNCHANGED vars
    BY <1>a, <1>b, <2>4 DEF ControlInv, vars
  <2> QED
    BY <2>1, <2>2, <2>3, <2>4
<1> QED
  BY <1>c, <1>1, <1>2 DEF SinkInv

\* The end of a write: the batch is in both tables, counted as failed, or both.
LEMMA WriteEnds ==
  ASSUME SinkInv, CommitBatch \/ WriteFails
  PROVE  SinkInv'
<1>a. TypeOK /\ ControlInv /\ PlaceInv /\ LedgerExplained
  BY DEF SinkInv
<1>b. UNCHANGED <<phase, ch, chClosed, closed, last, flush, dropped, lost>>
  BY DEF CommitBatch, WriteFails
<1>c. /\ loop \in {"write", "ledgered", "copied"} /\ batch' = <<>>
      /\ loop' = IF last THEN "done" ELSE "select"
  BY DEF CommitBatch, WriteFails, EndWrite, BatchEmptied
<1>d. /\ ledger' \in [Decisions -> Nat] /\ audit' = ledger'
      /\ \/ /\ \A x \in Decisions : ledger'[x] = IF x \in ToSet(batch) THEN ledger[x] + 1 ELSE ledger[x]
            /\ failed' = failed \/ failed' = failed \cup ToSet(batch)
         \/ ledger' = ledger /\ failed' = failed \cup ToSet(batch)
  <2>1. CASE CommitBatch
    BY <1>a, <2>1, CommitEffect DEF CommitBatch, PlaceInv
  <2>2. CASE WriteFails
    BY <1>a, <2>2 DEF WriteFails, LedgerExplained, TypeOK
  <2> QED
    BY <2>1, <2>2
<1>e. \A x \in Decisions : ledger[x] \in Nat
  BY <1>a DEF TypeOK
<1>f. ToSet(batch) \subseteq Decisions
  BY <1>a DEF TypeOK, ToSet
<1>g. ToSet(batch') = {} /\ IsInjective(batch')
  BY <1>c, EmptySeqSet
<1>h. Waiting' = ToSet(ch) /\ Waiting = ToSet(ch) \cup ToSet(batch)
  BY <1>b, <1>g DEF Waiting
<1>i. \A x \in Decisions : x \in (Written \cup failed)' <=> x \in Written \cup failed \cup ToSet(batch)
  BY <1>d, <1>e DEF Written
<1>1. TypeOK'
  <2>1. failed' \subseteq Decisions
    BY <1>a, <1>d, <1>f DEF TypeOK
  <2>2. batch' \in Seq(Decisions) /\ Len(batch') <= BatchSize
    BY <1>c, SinkAssumption
  <2> QED
    BY <1>a, <1>b, <1>c, <1>d, <2>1, <2>2 DEF TypeOK
<1>2. ControlInv'
  <2>1. Len(batch') < BatchSize
    BY <1>c, SinkAssumption
  <2>2. flush # "returned" /\ flush # "timedout"
    BY <1>a, <1>c DEF ControlInv
  <2> QED
    BY <1>a, <1>b, <1>c, <2>1, <2>2 DEF ControlInv
<1>3. PlaceInv'
  <2>1. IsInjective(ch') /\ ToSet(ch') \cap ToSet(batch') = {}
    BY <1>a, <1>b, <1>g DEF PlaceInv
  <2>2. ASSUME NEW x \in Decisions
        PROVE  /\ ledger'[x] <= 1
               /\ phase'[x] = "returned" <=>
                    x \in (Waiting \cup Written \cup failed \cup dropped \cup lost)'
               /\ x \in Waiting' => x \notin (Written \cup failed \cup dropped \cup lost)'
               /\ x \in (Written \cup failed)' => x \notin (dropped \cup lost)'
               /\ x \in dropped' => x \notin lost'
    <3>1. /\ ledger[x] <= 1
          /\ phase[x] = "returned" <=> x \in Waiting \cup Written \cup failed \cup dropped \cup lost
          /\ x \in Waiting => x \notin Written \cup failed \cup dropped \cup lost
          /\ x \in Written \cup failed => x \notin dropped \cup lost
          /\ x \in dropped => x \notin lost
      BY <1>a DEF PlaceInv
    <3>2. x \in ToSet(batch) => ledger[x] = 0 /\ x \notin ToSet(ch)
      BY <1>a, <1>e, <1>h, <3>1 DEF Written, PlaceInv
    <3>3. ledger'[x] <= 1
      BY <1>d, <1>e, <3>1, <3>2
    <3>4. x \in (Written \cup failed)' <=> x \in Written \cup failed \cup ToSet(batch)
      BY <1>i
    <3> QED
      BY <1>b, <1>h, <3>1, <3>2, <3>3, <3>4
  <2> QED
    BY <1>g, <2>1, <2>2 DEF PlaceInv
<1> QED
  BY <1>d, <1>1, <1>2, <1>3 DEF SinkInv, LedgerExplained

\* The deadline passes: what waits is lost, or a commit under way takes effect.
LEMMA TimeoutStep ==
  ASSUME SinkInv, FlushTimesOut
  PROVE  SinkInv'
<1>a. TypeOK /\ ControlInv /\ PlaceInv /\ LedgerExplained
  BY DEF SinkInv
<1>b. /\ UNCHANGED <<phase, chClosed, closed, last, failed, dropped>>
      /\ flush = "waiting" /\ flush' = "timedout" /\ loop' = "killed" /\ ch' = <<>> /\ batch' = <<>>
  BY DEF FlushTimesOut
<1>c. /\ ledger' \in [Decisions -> Nat] /\ audit' = ledger'
      /\ \/ lost' = lost \cup ToSet(ch) \cup ToSet(batch) /\ ledger' = ledger
         \/ /\ lost' = lost \cup ToSet(ch)
            /\ \A x \in Decisions : ledger'[x] = IF x \in ToSet(batch) THEN ledger[x] + 1 ELSE ledger[x]
  <2>1. CASE lost' = lost \cup Waiting /\ UNCHANGED <<ledger, audit>>
    BY <1>a, <2>1 DEF LedgerExplained, TypeOK, Waiting
  <2>2. CASE lost' = lost \cup ToSet(ch) /\ CommitRows
    BY <1>a, <2>2, CommitEffect DEF PlaceInv
  <2> QED
    BY <2>1, <2>2 DEF FlushTimesOut
<1>d. \A x \in Decisions : ledger[x] \in Nat
  BY <1>a DEF TypeOK
<1>e. ToSet(ch) \subseteq Decisions /\ ToSet(batch) \subseteq Decisions
  BY <1>a DEF TypeOK, ToSet
<1>f. Waiting' = {} /\ ToSet(ch') = {} /\ ToSet(batch') = {} /\ IsInjective(ch') /\ IsInjective(batch')
  BY <1>b, EmptySeqSet DEF Waiting
<1>1. TypeOK'
  <2>1. lost' \subseteq Decisions
    BY <1>a, <1>c, <1>e DEF TypeOK
  <2>2. /\ batch' \in Seq(Decisions) /\ Len(batch') <= BatchSize
        /\ ch' \in Seq(Decisions) /\ Len(ch') <= BufferSize
    BY <1>b, SinkAssumption
  <2> QED
    BY <1>a, <1>b, <1>c, <2>1, <2>2 DEF TypeOK
<1>2. ControlInv'
  BY <1>a, <1>b DEF ControlInv
<1>3. PlaceInv'
  <2>1. ASSUME NEW x \in Decisions
        PROVE  /\ ledger'[x] <= 1
               /\ phase'[x] = "returned" <=>
                    x \in (Waiting \cup Written \cup failed \cup dropped \cup lost)'
               /\ x \in Waiting' => x \notin (Written \cup failed \cup dropped \cup lost)'
               /\ x \in (Written \cup failed)' => x \notin (dropped \cup lost)'
               /\ x \in dropped' => x \notin lost'
    <3>1. /\ ledger[x] <= 1
          /\ phase[x] = "returned" <=> x \in Waiting \cup Written \cup failed \cup dropped \cup lost
          /\ x \in Waiting => x \notin Written \cup failed \cup dropped \cup lost
          /\ x \in Written \cup failed => x \notin dropped \cup lost
          /\ x \in dropped => x \notin lost
      BY <1>a DEF PlaceInv
    <3>2. x \in ToSet(batch) => ledger[x] = 0 /\ x \notin ToSet(ch)
      BY <1>a, <1>d, <3>1 DEF Written, Waiting, PlaceInv
    <3>3. ledger'[x] <= 1
      BY <1>c, <1>d, <3>1, <3>2
    <3>4. x \in Written <=> ledger[x] > 0
      BY DEF Written
    <3>5. x \in Written' <=> ledger'[x] > 0
      BY DEF Written
    <3>6. x \in Waiting <=> x \in ToSet(ch) \/ x \in ToSet(batch)
      BY DEF Waiting
    <3>7. CASE lost' = lost \cup ToSet(ch) \cup ToSet(batch) /\ ledger' = ledger
      BY <1>b, <1>f, <3>1, <3>3, <3>4, <3>5, <3>6, <3>7
    <3>8. CASE lost' = lost \cup ToSet(ch) /\ ledger'[x] = IF x \in ToSet(batch) THEN ledger[x] + 1 ELSE ledger[x]
      <4>1. x \in Written' <=> x \in Written \/ x \in ToSet(batch)
        BY <1>d, <3>4, <3>5, <3>8
      <4> QED
        BY <1>b, <1>f, <3>1, <3>2, <3>3, <3>6, <3>8, <4>1
    <3> QED
      BY <1>c, <3>7, <3>8
  <2> QED
    BY <1>f, <2>1 DEF PlaceInv
<1> QED
  BY <1>c, <1>1, <1>2, <1>3 DEF SinkInv, LedgerExplained

\* The initial state satisfies the invariant.
LEMMA SinkInit == Init => SinkInv
<1> SUFFICES ASSUME Init PROVE SinkInv
  OBVIOUS
<1>1. ToSet(ch) = {} /\ ToSet(batch) = {} /\ IsInjective(ch) /\ IsInjective(batch)
  BY EmptySeqSet DEF Init
<1>2. Waiting = {} /\ Written = {}
  BY <1>1 DEF Init, Waiting, Written
<1>3. TypeOK
  <2>1. /\ ch \in Seq(Decisions) /\ Len(ch) <= BufferSize
        /\ batch \in Seq(Decisions) /\ Len(batch) <= BatchSize
    BY SinkAssumption DEF Init
  <2> QED
    BY <2>1 DEF Init, TypeOK
<1>4. ControlInv
  <2>1. Len(batch) < BatchSize
    BY SinkAssumption DEF Init
  <2> QED
    BY <2>1 DEF Init, ControlInv
<1>5. PlaceInv /\ LedgerExplained
  BY <1>1, <1>2 DEF Init, PlaceInv, LedgerExplained
<1> QED
  BY <1>3, <1>4, <1>5 DEF SinkInv

\* The invariant holds in every reachable state.
LEMMA SinkInductive == Spec => []SinkInv
<1>1. ASSUME SinkInv, [Next]_vars PROVE SinkInv'
  BY <1>1, CheckStep, SendStep, ReceiveStep, TurnStep, WriteEnds, TimeoutStep DEF Next, WriteStep
<1> QED
  BY <1>1, SinkInit, PTL DEF Spec

\* A set with one value in it.
LEMMA OnlyOne ==
  ASSUME NEW S, NEW x, \A i : i \in S <=> i = x
  PROVE  Cardinality(S) = 1
<1>1. S = {x}
  OBVIOUS
<1> QED
  BY <1>1, FS_Singleton

\* The places that hold a decision, by number.
LEMMA HoldingPlaces ==
  ASSUME NEW a \in BOOLEAN, NEW b \in BOOLEAN, NEW c \in BOOLEAN, NEW d \in BOOLEAN,
         NEW I, I = {i \in DOMAIN <<a, b, c, d>> : <<a, b, c, d>>[i]}
  PROVE  \A i : i \in I <=> (i = 1 /\ a) \/ (i = 2 /\ b) \/ (i = 3 /\ c) \/ (i = 4 /\ d)
<1>1. ASSUME NEW i PROVE i \in I <=> (i = 1 /\ a) \/ (i = 2 /\ b) \/ (i = 3 /\ c) \/ (i = 4 /\ d)
  OBVIOUS
<1> QED
  BY <1>1

\* How many of four places a decision is in, when it is in none or in one.
LEMMA OnePlace ==
  ASSUME NEW a \in BOOLEAN, NEW b \in BOOLEAN, NEW c \in BOOLEAN, NEW d \in BOOLEAN, NEW I,
         \A i : i \in I <=> (i = 1 /\ a) \/ (i = 2 /\ b) \/ (i = 3 /\ c) \/ (i = 4 /\ d)
  PROVE  /\ ~a /\ ~b /\ ~c /\ ~d => Cardinality(I) = 0
         /\ /\ a \/ b \/ c \/ d
            /\ a => ~b /\ ~c /\ ~d
            /\ b => ~c /\ ~d
            /\ c => ~d
            => Cardinality(I) = 1
<1>2. ASSUME ~a, ~b, ~c, ~d PROVE Cardinality(I) = 0
  <2>1. I = {}
    BY <1>2
  <2> QED
    BY <2>1, FS_EmptySet
<1>3. ASSUME a \/ b \/ c \/ d, a => ~b /\ ~c /\ ~d, b => ~c /\ ~d, c => ~d
      PROVE  Cardinality(I) = 1
  <2>1. CASE a
    <3>1. ASSUME NEW i PROVE i \in I <=> i = 1
      BY <1>3, <2>1, Zenon
    <3> QED
      BY <3>1, OnlyOne, Zenon
  <2>2. CASE b
    <3>1. ASSUME NEW i PROVE i \in I <=> i = 2
      BY <1>3, <2>2, Zenon
    <3> QED
      BY <3>1, OnlyOne, Zenon
  <2>3. CASE c
    <3>1. ASSUME NEW i PROVE i \in I <=> i = 3
      BY <1>3, <2>3, Zenon
    <3> QED
      BY <3>1, OnlyOne, Zenon
  <2>4. CASE d
    <3>1. ASSUME NEW i PROVE i \in I <=> i = 4
      BY <1>3, <2>4, Zenon
    <3> QED
      BY <3>1, OnlyOne, Zenon
  <2> QED
    BY <1>3, <2>1, <2>2, <2>3, <2>4
<1> QED
  BY <1>2, <1>3

\* The sink is well typed, and its channel and its batch never exceed their
\* capacities.
THEOREM SinkTyped == Spec => []TypeOK
<1>1. SinkInv => TypeOK
  BY DEF SinkInv
<1> QED
  BY <1>1, SinkInductive, PTL

\* Every decision Record took is in exactly one place and in the ledger at most
\* once, whatever fails and whenever Flush gives up.
THEOREM NoDecisionVanishes == Spec => []Conserved
<1>1. SinkInv => Conserved
  <2> SUFFICES ASSUME SinkInv, NEW d \in Decisions
               PROVE  /\ ledger[d] <= 1
                      /\ LET places == <<d \in Waiting, d \in Written \cup failed, d \in dropped, d \in lost>>
                         IN  Cardinality({i \in DOMAIN places : places[i]}) =
                               IF phase[d] = "returned" THEN 1 ELSE 0
    BY DEF Conserved
  <2> DEFINE A == d \in Waiting   B == d \in Written \cup failed
             C == d \in dropped   D == d \in lost
             I == {i \in DOMAIN <<A, B, C, D>> : <<A, B, C, D>>[i]}
  <2>1. /\ ledger[d] <= 1
        /\ phase[d] = "returned" <=> A \/ B \/ C \/ D
        /\ A => ~B /\ ~C /\ ~D
        /\ B => ~C /\ ~D
        /\ C => ~D
    BY DEF SinkInv, PlaceInv
  <2>2. A \in BOOLEAN /\ B \in BOOLEAN /\ C \in BOOLEAN /\ D \in BOOLEAN
    OBVIOUS
  <2>3. Cardinality(I) = IF phase[d] = "returned" THEN 1 ELSE 0
    <3> HIDE DEF A, B, C, D
    <3>1. /\ ~A /\ ~B /\ ~C /\ ~D => Cardinality(I) = 0
          /\ /\ A \/ B \/ C \/ D
             /\ A => ~B /\ ~C /\ ~D
             /\ B => ~C /\ ~D
             /\ C => ~D
             => Cardinality(I) = 1
      BY <2>2, HoldingPlaces, OnePlace
    <3> HIDE DEF I
    <3> QED
      BY <2>1, <2>2, <3>1
  <2> QED
    BY <2>1, <2>3
<1> QED
  BY <1>1, SinkInductive, PTL

\* The ledger and the audit log agree at every instant, so a crash leaves no
\* spend without its explanation.
THEOREM SpendAlwaysExplained == Spec => []LedgerExplained
<1>1. SinkInv => LedgerExplained
  BY DEF SinkInv
<1> QED
  BY <1>1, SinkInductive, PTL

\* When Flush returns nothing waits, and every decision a Record took was
\* written, failed or dropped.
THEOREM FlushIsComplete == Spec => []FlushDrains
<1>1. SinkInv => FlushDrains
  <2> SUFFICES ASSUME SinkInv, flush = "returned" PROVE FlushDrains
    BY DEF FlushDrains
  <2>1. ch = <<>> /\ batch = <<>> /\ lost = {}
    BY DEF SinkInv, ControlInv
  <2>2. Waiting = {}
    BY <2>1, EmptySeqSet DEF Waiting
  <2> QED
    BY <2>1, <2>2 DEF FlushDrains, SinkInv, PlaceInv
<1> QED
  BY <1>1, SinkInductive, PTL

(***************************************************************************)
(* The readers, beside the sink.  Sums over groups are sizes of disjoint   *)
(* unions.                                                                 *)
(***************************************************************************)

\* A group's cost is a natural number, and there are finitely many units of it.
LEMMA CostType ==
  ASSUME NEW ds \in SUBSET Decisions
  PROVE  /\ IsFiniteSet(ds) /\ Cardinality(ds) \in Nat
         /\ [d \in ds |-> Row[d].cost] \in [ds -> Nat]
         /\ Cost(ds) \in Nat
         /\ IsFiniteSet(Units(ds, [d \in ds |-> Row[d].cost]))
<1>1. IsFiniteSet(ds) /\ Cardinality(ds) \in Nat
  BY SinkAssumption, FS_Subset, FS_CardinalityType
<1>2. [d \in ds |-> Row[d].cost] \in [ds -> Nat]
  BY ObservabilityAssumption
<1> QED BY <1>1, <1>2, TotalType, UnitsFinite DEF Cost

\* The costs of disjoint groups sum to the cost of their union.
LEMMA CostOfGroups ==
  ASSUME NEW K, IsFiniteSet(K), NEW X, \A k \in K : X[k] \in SUBSET Decisions,
         \A j, k \in K : j # k => X[j] \cap X[k] = {}
  PROVE  Total(K, [k \in K |-> Cost(X[k])]) = Cost(UNION {X[k] : k \in K})
<1> DEFINE c(ds) == [d \in ds |-> Row[d].cost]
           Y == [k \in K |-> Units(X[k], c(X[k]))]
           U == UNION {X[k] : k \in K}
<1>1. U \in SUBSET Decisions
  OBVIOUS
<1>2. \A ds \in SUBSET Decisions : \A u : u \in Units(ds, c(ds)) <=> \E d \in ds : \E i \in 1..Row[d].cost : u = <<d, i>>
  <2> SUFFICES ASSUME NEW ds \in SUBSET Decisions, NEW u
               PROVE  u \in Units(ds, c(ds)) <=> \E d \in ds : \E i \in 1..Row[d].cost : u = <<d, i>>
    OBVIOUS
  <2>1. c(ds) \in [ds -> Nat] /\ \A d \in ds : c(ds)[d] = Row[d].cost
    BY CostType
  <2> HIDE DEF c
  <2>2. u \in Units(ds, c(ds)) <=> \E d \in ds : \E i \in 1..c(ds)[d] : u = <<d, i>>
    BY <2>1, UnitsMember
  <2> QED BY <2>1, <2>2
<1>3. \A k \in K : IsFiniteSet(Y[k]) /\ Y[k] = Units(X[k], c(X[k])) /\ Cost(X[k]) = Cardinality(Y[k])
  BY CostType DEF Cost, Total
<1>4. Cost(U) = Cardinality(Units(U, c(U)))
  BY DEF Cost, Total
<1> HIDE DEF c, Y, U
<1>5. \A j, k \in K : j # k => Y[j] \cap Y[k] = {}
  <2> SUFFICES ASSUME NEW j \in K, NEW k \in K, j # k, NEW u, u \in Y[j], u \in Y[k] PROVE FALSE
    OBVIOUS
  <2>1. PICK d \in X[j] : \E i \in 1..Row[d].cost : u = <<d, i>>
    BY <1>2, <1>3
  <2>2. PICK e \in X[k] : \E i \in 1..Row[e].cost : u = <<e, i>>
    BY <1>2, <1>3
  <2>3. d = e
    BY <2>1, <2>2
  <2> QED BY <2>1, <2>2, <2>3
<1>6. UNION {Y[k] : k \in K} = Units(U, c(U))
  <2>1. ASSUME NEW u \in UNION {Y[k] : k \in K} PROVE u \in Units(U, c(U))
    <3>1. PICK k \in K : u \in Y[k]
      BY <2>1
    <3>2. PICK d \in X[k] : \E i \in 1..Row[d].cost : u = <<d, i>>
      BY <1>2, <1>3, <3>1
    <3>3. d \in U
      BY <3>2 DEF U
    <3> QED BY <1>1, <1>2, <3>2, <3>3
  <2>2. ASSUME NEW u \in Units(U, c(U)) PROVE u \in UNION {Y[k] : k \in K}
    <3>1. PICK d \in U : \E i \in 1..Row[d].cost : u = <<d, i>>
      BY <1>1, <1>2, <2>2
    <3>2. PICK k \in K : d \in X[k]
      BY DEF U
    <3>3. u \in Y[k]
      BY <1>2, <1>3, <3>1, <3>2
    <3> QED BY <3>3
  <2> QED BY <2>1, <2>2
<1>7. Total(K, [k \in K |-> Cardinality(Y[k])]) = Cardinality(UNION {Y[k] : k \in K})
  BY <1>3, <1>5, SizeOfGroups
<1>8. [k \in K |-> Cardinality(Y[k])] = [k \in K |-> Cost(X[k])]
  BY <1>3
<1> QED BY <1>4, <1>6, <1>7, <1>8 DEF U

(***************************************************************************)
(* The readers.                                                            *)
(***************************************************************************)

\* The groups some rows fall in.
Groups(ds) == {Row[d].key : d \in ds}

\* What the first aggregate read: whole groups of its snapshot, the dearest of them.
ReportInv ==
  reader.op = "report" =>
    /\ reader.snapshot \in SUBSET Decisions
    /\ DOMAIN reader.rows \subseteq Groups(reader.snapshot)
    /\ \A k \in DOMAIN reader.rows : reader.rows[k] = Group(reader.snapshot, k)
    /\ reader.totalGroups = Cardinality(Groups(reader.snapshot))
    /\ \A k \in DOMAIN reader.rows, j \in Groups(reader.snapshot) \ DOMAIN reader.rows :
         ~Dearer(Group(reader.snapshot, j), Group(reader.snapshot, k))

\* The rows seen are those before the cursor, which stands at the last of them; what was
\* there at the start of the walk and is not seen yet is still to come.
WalkInv ==
  reader.op \in {"walk", "walked"} =>
    /\ reader.seen \in Seq(Decisions)
    /\ \A i, j \in 1..Len(reader.seen) : i < j => Newer(Position(reader.seen[i]), Position(reader.seen[j]))
    /\ ~reader.empty
    /\ reader.op = "walked" => reader.held \subseteq ToSet(reader.seen)
    /\ reader.op = "walk" =>
         /\ reader.seen # <<>>
         /\ reader.cursor = encodeCursor(Position(Last(reader.seen)))
         /\ reader.held \subseteq AuditRows
         /\ \A d \in reader.held : d \in ToSet(reader.seen) \/ Past(d, reader.cursor)
         /\ \E d \in AuditRows : Past(d, reader.cursor)

\* The inductive invariant of the readers, beside SinkInv.
ReaderInv ==
  /\ reader.op = "explain" => reader.id \in Written
  /\ ReportInv
  /\ WalkInv
  /\ ReadsConsistent

\* A report compares and counts what its snapshot holds: ReadsConsistent, of the parts.
ReportOK(snapshot, rows, comparisons, total, truncated) ==
  LET shown == UNION {rows[k] : k \in DOMAIN rows}
      cut   == snapshot \ shown
  IN  /\ \A k \in DOMAIN rows : comparisons[k] = {d \in rows[k] : Row[d].compared}
      /\ total = [requests |-> Cardinality(shown), cost |-> Cost(shown),
                  compared |-> Cardinality({d \in shown : Row[d].compared})]
      /\ truncated = Cardinality(Groups(cut))
      /\ \A d \in cut, k \in DOMAIN rows : Cost(Group(cut, Row[d].key)) <= Cost(rows[k])

\* ReadsConsistent now and after a step, by the parts of the reader.
LEMMA ReadsAre ==
  /\ ReadsConsistent <=>
       /\ reader.op = "explained" => reader.ladder
       /\ reader.op = "reported" =>
            ReportOK(reader.snapshot, reader.rows, reader.comparisons, reader.total, reader.truncatedGroups)
  /\ ReadsConsistent' <=>
       /\ reader'.op = "explained" => reader'.ladder
       /\ reader'.op = "reported" =>
            ReportOK(reader'.snapshot, reader'.rows, reader'.comparisons, reader'.total, reader'.truncatedGroups)
BY DEF ReadsConsistent, ReportOK, Groups

\* Being newer is a strict total order of the rows.
LEMMA NewerOrder ==
  ASSUME NEW a \in Decisions, NEW b \in Decisions
  PROVE  /\ Newer(Position(a), Position(b)) => ~Newer(Position(b), Position(a))
         /\ ~Newer(Position(a), Position(a))
         /\ \A c \in Decisions : Newer(Position(a), Position(b)) /\ Newer(Position(b), Position(c)) => Newer(Position(a), Position(c))
BY ObservabilityAssumption DEF Newer, Position

\* The cursor of a row is past by the rows the row is newer than.
LEMMA CursorPasses ==
  ASSUME NEW d \in Decisions, NEW e \in Decisions
  PROVE  Past(d, encodeCursor(Position(e))) <=> Newer(Position(e), Position(d))
<1>1. encodeCursor(Position(e)) # <<>>
  BY DEF encodeCursor
<1>2. decodeCursor(encodeCursor(Position(e))) = Position(e)
  BY DEF decodeCursor, encodeCursor, Position
<1> QED BY <1>1, <1>2 DEF Past

\* A step of the sink takes no row out of either table.
LEMMA RowsStay ==
  ASSUME SinkInv, [Next]_vars
  PROVE  Written \subseteq Written' /\ AuditRows \subseteq AuditRows'
<1>1. TypeOK /\ IsInjective(batch) /\ LedgerExplained
  BY DEF SinkInv, PlaceInv
<1>2. UNCHANGED <<ledger, audit>> \/ CommitRows
  BY DEF Next, vars, WriteStep, RecordCheck, RecordSend, Receive, ReceiveClosed, Tick, CopyLedger, StageLedger, CopyAudit,
         CommitBatch, WriteFails, FlushStore, FlushClose, FlushReturns, FlushTimesOut
<1>3. \A d \in Decisions : (ledger[d] > 0 => ledger'[d] > 0) /\ (audit[d] > 0 => audit'[d] > 0)
  <2>1. CASE UNCHANGED <<ledger, audit>>
    BY <2>1
  <2>2. CASE CommitRows
    <3>1. \A d \in Decisions : ledger[d] \in Nat /\ audit[d] = ledger[d]
      BY <1>1 DEF TypeOK, LedgerExplained
    <3> QED BY <1>1, <2>2, <3>1, CommitEffect
  <2> QED BY <1>2, <2>1, <2>2
<1> QED BY <1>3 DEF Written, AuditRows

\* A sequence and one after it.
LEMMA Concatenated ==
  ASSUME NEW S, NEW s \in Seq(S), NEW t \in Seq(S)
  PROVE  /\ s \o t \in Seq(S) /\ Len(s \o t) = Len(s) + Len(t)
         /\ \A i \in 1..Len(s \o t) : (s \o t)[i] = IF i <= Len(s) THEN s[i] ELSE t[i - Len(s)]
         /\ ToSet(s \o t) = ToSet(s) \cup ToSet(t)
<1>1. s \o t \in Seq(S) /\ Len(s \o t) = Len(s) + Len(t)
  OBVIOUS
<1>2. \A i \in 1..Len(s \o t) : (s \o t)[i] = IF i <= Len(s) THEN s[i] ELSE t[i - Len(s)]
  OBVIOUS
<1>3. \A i \in 1..Len(s) : (s \o t)[i] = s[i]
  BY <1>1, <1>2
<1>4. \A i \in 1..Len(t) : (s \o t)[Len(s) + i] = t[i] /\ Len(s) + i \in 1..Len(s \o t)
  <2> TAKE i \in 1..Len(t)
  <2>1. Len(s) \in Nat /\ Len(t) \in Nat
    OBVIOUS
  <2>2. Len(s) + i \in 1..Len(s \o t) /\ ~(Len(s) + i <= Len(s)) /\ Len(s) + i - Len(s) = i
    BY <1>1, <2>1
  <2> QED BY <1>2, <2>2
<1>5. \A q \in Seq(S) : ToSet(q) = {q[i] : i \in 1..Len(q)}
  BY DEF ToSet
<1>6. \A i \in 1..Len(s \o t) : i \in 1..Len(s) \/ i - Len(s) \in 1..Len(t)
  BY <1>1
<1>7. ASSUME NEW x \in ToSet(s \o t) PROVE x \in ToSet(s) \cup ToSet(t)
  <2>1. PICK i \in 1..Len(s \o t) : x = (s \o t)[i]
    BY <1>1, <1>5, <1>7
  <2>2. CASE i <= Len(s)
    BY <1>2, <1>5, <1>6, <2>1, <2>2
  <2>3. CASE ~(i <= Len(s))
    BY <1>2, <1>5, <1>6, <2>1, <2>3
  <2> QED BY <2>2, <2>3
<1>8. ASSUME NEW x \in ToSet(s) PROVE x \in ToSet(s \o t)
  <2>1. PICK i \in 1..Len(s) : x = s[i]
    BY <1>5, <1>8
  <2>2. i \in 1..Len(s \o t)
    BY <1>1
  <2> QED BY <1>1, <1>3, <1>5, <2>1, <2>2
<1>9. ASSUME NEW x \in ToSet(t) PROVE x \in ToSet(s \o t)
  <2>1. PICK i \in 1..Len(t) : x = t[i]
    BY <1>5, <1>9
  <2> QED BY <1>1, <1>4, <1>5, <2>1
<1> QED BY <1>1, <1>2, <1>7, <1>8, <1>9

\* A page: in order, without repetition, and the first rows of those asked for.
LEMMA PageFacts ==
  ASSUME NEW rest \in SUBSET Decisions, NEW n \in Nat, NEW page \in [1..n -> rest], FirstRows(rest, page)
  PROVE  /\ page \in Seq(Decisions) /\ Len(page) = n /\ ToSet(page) \subseteq rest
         /\ IsFiniteSet(rest) /\ Cardinality(rest) \in Nat
         /\ \A i, j \in 1..n : i < j => Newer(Position(page[i]), Position(page[j]))
         /\ \A d \in rest \ ToSet(page), i \in 1..n : Newer(Position(page[i]), Position(d))
         /\ n = Cardinality(rest) => ToSet(page) = rest
         /\ n < Cardinality(rest) => rest \ ToSet(page) # {}
<1>1. page \in Seq(Decisions) /\ Len(page) = n /\ DOMAIN page = 1..n
  OBVIOUS
<1>2. ToSet(page) = {page[i] : i \in 1..n} /\ ToSet(page) \subseteq rest
  BY <1>1 DEF ToSet
<1>3. IsFiniteSet(rest) /\ Cardinality(rest) \in Nat
  BY CostType
<1>4. /\ \A i, j \in 1..n : i < j => Newer(Position(page[i]), Position(page[j]))
      /\ \A d \in rest \ ToSet(page), i \in 1..n : Newer(Position(page[i]), Position(d))
  BY <1>1 DEF FirstRows
<1>5. IsFiniteSet(1..n) /\ Cardinality(1..n) = n
  <2>1. /\ IsFiniteSet(1..n)
        /\ Cardinality(1..n) = IF 1 > n THEN 0 ELSE n - 1 + 1
    BY FS_Interval
  <2> QED BY <2>1
<1>6. \A i, j \in 1..n : page[i] = page[j] => i = j
  <2> SUFFICES ASSUME NEW i \in 1..n, NEW j \in 1..n, page[i] = page[j], i < j PROVE FALSE
    OBVIOUS
  <2>1. Newer(Position(page[i]), Position(page[j])) /\ page[i] \in Decisions
    BY <1>4
  <2> QED BY <2>1, NewerOrder
<1>7. page \in Injection(1..n, rest)
  BY <1>1, <1>6 DEF Injection, IsInjective
<1>8. n = Cardinality(rest) => ToSet(page) = rest
  <2> SUFFICES ASSUME n = Cardinality(rest) PROVE rest \subseteq ToSet(page)
    BY <1>2
  <2>1. page \in Surjection(1..n, rest)
    BY <1>3, <1>5, <1>7, FS_Injection
  <2> QED BY <1>2, <2>1 DEF Surjection
<1>9. n < Cardinality(rest) => rest \ ToSet(page) # {}
  <2> SUFFICES ASSUME n < Cardinality(rest), rest \subseteq ToSet(page) PROVE FALSE
    OBVIOUS
  <2>1. page \in Surjection(1..n, rest)
    BY <1>1, <1>2 DEF Surjection
  <2>2. Cardinality(rest) <= Cardinality(1..n)
    BY <1>5, <2>1, FS_Surjection
  <2> QED BY <1>3, <1>5, <2>2
<1> QED BY <1>1, <1>2, <1>3, <1>4, <1>8, <1>9

\* The next page of a walk: what was seen, the page after it, and the cursor at its end.
LEMMA PageAppended ==
  ASSUME NEW held, NEW seen \in Seq(Decisions), NEW rest \in SUBSET Decisions, NEW n \in Nat,
         NEW page \in [1..n -> rest], FirstRows(rest, page),
         \A i, j \in 1..Len(seen) : i < j => Newer(Position(seen[i]), Position(seen[j])),
         \A d \in rest, i \in 1..Len(seen) : Newer(Position(seen[i]), Position(d)),
         \A d \in held : d \in ToSet(seen) \/ d \in rest
  PROVE  /\ seen \o page \in Seq(Decisions)
         /\ \A i, j \in 1..Len(seen \o page) : i < j => Newer(Position((seen \o page)[i]), Position((seen \o page)[j]))
         /\ n = Cardinality(rest) => held \subseteq ToSet(seen \o page)
         /\ 0 < n => seen \o page # <<>> /\ Last(seen \o page) = page[n] /\ Last(page) = page[n] /\ page # <<>> /\ page[n] \in Decisions
         /\ 0 < n => \A d \in held : d \in ToSet(seen \o page) \/ Newer(Position(page[n]), Position(d))
         /\ 0 < n /\ n < Cardinality(rest) => \E d \in rest : Newer(Position(page[n]), Position(d))
<1> DEFINE all == seen \o page
<1>1. /\ page \in Seq(Decisions) /\ Len(page) = n /\ ToSet(page) \subseteq rest
      /\ \A i, j \in 1..n : i < j => Newer(Position(page[i]), Position(page[j]))
      /\ \A d \in rest \ ToSet(page), i \in 1..n : Newer(Position(page[i]), Position(d))
      /\ n = Cardinality(rest) => ToSet(page) = rest
      /\ n < Cardinality(rest) => rest \ ToSet(page) # {}
  BY PageFacts
<1>2. /\ all \in Seq(Decisions) /\ Len(all) = Len(seen) + n
      /\ \A i \in 1..Len(all) : all[i] = IF i <= Len(seen) THEN seen[i] ELSE page[i - Len(seen)]
      /\ ToSet(all) = ToSet(seen) \cup ToSet(page)
  <2>1. page \in Seq(Decisions) /\ Len(page) = n
    BY <1>1
  <2> QED BY <2>1, Concatenated
<1>3. Len(seen) \in Nat
  OBVIOUS
<1> HIDE DEF all
<1>4. ASSUME NEW i \in 1..Len(all), NEW j \in 1..Len(all), i < j
      PROVE  Newer(Position(all[i]), Position(all[j]))
  <2>1. CASE j <= Len(seen)
    BY <1>2, <1>3, <1>4, <2>1
  <2>2. CASE i > Len(seen)
    <3>1. all[i] = page[i - Len(seen)] /\ all[j] = page[j - Len(seen)]
      BY <1>2, <1>3, <1>4, <2>2
    <3>2. i - Len(seen) \in 1..n /\ j - Len(seen) \in 1..n /\ i - Len(seen) < j - Len(seen)
      BY <1>2, <1>3, <1>4, <2>2
    <3> QED BY <1>1, <3>1, <3>2
  <2>3. CASE i <= Len(seen) /\ j > Len(seen)
    <3>1. all[i] = seen[i] /\ all[j] = page[j - Len(seen)] /\ i \in 1..Len(seen)
      BY <1>2, <1>3, <1>4, <2>3
    <3>2. j - Len(seen) \in 1..n
      BY <1>2, <1>3, <1>4, <2>3
    <3> QED BY <3>1, <3>2
  <2> QED BY <1>2, <1>3, <2>1, <2>2, <2>3
<1>5. n = Cardinality(rest) => held \subseteq ToSet(all)
  BY <1>1, <1>2
<1>6. ASSUME 0 < n
      PROVE  all # <<>> /\ Last(all) = page[n] /\ Last(page) = page[n] /\ page # <<>> /\ page[n] \in Decisions
  <2>1. Len(all) \in 1..Len(all) /\ ~(Len(all) <= Len(seen)) /\ Len(all) - Len(seen) = n
    BY <1>2, <1>3, <1>6
  <2>2. all[Len(all)] = page[n]
    BY <1>2, <2>1
  <2>3. page[n] \in rest
    BY <1>6
  <2> QED BY <1>1, <1>2, <1>3, <1>6, <2>1, <2>2, <2>3 DEF Last
<1>7. ASSUME 0 < n, NEW d \in held PROVE d \in ToSet(all) \/ Newer(Position(page[n]), Position(d))
  <2>1. n \in 1..n
    BY <1>7
  <2> QED BY <1>1, <1>2, <1>7, <2>1
<1>8. ASSUME 0 < n, n < Cardinality(rest) PROVE \E d \in rest : Newer(Position(page[n]), Position(d))
  <2>1. n \in 1..n
    BY <1>8
  <2>2. PICK d \in rest \ ToSet(page) : TRUE
    BY <1>1, <1>8
  <2> QED BY <1>1, <2>1, <2>2
<1> QED BY <1>2, <1>4, <1>5, <1>6, <1>7, <1>8 DEF all

\* A step of the sink keeps what the reader has: rows only come.
LEMMA SinkStepKeeps ==
  ASSUME SinkInv, ReaderInv, [Next]_vars, UNCHANGED reader
  PROVE  ReaderInv'
<1>1. Written \subseteq Written' /\ AuditRows \subseteq AuditRows'
  BY RowsStay
<1>2. (reader.op = "explain" => reader.id \in Written)'
  BY <1>1 DEF ReaderInv
<1>3. ReportInv'
  BY DEF ReaderInv, ReportInv
<1>4. WalkInv'
  BY <1>1 DEF ReaderInv, WalkInv, Newer, Position, encodeCursor, decodeCursor, Past, Last, ToSet
<1>5. ReadsConsistent'
  BY ReadsAre DEF ReaderInv
<1> QED BY <1>2, <1>3, <1>4, <1>5 DEF ReaderInv

\* Get reads a decision that is written, and then finds its audit row.
LEMMA GetKeeps ==
  ASSUME SinkInv, ReaderInv, (\E d \in Decisions : Get(d)) \/ hydrateLadder
  PROVE  ReaderInv'
<1>1. CASE \E d \in Decisions : Get(d)
  <2>a. PICK d \in Decisions : Get(d)
    BY <1>1
  <2>1. (reader'.op = "explain" /\ reader'.id = d /\ d \in Written') \/ reader'.op = "notfound"
    BY <2>a DEF Get, Written, vars
  <2> QED BY <2>1 DEF ReaderInv, ReportInv, WalkInv, ReadsConsistent
<1>2. CASE hydrateLadder
  <2>1. reader.id \in Written /\ reader.id \in Decisions /\ audit[reader.id] > 0
    BY <1>2 DEF hydrateLadder, ReaderInv, SinkInv, LedgerExplained, Written
  <2>2. reader'.op = "explained" /\ reader'.ladder
    BY <1>2, <2>1 DEF hydrateLadder
  <2> QED BY <2>2 DEF ReaderInv, ReportInv, WalkInv, ReadsConsistent
<1> QED BY <1>1, <1>2

\* The first aggregate reads whole groups, the dearest ones.
LEMMA AggregateKeeps ==
  ASSUME SinkInv, ReaderInv, AggregateUsage
  PROVE  ReaderInv'
<1>1. PICK shown \in SUBSET Groups(LedgerRows) :
        /\ \A k \in shown, j \in Groups(LedgerRows) \ shown : ~Dearer(Group(LedgerRows, j), Group(LedgerRows, k))
        /\ reader' = [op |-> "report", snapshot |-> LedgerRows, totalGroups |-> Cardinality(Groups(LedgerRows)),
                      rows |-> [k \in shown |-> Group(LedgerRows, k)]]
  BY DEF AggregateUsage, Groups
<1>2. LedgerRows \in SUBSET Decisions
  BY DEF LedgerRows, Written
<1>3. /\ reader'.op = "report" /\ reader'.snapshot = LedgerRows /\ reader'.totalGroups = Cardinality(Groups(LedgerRows))
      /\ DOMAIN reader'.rows = shown /\ \A k \in shown : reader'.rows[k] = Group(LedgerRows, k)
  BY <1>1
<1> DEFINE snap == LedgerRows
<1>4. ReportInv'
  <2>1. \A k \in shown, j \in Groups(snap) \ shown : ~Dearer(Group(snap, j), Group(snap, k))
    BY <1>1
  <2>2. snap = LedgerRows
    OBVIOUS
  <2> HIDE DEF snap
  <2> QED BY <1>2, <1>3, <2>1, <2>2 DEF ReportInv
<1> QED BY <1>3, <1>4 DEF ReaderInv, WalkInv, ReadsConsistent

\* Finitely many rows fall in finitely many groups.
LEMMA GroupsFinite ==
  ASSUME NEW ds \in SUBSET Decisions
  PROVE  IsFiniteSet(Groups(ds)) /\ Cardinality(Groups(ds)) \in Nat
<1> DEFINE g == [d \in ds |-> Row[d].key]
<1>1. g \in Surjection(ds, Groups(ds))
  BY DEF Surjection, Groups
<1>2. IsFiniteSet(ds)
  BY CostType
<1> QED BY <1>1, <1>2, FS_Surjection, FS_CardinalityType

\* Whole groups of a snapshot, the dearest of them, add up to what the report says.
LEMMA ReportAdds ==
  ASSUME NEW snap \in SUBSET Decisions, NEW rows, DOMAIN rows \subseteq Groups(snap),
         \A k \in DOMAIN rows : rows[k] = Group(snap, k),
         NEW comparisons, \A k \in DOMAIN rows : comparisons[k] = {d \in Group(snap, k) : Row[d].compared},
         \A k \in DOMAIN rows, j \in Groups(snap) \ DOMAIN rows : ~Dearer(Group(snap, j), Group(snap, k))
  PROVE  ReportOK(snap, rows, comparisons, totalise(rows, comparisons), Cardinality(Groups(snap)) - Cardinality(DOMAIN rows))
<1> DEFINE K == DOMAIN rows
           shown == UNION {rows[k] : k \in K}
           cut == snap \ shown
           compared == {d \in shown : Row[d].compared}
<1>1. /\ IsFiniteSet(Groups(snap)) /\ Cardinality(Groups(snap)) \in Nat
      /\ IsFiniteSet(K) /\ Cardinality(K) \in Nat
  BY GroupsFinite, FS_Subset, FS_CardinalityType
<1>2. /\ \A k \in K : rows[k] \in SUBSET Decisions /\ rows[k] \in SUBSET snap /\ IsFiniteSet(rows[k])
      /\ \A k \in K : comparisons[k] \in SUBSET Decisions /\ IsFiniteSet(comparisons[k])
  <2>1. \A k \in K : rows[k] \in SUBSET Decisions /\ rows[k] \in SUBSET snap /\ comparisons[k] \in SUBSET Decisions
    BY DEF Group
  <2> QED BY <2>1, CostType
<1>3. /\ \A j, k \in K : j # k => rows[j] \cap rows[k] = {}
      /\ \A j, k \in K : j # k => comparisons[j] \cap comparisons[k] = {}
  BY DEF Group
<1>4. \A d \in snap : d \in shown <=> Row[d].key \in K
  <2> TAKE d \in snap
  <2>1. ASSUME d \in shown PROVE Row[d].key \in K
    <3>1. PICK k \in K : d \in rows[k]
      BY <2>1
    <3> QED BY <3>1 DEF Group
  <2>2. ASSUME Row[d].key \in K PROVE d \in shown
    <3>1. d \in rows[Row[d].key]
      BY <2>2 DEF Group
    <3> QED BY <2>2, <3>1
  <2> QED BY <2>1, <2>2
<1>5. UNION {comparisons[k] : k \in K} = compared
  <2>1. \A k \in K : comparisons[k] = {d \in rows[k] : Row[d].compared}
    OBVIOUS
  <2> QED BY <2>1
<1>6. /\ Total(K, [k \in K |-> Cardinality(rows[k])]) = Cardinality(shown)
      /\ Total(K, [k \in K |-> Cardinality(comparisons[k])]) = Cardinality(compared)
  <2>1. Total(K, [k \in K |-> Cardinality(comparisons[k])]) = Cardinality(UNION {comparisons[k] : k \in K})
    BY <1>1, <1>2, <1>3, SizeOfGroups
  <2>2. Total(K, [k \in K |-> Cardinality(rows[k])]) = Cardinality(UNION {rows[k] : k \in K})
    BY <1>1, <1>2, <1>3, SizeOfGroups
  <2> QED BY <1>5, <2>1, <2>2
<1>7. Total(K, [k \in K |-> Cost(rows[k])]) = Cost(shown)
  BY <1>1, <1>2, <1>3, CostOfGroups
<1>8. totalise(rows, comparisons) = [requests |-> Cardinality(shown), cost |-> Cost(shown), compared |-> Cardinality(compared)]
  BY <1>6, <1>7 DEF totalise
<1>9. Groups(cut) = Groups(snap) \ K
  BY <1>4 DEF Groups
<1>10. Cardinality(Groups(cut)) = Cardinality(Groups(snap)) - Cardinality(K)
  <2>1. Cardinality(Groups(snap) \ K) = Cardinality(Groups(snap)) - Cardinality(Groups(snap) \cap K)
    BY <1>1, FS_Difference
  <2>2. Groups(snap) \cap K = K
    OBVIOUS
  <2> QED BY <1>9, <2>1, <2>2
<1>11. ASSUME NEW d \in cut, NEW k \in K PROVE Cost(Group(cut, Row[d].key)) <= Cost(rows[k])
  <2>1. Row[d].key \in Groups(snap) \ K
    BY <1>4 DEF Groups
  <2>2. Group(cut, Row[d].key) = Group(snap, Row[d].key)
    BY <1>4, <2>1 DEF Group
  <2>3. ~Dearer(Group(snap, Row[d].key), rows[k])
    BY <2>1
  <2>4. Group(snap, Row[d].key) \in SUBSET Decisions
    BY DEF Group
  <2>5. Cost(Group(snap, Row[d].key)) \in Nat /\ Cost(rows[k]) \in Nat
    BY <1>2, <2>4, CostType
  <2> QED BY <2>2, <2>3, <2>5 DEF Dearer
<1>12. \A k \in K : comparisons[k] = {d \in rows[k] : Row[d].compared}
  OBVIOUS
<1> HIDE DEF K, shown, cut, compared
<1> QED BY <1>8, <1>10, <1>11, <1>12 DEF ReportOK, K, shown, cut, compared

\* The second aggregate reads the snapshot of the first, and the report adds up.
LEMMA AttachKeeps ==
  ASSUME SinkInv, ReaderInv, attachComparisons
  PROVE  ReaderInv'
<1> DEFINE snap == reader.snapshot
           rows == reader.rows
           comparisons == [k \in DOMAIN rows |-> AggregateCounterfactuals(k)]
<1>1. /\ snap \in SUBSET Decisions /\ DOMAIN rows \subseteq Groups(snap)
      /\ \A k \in DOMAIN rows : rows[k] = Group(snap, k)
      /\ reader.totalGroups = Cardinality(Groups(snap))
      /\ \A k \in DOMAIN rows, j \in Groups(snap) \ DOMAIN rows : ~Dearer(Group(snap, j), Group(snap, k))
  BY DEF attachComparisons, ReaderInv, ReportInv
<1>2. \A k \in DOMAIN rows : comparisons[k] = {d \in Group(snap, k) : Row[d].compared}
  BY DEF AggregateCounterfactuals, Snapshot
<1>3. /\ reader'.op = "reported" /\ reader'.snapshot = snap /\ reader'.rows = rows /\ reader'.comparisons = comparisons
      /\ reader'.total = totalise(rows, comparisons)
      /\ reader'.truncatedGroups = Cardinality(Groups(snap)) - Cardinality(DOMAIN rows)
  BY <1>1 DEF attachComparisons
<1> HIDE DEF snap, rows, comparisons
<1>4. ReportOK(snap, rows, comparisons, totalise(rows, comparisons), Cardinality(Groups(snap)) - Cardinality(DOMAIN rows))
  BY <1>1, <1>2, ReportAdds
<1>5. ReadsConsistent'
  BY <1>3, <1>4, ReadsAre
<1> QED BY <1>3, <1>5 DEF ReaderInv, ReportInv, WalkInv

\* The next page keeps the walk in order, at its cursor, and with nothing left behind.
LEMMA ListAuditKeeps ==
  ASSUME SinkInv, ReaderInv, ListAudit
  PROVE  ReaderInv'
<1> DEFINE r == IF reader = Idle THEN [held |-> AuditRows, seen |-> <<>>, cursor |-> <<>>] ELSE reader
           held == r.held
           seen == r.seen
           cursor == r.cursor
           rest == {d \in AuditRows : Past(d, cursor)}
           more == Cardinality(rest) > PageLimit
           n == IF more THEN PageLimit ELSE Cardinality(rest)
<1>1. AuditRows \in SUBSET Decisions /\ rest \in SUBSET Decisions
  BY DEF AuditRows
<1>2. IsFiniteSet(rest) /\ Cardinality(rest) \in Nat /\ n \in Nat
  BY <1>1, CostType, ObservabilityAssumption
<1>3. PICK page \in [1..n -> rest] :
        /\ FirstRows(rest, page)
        /\ reader' = [op |-> IF more THEN "walk" ELSE "walked", held |-> held, seen |-> seen \o page,
                      empty |-> page = <<>> /\ seen # <<>>,
                      cursor |-> IF more THEN encodeCursor(Position(Last(page))) ELSE <<>>]
  BY DEF ListAudit
<1>4. AuditRows' = AuditRows
  BY DEF ListAudit, vars, AuditRows
<1>5. \/ held = AuditRows /\ seen = <<>> /\ cursor = <<>>
      \/ /\ reader.op = "walk" /\ held = reader.held /\ seen = reader.seen /\ cursor = reader.cursor
         /\ seen # <<>>
  <2>1. CASE reader = Idle
    BY <2>1
  <2>2. CASE reader # Idle
    <3>1. reader.op = "walk" /\ r = reader
      BY <2>2 DEF ListAudit
    <3> QED BY <3>1 DEF ReaderInv, WalkInv
  <2> QED BY <2>1, <2>2
<1>6. /\ seen \in Seq(Decisions)
      /\ \A i, j \in 1..Len(seen) : i < j => Newer(Position(seen[i]), Position(seen[j]))
      /\ \A d \in held : d \in ToSet(seen) \/ d \in rest
      /\ held \subseteq AuditRows
      /\ seen # <<>> => cursor = encodeCursor(Position(Last(seen))) /\ rest # {}
  <2>1. CASE held = AuditRows /\ seen = <<>> /\ cursor = <<>>
    <3> HIDE DEF held, seen, cursor
    <3>1. seen \in Seq(Decisions) /\ Len(seen) = 0
      BY <2>1
    <3>2. rest = AuditRows
      BY <2>1 DEF Past
    <3> HIDE DEF rest
    <3> QED BY <2>1, <3>1, <3>2
  <2>2. CASE reader.op = "walk" /\ held = reader.held /\ seen = reader.seen /\ cursor = reader.cursor
    <3> HIDE DEF held, seen, cursor
    <3> QED BY <2>2 DEF ReaderInv, WalkInv
  <2> QED BY <1>5, <2>1, <2>2
<1> HIDE DEF r, held, seen, cursor
<1>7. \A d \in rest, i \in 1..Len(seen) : Newer(Position(seen[i]), Position(d))
  <2> SUFFICES ASSUME NEW d \in rest, NEW i \in 1..Len(seen) PROVE Newer(Position(seen[i]), Position(d))
    OBVIOUS
  <2>1. seen # <<>> /\ Len(seen) \in 1..Len(seen) /\ seen[i] \in Decisions /\ Last(seen) = seen[Len(seen)] /\ Last(seen) \in Decisions
    BY <1>6 DEF Last
  <2>2. Newer(Position(Last(seen)), Position(d)) /\ d \in Decisions
    BY <1>1, <1>6, <2>1, CursorPasses
  <2>3. CASE i = Len(seen)
    BY <2>1, <2>2, <2>3
  <2>4. CASE i < Len(seen)
    <3>1. Newer(Position(seen[i]), Position(Last(seen)))
      BY <1>6, <2>1, <2>4
    <3> QED BY <2>1, <2>2, <3>1, NewerOrder
  <2> QED BY <1>6, <2>3, <2>4
<1> HIDE DEF rest, more, n
<1>8. /\ seen \o page \in Seq(Decisions)
      /\ \A i, j \in 1..Len(seen \o page) : i < j => Newer(Position((seen \o page)[i]), Position((seen \o page)[j]))
      /\ n = Cardinality(rest) => held \subseteq ToSet(seen \o page)
      /\ 0 < n => seen \o page # <<>> /\ Last(seen \o page) = page[n] /\ Last(page) = page[n] /\ page # <<>> /\ page[n] \in Decisions
      /\ 0 < n => \A d \in held : d \in ToSet(seen \o page) \/ Newer(Position(page[n]), Position(d))
      /\ 0 < n /\ n < Cardinality(rest) => \E d \in rest : Newer(Position(page[n]), Position(d))
  <2>1. FirstRows(rest, page) /\ page \in [1..n -> rest] /\ n \in Nat /\ rest \in SUBSET Decisions
    BY <1>1, <1>2, <1>3
  <2>2. /\ seen \in Seq(Decisions)
        /\ \A i, j \in 1..Len(seen) : i < j => Newer(Position(seen[i]), Position(seen[j]))
        /\ \A d \in rest, i \in 1..Len(seen) : Newer(Position(seen[i]), Position(d))
        /\ \A d \in held : d \in ToSet(seen) \/ d \in rest
    BY <1>6, <1>7
  <2> QED BY <2>1, <2>2, PageAppended
<1>9. /\ reader'.op = (IF more THEN "walk" ELSE "walked") /\ reader'.held = held /\ reader'.seen = seen \o page
      /\ reader'.empty = (page = <<>> /\ seen # <<>>)
      /\ reader'.cursor = IF more THEN encodeCursor(Position(Last(page))) ELSE <<>>
  BY <1>3
<1>10. ~(page = <<>> /\ seen # <<>>)
  <2>1. seen # <<>> => Cardinality(rest) > 0
    BY <1>2, <1>6, FS_EmptySet
  <2>2. seen # <<>> => n > 0
    BY <1>2, <2>1, ObservabilityAssumption DEF n
  <2> QED BY <1>8, <2>2
<1>11. CASE more
  <2>1. n = PageLimit /\ 0 < n /\ n < Cardinality(rest)
    BY <1>2, <1>11, ObservabilityAssumption DEF n, more
  <2>2. reader'.op = "walk" /\ reader'.cursor = encodeCursor(Position(page[n])) /\ Last(seen \o page) = page[n]
    BY <1>8, <1>9, <1>11, <2>1
  <2>3. \A d \in held : d \in ToSet(seen \o page) \/ Past(d, encodeCursor(Position(page[n])))
    BY <1>1, <1>6, <1>8, <2>1, CursorPasses
  <2>4. \E d \in AuditRows : Past(d, encodeCursor(Position(page[n])))
    <3>1. PICK d \in rest : Newer(Position(page[n]), Position(d))
      BY <1>8, <2>1
    <3>2. d \in AuditRows /\ d \in Decisions
      BY <1>1 DEF rest
    <3> QED BY <1>8, <2>1, <3>1, <3>2, CursorPasses
  <2>5. WalkInv'
    BY <1>4, <1>6, <1>8, <1>9, <1>10, <2>1, <2>2, <2>3, <2>4 DEF WalkInv
  <2> QED BY <2>2, <2>5, ReadsAre DEF ReaderInv, ReportInv
<1>12. CASE ~more
  <2>1. n = Cardinality(rest) /\ reader'.op = "walked"
    BY <1>9, <1>12 DEF n
  <2>2. WalkInv'
    BY <1>8, <1>9, <1>10, <2>1 DEF WalkInv
  <2> QED BY <2>1, <2>2, ReadsAre DEF ReaderInv, ReportInv
<1> QED BY <1>11, <1>12

\* The sink and its readers keep their invariants.
LEMMA ReaderInductive == ObsSpec => [](SinkInv /\ ReaderInv)
<1>1. ObsInit => SinkInv /\ ReaderInv
  BY SinkInit DEF ObsInit, Idle, ReaderInv, ReportInv, WalkInv, ReadsConsistent
<1>2. SinkInv /\ ReaderInv /\ [ObsNext]_obsVars => SinkInv' /\ ReaderInv'
  <2> SUFFICES ASSUME SinkInv, ReaderInv, [ObsNext]_obsVars PROVE SinkInv' /\ ReaderInv'
    OBVIOUS
  <2>1. [Next]_vars
    BY DEF ObsNext, obsVars, Read, Get, hydrateLadder, AggregateUsage, attachComparisons, ListAudit
  <2>2. SinkInv'
    BY <2>1, CheckStep, SendStep, ReceiveStep, TurnStep, WriteEnds, TimeoutStep DEF Next, WriteStep
  <2>3. CASE UNCHANGED reader
    BY <2>1, <2>2, <2>3, SinkStepKeeps
  <2>4. CASE Read
    BY <2>2, <2>4, GetKeeps, AggregateKeeps, AttachKeeps, ListAuditKeeps DEF Read
  <2> QED BY <2>2, <2>3, <2>4 DEF ObsNext, obsVars
<1> QED BY <1>1, <1>2, PTL DEF ObsSpec

\* Reads that run while batches commit see whole decisions: explain finds the ladder of
\* every decision it finds, and a report adds up, for any rows, limits and batches.
THEOREM ReadsAgree == ObsSpec => []ReadsConsistent
<1>1. ReaderInv => ReadsConsistent
  BY DEF ReaderInv
<1> QED BY <1>1, ReaderInductive, PTL

\* A walk through the audit log, its pages read while batches commit, is in order and
\* misses no row that was there at its start, for any rows and any page size.
THEOREM WalkComplete == ObsSpec => []PageWalk
<1>1. ReaderInv => PageWalk
  BY DEF ReaderInv, WalkInv, PageWalk
<1> QED BY <1>1, ReaderInductive, PTL
=============================================================================
