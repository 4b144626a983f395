---------------------------- MODULE FlusherProofs ----------------------------
(***************************************************************************)
(* The delta flusher, for every set of deltas and counters, every buffer   *)
(* size and every number of failed writes: nothing accepted is lost        *)
(* silently or committed too often, Close flushes, and the flusher         *)
(* implements the delta log that the quota enforcer relies on.             *)
(***************************************************************************)
EXTENDS Flusher, FiniteSetTheorems, TLAPS

\* A send puts one delta at the end of the channel.
LEMMA SendQueues ==
  ASSUME TypeOK, NEW d \in Deltas, ch' = Append(ch, d)
  PROVE  /\ ch' \in Seq(Deltas) /\ Len(ch') = Len(ch) + 1
         /\ Queued' = Queued \cup {d}
         /\ (\A i, j \in DOMAIN ch : ch[i] = ch[j] => i = j) /\ d \notin Queued =>
              (\A i, j \in DOMAIN ch : ch[i] = ch[j] => i = j)'
<1>1. ch \in Seq(Deltas)
  BY DEF TypeOK
<1>2. /\ ch' \in Seq(Deltas) /\ Len(ch') = Len(ch) + 1 /\ DOMAIN ch = 1..Len(ch)
      /\ DOMAIN ch' = 1..(Len(ch) + 1) /\ Len(ch) \in Nat
  BY <1>1
<1>3. ch'[Len(ch) + 1] = d /\ \A i \in 1..Len(ch) : ch'[i] = ch[i]
  BY <1>1
<1>4. Queued' = Queued \cup {d}
  BY <1>2, <1>3 DEF Queued
<1>5. ASSUME \A i, j \in DOMAIN ch : ch[i] = ch[j] => i = j, d \notin Queued,
             NEW i \in DOMAIN ch', NEW j \in DOMAIN ch', ch'[i] = ch'[j]
      PROVE  i = j
  BY <1>2, <1>3, <1>5 DEF Queued
<1> QED
  BY <1>2, <1>4, <1>5

\* A receive takes the delta at the head.
LEMMA ReceiveDequeues ==
  ASSUME TypeOK, ch # <<>>, ch' = Tail(ch)
  PROVE  /\ ch' \in Seq(Deltas) /\ Len(ch') = Len(ch) - 1
         /\ Head(ch) \in Deltas /\ Head(ch) \in Queued
         /\ Queued = Queued' \cup {Head(ch)}
         /\ (\A i, j \in DOMAIN ch : ch[i] = ch[j] => i = j) =>
              /\ (\A i, j \in DOMAIN ch : ch[i] = ch[j] => i = j)'
              /\ Head(ch) \notin Queued'
<1>1. ch \in Seq(Deltas)
  BY DEF TypeOK
<1>2. /\ ch' \in Seq(Deltas) /\ Len(ch') = Len(ch) - 1 /\ DOMAIN ch = 1..Len(ch)
      /\ DOMAIN ch' = 1..(Len(ch) - 1) /\ Len(ch) \in Nat \ {0}
  BY <1>1
<1>3. Head(ch) = ch[1] /\ Head(ch) \in Deltas /\ \A i \in 1..(Len(ch) - 1) : ch'[i] = ch[i + 1]
  BY <1>1
<1>4. Head(ch) \in Queued
  BY <1>2, <1>3 DEF Queued
<1>5. Queued' \subseteq Queued
  BY <1>2, <1>3 DEF Queued
<1>6. ASSUME NEW i \in DOMAIN ch, i # 1 PROVE ch[i] \in Queued'
  <2>1. i - 1 \in DOMAIN ch' /\ ch'[i - 1] = ch[i]
    BY <1>2, <1>3, <1>6
  <2> QED
    BY <2>1 DEF Queued
<1>7. Queued = Queued' \cup {Head(ch)}
  BY <1>3, <1>4, <1>5, <1>6 DEF Queued
<1>8. ASSUME \A i, j \in DOMAIN ch : ch[i] = ch[j] => i = j
      PROVE  /\ (\A i, j \in DOMAIN ch : ch[i] = ch[j] => i = j)'
             /\ Head(ch) \notin Queued'
  <2>1. ASSUME NEW i \in DOMAIN ch', NEW j \in DOMAIN ch', ch'[i] = ch'[j] PROVE i = j
    <3>1. i + 1 \in DOMAIN ch /\ j + 1 \in DOMAIN ch /\ ch[i + 1] = ch[j + 1]
      BY <1>2, <1>3, <2>1
    <3>2. i + 1 = j + 1 /\ i \in Nat /\ j \in Nat
      BY <1>2, <1>8, <3>1
    <3> QED
      BY <3>2
  <2>2. ASSUME NEW i \in DOMAIN ch' PROVE ch'[i] # Head(ch)
    <3>1. i + 1 \in DOMAIN ch /\ 1 \in DOMAIN ch /\ i + 1 # 1 /\ ch'[i] = ch[i + 1]
      BY <1>2, <1>3
    <3> QED
      BY <1>3, <1>8, <3>1
  <2> QED
    BY <2>1, <2>2 DEF Queued
<1> QED
  BY <1>2, <1>3, <1>4, <1>7, <1>8

\* What is queued and pending are deltas.
LEMMA HeldType == ASSUME TypeOK PROVE Queued \subseteq Deltas /\ Pending \subseteq Deltas
<1>1. ch \in Seq(Deltas) /\ pending \in [Keys -> SUBSET Deltas]
  BY DEF TypeOK
<1> QED
  BY <1>1 DEF Queued, Pending

\* A commit puts the pending deltas into Postgres, each once more.
LEMMA CommitLands ==
  ASSUME TypeOK, Committed
  PROVE  /\ times' \in [Deltas -> Nat]
         /\ \A d \in Deltas : times'[d] = IF d \in Pending THEN times[d] + 1 ELSE times[d]
         /\ Landed' = Landed \cup Pending
<1>1. \A d \in Deltas : times[d] \in Nat
  BY DEF TypeOK
<1>2. times' = [d \in Deltas |-> times[d] + IF d \in Pending THEN 1 ELSE 0]
  BY DEF Committed
<1>3. \A d \in Deltas : times'[d] = IF d \in Pending THEN times[d] + 1 ELSE times[d]
  BY <1>1, <1>2
<1>4. times' \in [Deltas -> Nat]
  BY <1>1, <1>2
<1>5. Landed' = Landed \cup Pending
  BY <1>1, <1>3, HeldType DEF Landed
<1> QED
  BY <1>3, <1>4, <1>5

\* An empty map holds nothing.
LEMMA MapCleared ==
  ASSUME pending' = [k \in Keys |-> {}]
  PROVE  /\ pending' \in [Keys -> SUBSET Deltas] /\ Pending' = {} /\ MapKeys' = {}
BY DEF Pending, MapKeys

\* merge makes the delta pending if there is room for its counter, and drops
\* it otherwise; the map stays within its capacity.
LEMMA MergeEffect ==
  ASSUME FlusherInv, NEW d \in Deltas, Merge(d)
  PROVE  /\ pending' \in [Keys -> SUBSET Deltas]
         /\ IsFiniteSet(MapKeys)' /\ Cardinality(MapKeys)' <= Buffer
         /\ \/ Pending' = Pending \cup {d} /\ dropped' = dropped
            \/ Pending' = Pending /\ dropped' = dropped \cup {d}
<1>1. /\ pending \in [Keys -> SUBSET Deltas] /\ KeyOf[d] \in Keys /\ Buffer \in Nat
      /\ IsFiniteSet(MapKeys) /\ Cardinality(MapKeys) <= Buffer
  BY FlusherAssumption DEF FlusherInv, TypeOK
<1>2. CASE /\ KeyOf[d] \in MapKeys \/ Cardinality(MapKeys) < Buffer
           /\ pending' = [pending EXCEPT ![KeyOf[d]] = @ \cup {d}]
           /\ UNCHANGED dropped
  <2>1. pending' \in [Keys -> SUBSET Deltas]
    BY <1>1, <1>2
  <2>2. \A k \in Keys : pending'[k] = IF k = KeyOf[d] THEN pending[k] \cup {d} ELSE pending[k]
    BY <1>1, <1>2
  <2>3. Pending' = Pending \cup {d}
    <3>1. \A k \in Keys : pending'[k] \subseteq Pending \cup {d}
      BY <2>2 DEF Pending
    <3>2. d \in Pending'
      BY <1>1, <2>2 DEF Pending
    <3>3. \A k \in Keys : pending[k] \subseteq Pending'
      BY <2>2 DEF Pending
    <3> QED
      BY <3>1, <3>2, <3>3 DEF Pending
  <2>4. MapKeys' = MapKeys \cup {KeyOf[d]}
    BY <1>1, <2>2 DEF MapKeys
  <2>5. IsFiniteSet(MapKeys')
    BY <1>1, <2>4, FS_AddElement
  <2>6. Cardinality(MapKeys') <= Buffer
    <3>1. CASE KeyOf[d] \in MapKeys
      <4>1. MapKeys' = MapKeys
        BY <2>4, <3>1
      <4> QED
        BY <1>1, <4>1
    <3>2. CASE KeyOf[d] \notin MapKeys
      <4>1. Cardinality(MapKeys') = Cardinality(MapKeys) + 1
        BY <1>1, <2>4, <3>2, FS_AddElement
      <4>2. Cardinality(MapKeys) < Buffer /\ Cardinality(MapKeys) \in Nat
        BY <1>1, <1>2, <3>2, FS_CardinalityType
      <4> QED
        BY <1>1, <4>1, <4>2
    <3> QED
      BY <3>1, <3>2
  <2> QED
    BY <1>2, <2>1, <2>3, <2>5, <2>6
<1>3. CASE dropped' = dropped \cup {d} /\ UNCHANGED pending
  BY <1>1, <1>3 DEF Pending, MapKeys
<1> QED
  BY <1>2, <1>3 DEF Merge

\* Add's check of closed keeps the invariant.
LEMMA CheckStep ==
  ASSUME FlusherInv, NEW d \in Deltas, AddCheck(d)
  PROVE  FlusherInv'
<1>a. TypeOK /\ IsFiniteSet(MapKeys) /\ CloseInv /\ PlaceInv /\ NoSilentLoss /\ CommittedOnce
  BY DEF FlusherInv
<1>b. UNCHANGED <<ch, closed, pending, loop, closer, times, lost, panicked, failures>>
  BY DEF AddCheck
<1>c. UNCHANGED <<Queued, Pending, MapKeys, Landed>>
  BY <1>b DEF Queued, Pending, MapKeys, Landed
<1>d. phase[d] = "idle" /\ loop # "killed"
  BY DEF AddCheck
<1>e. d \notin Queued \cup Pending \cup Landed \cup dropped \cup lost
  BY <1>a, <1>d DEF PlaceInv
<1>f. \/ closed /\ dropped' = dropped \cup {d} /\ phase' = [phase EXCEPT ![d] = "returned"]
      \/ ~closed /\ dropped' = dropped /\ phase' = [phase EXCEPT ![d] = "sending"]
  BY DEF AddCheck
<1>g. \A x \in Deltas : x # d => phase'[x] = phase[x]
  BY <1>a, <1>f DEF TypeOK
<1>h. phase'[d] = IF closed THEN "returned" ELSE "sending"
  BY <1>a, <1>f DEF TypeOK
<1>1. TypeOK'
  BY <1>a, <1>b, <1>c, <1>f DEF TypeOK
<1>2. CloseInv'
  <2>1. NoReaders => (closed => NoReaders')
    BY <1>g, <1>h DEF NoReaders
  <2> QED
    BY <1>a, <1>b, <1>c, <2>1 DEF CloseInv
<1>3. PlaceInv'
  <2>1. \A x \in Deltas : phase'[x] # "returned" => phase[x] # "returned" /\ (x \in dropped' => x \in dropped)
    BY <1>d, <1>f, <1>g, <1>h
  <2>2. \A x \in Deltas : x \in dropped' => x \in dropped \/ x = d
    BY <1>f
  <2> QED
    BY <1>a, <1>b, <1>c, <1>e, <2>1, <2>2, HeldType DEF PlaceInv
<1>4. NoSilentLoss'
  BY <1>a, <1>b, <1>c, <1>f, <1>g, <1>h DEF NoSilentLoss
<1>5. CommittedOnce'
  BY <1>a, <1>b DEF CommittedOnce
<1> QED
  BY <1>a, <1>c, <1>1, <1>2, <1>3, <1>4, <1>5 DEF FlusherInv

\* Add's send keeps the invariant: the channel cannot be closed, and a full one
\* drops the delta.
LEMMA SendStep ==
  ASSUME FlusherInv, NEW d \in Deltas, AddSend(d)
  PROVE  FlusherInv'
<1>a. TypeOK /\ IsFiniteSet(MapKeys) /\ CloseInv /\ PlaceInv /\ NoSilentLoss /\ CommittedOnce
  BY DEF FlusherInv
<1>b. UNCHANGED <<closed, pending, loop, closer, times, lost, failures>>
  BY DEF AddSend
<1>c. UNCHANGED <<Pending, MapKeys, Landed>>
  BY <1>b DEF Pending, MapKeys, Landed
<1>d. phase[d] = "sending" /\ ~closed /\ ~panicked'
  BY <1>a DEF AddSend, CloseInv, NoReaders
<1>e. d \notin Queued \cup Pending \cup Landed \cup dropped \cup lost
  BY <1>a, <1>d DEF PlaceInv
<1>f. phase'[d] = "returned" /\ \A x \in Deltas : x # d => phase'[x] = phase[x]
  BY <1>a DEF AddSend, TypeOK
<1>g. \/ Len(ch) < Buffer /\ ch' = Append(ch, d) /\ dropped' = dropped
      \/ ch' = ch /\ dropped' = dropped \cup {d}
  BY DEF AddSend
<1>h. /\ ch' \in Seq(Deltas) /\ Len(ch') <= Buffer
      /\ \A i, j \in DOMAIN ch' : ch'[i] = ch'[j] => i = j
      /\ \/ Queued' = Queued \cup {d} /\ dropped' = dropped
         \/ Queued' = Queued /\ dropped' = dropped \cup {d}
  <2>1. CASE ch' = ch /\ dropped' = dropped \cup {d}
    BY <1>a, <2>1 DEF TypeOK, PlaceInv, Queued
  <2>2. CASE Len(ch) < Buffer /\ ch' = Append(ch, d) /\ dropped' = dropped
    <3>1. Len(ch) \in Nat /\ Buffer \in Nat
      BY <1>a, FlusherAssumption DEF TypeOK
    <3>2. ch' \in Seq(Deltas) /\ Len(ch') = Len(ch) + 1 /\ Queued' = Queued \cup {d}
      BY <1>a, <2>2, SendQueues
    <3>3. \A i, j \in DOMAIN ch' : ch'[i] = ch'[j] => i = j
      BY <1>a, <1>e, <2>2, SendQueues DEF PlaceInv
    <3> QED
      BY <2>2, <3>1, <3>2, <3>3
  <2> QED
    BY <1>g, <2>1, <2>2
<1>1. TypeOK'
  BY <1>a, <1>b, <1>c, <1>d, <1>g, <1>h DEF TypeOK, AddSend
<1>2. CloseInv'
  BY <1>a, <1>b, <1>c, <1>d DEF CloseInv
<1>3. PlaceInv'
  BY <1>a, <1>b, <1>c, <1>e, <1>f, <1>h, HeldType DEF PlaceInv
<1>4. NoSilentLoss'
  BY <1>a, <1>b, <1>c, <1>f, <1>h DEF NoSilentLoss
<1>5. CommittedOnce'
  BY <1>a, <1>b DEF CommittedOnce
<1> QED
  BY <1>a, <1>c, <1>1, <1>2, <1>3, <1>4, <1>5 DEF FlusherInv

\* A receive keeps the invariant: the delta moves to its counter, or to the
\* dropped ones.
LEMMA ReceiveStep ==
  ASSUME FlusherInv, Receive
  PROVE  FlusherInv'
<1> DEFINE d == Head(ch)
<1>a. TypeOK /\ IsFiniteSet(MapKeys) /\ CloseInv /\ PlaceInv /\ NoSilentLoss /\ CommittedOnce
  BY DEF FlusherInv
<1>b. UNCHANGED <<phase, closed, loop, closer, times, lost, panicked, failures, Landed>>
  BY DEF Receive, Landed
<1>c. loop = "select" /\ ch # <<>> /\ ch' = Tail(ch) /\ Merge(d)
  BY DEF Receive
<1>d. /\ ch' \in Seq(Deltas) /\ Len(ch') = Len(ch) - 1 /\ d \in Deltas /\ d \in Queued
      /\ Queued = Queued' \cup {d}
  BY <1>a, <1>c, ReceiveDequeues
<1>e. /\ \A i, j \in DOMAIN ch' : ch'[i] = ch'[j] => i = j
      /\ d \notin Queued'
  BY <1>a, <1>c, ReceiveDequeues DEF PlaceInv
<1>f. /\ pending' \in [Keys -> SUBSET Deltas]
      /\ IsFiniteSet(MapKeys)' /\ Cardinality(MapKeys)' <= Buffer
      /\ \/ Pending' = Pending \cup {d} /\ dropped' = dropped
         \/ Pending' = Pending /\ dropped' = dropped \cup {d}
  BY <1>c, <1>d, MergeEffect
<1>g. d \notin Landed \cup dropped \cup lost /\ d \notin Pending /\ phase[d] = "returned"
  BY <1>a, <1>d DEF PlaceInv
<1>h. times[d] = 0 /\ failures \in Nat /\ Len(ch) \in Nat /\ Len(ch) <= Buffer /\ Buffer \in Nat
  BY <1>a, <1>d, <1>g, FlusherAssumption DEF TypeOK, Landed
<1> HIDE DEF d
<1>1. TypeOK'
  <2>1. dropped' \subseteq Deltas
    BY <1>a, <1>d, <1>f DEF TypeOK
  <2>2. Len(ch') <= Buffer
    BY <1>d, <1>h
  <2> QED
    BY <1>a, <1>b, <1>d, <1>f, <2>1, <2>2 DEF TypeOK
<1>2. CloseInv'
  BY <1>a, <1>b, <1>c DEF CloseInv, NoReaders
<1>3. PlaceInv'
  BY <1>a, <1>b, <1>d, <1>e, <1>f, <1>g, <1>h DEF PlaceInv
<1>4. NoSilentLoss'
  BY <1>a, <1>b, <1>d, <1>f DEF NoSilentLoss
<1>5. CommittedOnce'
  BY <1>a, <1>b DEF CommittedOnce
<1> QED
  BY <1>f, <1>1, <1>2, <1>3, <1>4, <1>5 DEF FlusherInv

\* The map has an entry exactly when something is pending.
LEMMA MapNonEmpty == ASSUME TypeOK PROVE MapKeys = {} <=> Pending = {}
BY DEF TypeOK, MapKeys, Pending

\* A step that moves no delta, and counts nothing, keeps what is known of them.
LEMMA NothingMoves ==
  ASSUME FlusherInv, UNCHANGED <<phase, ch, pending, times, dropped, lost, failures>>
  PROVE  /\ IsFiniteSet(MapKeys)' /\ PlaceInv' /\ NoSilentLoss' /\ CommittedOnce'
         /\ UNCHANGED <<Queued, Pending, MapKeys, Landed, NoReaders>>
<1>1. UNCHANGED <<Queued, Pending, MapKeys, Landed, NoReaders>>
  BY DEF Queued, Pending, MapKeys, Landed, NoReaders
<1> QED
  BY <1>1 DEF FlusherInv, PlaceInv, NoSilentLoss, CommittedOnce

\* The goroutine finds the channel closed and empty, or the ticker fires.
LEMMA TurnStep ==
  ASSUME FlusherInv, ReceiveClosed \/ Tick
  PROVE  FlusherInv'
<1>a. TypeOK /\ CloseInv
  BY DEF FlusherInv
<1>b. UNCHANGED <<phase, ch, closed, pending, closer, times, dropped, lost, panicked, failures>>
  BY DEF ReceiveClosed, Tick
<1>c. /\ IsFiniteSet(MapKeys)' /\ PlaceInv' /\ NoSilentLoss' /\ CommittedOnce'
      /\ UNCHANGED <<Queued, Pending, MapKeys, Landed, NoReaders>>
  BY <1>b, NothingMoves
<1>d. loop' \in {"writing", "last", "done"} /\ loop = "select"
  BY DEF ReceiveClosed, Tick
<1>1. TypeOK'
  BY <1>a, <1>b, <1>c, <1>d DEF TypeOK
<1>2. CloseInv'
  <2>1. CASE ReceiveClosed
    BY <1>a, <1>b, <1>c, <2>1, MapNonEmpty DEF CloseInv, ReceiveClosed
  <2>2. CASE Tick
    BY <1>a, <1>b, <1>c, <2>2, MapNonEmpty DEF CloseInv, Tick
  <2> QED
    BY <2>1, <2>2
<1> QED
  BY <1>c, <1>1, <1>2 DEF FlusherInv

\* A write, whether it succeeds, fails, or fails after its commit took effect.
LEMMA WriteStep ==
  ASSUME FlusherInv, WriteOK \/ WriteFails
  PROVE  FlusherInv'
<1>a. TypeOK /\ IsFiniteSet(MapKeys) /\ CloseInv /\ PlaceInv /\ NoSilentLoss /\ CommittedOnce
  BY DEF FlusherInv
<1>b. UNCHANGED <<phase, ch, closed, closer, dropped, panicked, Queued, NoReaders>>
  BY DEF WriteOK, WriteFails, Queued, NoReaders
<1>c. /\ loop \in {"writing", "last"}
      /\ loop' = IF loop = "last" THEN "done" ELSE "select"
      /\ Queued \subseteq Deltas /\ Pending \subseteq Deltas
      /\ \A x \in Deltas : times[x] \in Nat
      /\ failures \in Nat
  BY <1>a, HeldType DEF WriteOK, WriteFails, AfterWrite, TypeOK
<1>d. /\ times' \in [Deltas -> Nat]
      /\ \A x \in Deltas : times'[x] = times[x] \/ (x \in Pending /\ times'[x] = times[x] + 1)
      /\ Landed' = Landed \/ Landed' = Landed \cup Pending
  <2>1. CASE UNCHANGED times
    BY <1>a, <2>1 DEF TypeOK, Landed
  <2>2. CASE Committed
    BY <1>a, <2>2, CommitLands
  <2> QED
    BY <2>1, <2>2 DEF WriteOK, WriteFails
<1>e. \/ /\ Landed' = Landed \cup Pending /\ Pending' = {} /\ lost' = lost
         /\ failures' = failures
      \/ loop = "last" /\ Pending' = {} /\ lost' = lost \cup Pending /\ failures' = failures + 1
      \/ loop = "writing" /\ Pending' = Pending /\ lost' = lost /\ failures' = failures + 1
  <2>1. CASE WriteOK
    BY <1>a, <2>1, CommitLands, MapCleared DEF WriteOK, ClearWritten
  <2>2. CASE WriteFails
    BY <2>2, MapCleared DEF WriteFails, Pending
  <2> QED
    BY <2>1, <2>2
<1>f. /\ pending' \in [Keys -> SUBSET Deltas]
      /\ IsFiniteSet(MapKeys)' /\ Cardinality(MapKeys)' <= Buffer
  <2>1. CASE pending' = [k \in Keys |-> {}]
    BY <2>1, MapCleared, FS_EmptySet, FlusherAssumption
  <2>2. CASE UNCHANGED pending
    BY <1>a, <2>2 DEF TypeOK, MapKeys
  <2> QED
    BY <2>1, <2>2 DEF WriteOK, WriteFails, ClearWritten
<1>1. TypeOK'
  <2>1. lost' \subseteq Deltas /\ failures' \in Nat /\ loop' \in {"select", "done"}
    BY <1>a, <1>c, <1>e DEF TypeOK
  <2> QED
    BY <1>a, <1>b, <1>d, <1>f, <2>1 DEF TypeOK
<1>2. CloseInv'
  <2>1. loop' = "done" => Pending' = {} /\ closed /\ ch = <<>>
    BY <1>a, <1>c, <1>e DEF CloseInv
  <2>2. lost' # {} => failures' > 0 \/ closer = "timedout"
    BY <1>a, <1>c, <1>e DEF CloseInv
  <2>3. closer # "returned" /\ closer # "timedout"
    BY <1>a, <1>c DEF CloseInv
  <2> QED
    BY <1>a, <1>b, <1>c, <2>1, <2>2, <2>3 DEF CloseInv
<1>3. PlaceInv'
  <2>1. Queued' \cap Pending' = {}
    BY <1>a, <1>b, <1>e DEF PlaceInv
  <2>2. \A x \in Deltas : phase'[x] # "returned" =>
          x \notin Queued' \cup Pending' \cup Landed' \cup dropped' \cup lost'
    BY <1>a, <1>b, <1>d, <1>e DEF PlaceInv
  <2>3. \A x \in Queued' : x \notin Landed' \cup dropped' \cup lost'
    BY <1>a, <1>b, <1>d, <1>e DEF PlaceInv
  <2>4. \A x \in Pending' : x \notin dropped' \cup lost' /\ times'[x] <= failures'
    <3>1. CASE Pending' = {}
      BY <3>1
    <3>2. CASE Pending' = Pending /\ lost' = lost /\ failures' = failures + 1
      <4> TAKE x \in Pending'
      <4>1. x \in Pending /\ x \in Deltas /\ times[x] <= failures /\ x \notin dropped \cup lost
        BY <1>a, <1>c, <3>2 DEF PlaceInv
      <4>2. times'[x] \in {times[x], times[x] + 1} /\ times[x] \in Nat
        BY <1>c, <1>d, <4>1
      <4> QED
        BY <1>b, <1>c, <3>2, <4>1, <4>2
    <3> QED
      BY <1>e, <3>1, <3>2
  <2> QED
    BY <1>a, <1>b, <2>1, <2>2, <2>3, <2>4 DEF PlaceInv
<1>4. NoSilentLoss'
  BY <1>a, <1>b, <1>d, <1>e DEF NoSilentLoss
<1>5. CommittedOnce'
  <2> SUFFICES ASSUME NEW x \in Deltas PROVE times'[x] <= 1 + failures'
    BY DEF CommittedOnce
  <2>1. times[x] <= 1 + failures /\ (x \in Pending => times[x] <= failures)
    BY <1>a DEF CommittedOnce, PlaceInv
  <2>2. failures' = failures \/ failures' = failures + 1
    BY <1>e
  <2>3. times'[x] = times[x] \/ (x \in Pending /\ times'[x] = times[x] + 1)
    BY <1>d
  <2> QED
    BY <1>c, <2>1, <2>2, <2>3
<1> QED
  BY <1>f, <1>1, <1>2, <1>3, <1>4, <1>5 DEF FlusherInv

\* Close waits for the readers, and returns once the goroutine is done.
LEMMA CloseStep ==
  ASSUME FlusherInv, Close \/ CloseReturns
  PROVE  FlusherInv'
<1>a. TypeOK /\ CloseInv
  BY DEF FlusherInv
<1>b. UNCHANGED <<phase, ch, pending, loop, times, dropped, lost, panicked, failures>>
  BY DEF Close, CloseReturns
<1>c. /\ IsFiniteSet(MapKeys)' /\ PlaceInv' /\ NoSilentLoss' /\ CommittedOnce'
      /\ UNCHANGED <<Queued, Pending, MapKeys, Landed, NoReaders>>
  BY <1>b, NothingMoves
<1>1. TypeOK'
  BY <1>a, <1>b, <1>c DEF TypeOK, Close, CloseReturns
<1>2. CloseInv'
  <2>1. CASE Close
    BY <1>a, <1>b, <1>c, <2>1 DEF CloseInv, Close
  <2>2. CASE CloseReturns
    BY <1>a, <1>b, <1>c, <2>2 DEF CloseInv, CloseReturns
  <2> QED
    BY <2>1, <2>2
<1> QED
  BY <1>c, <1>1, <1>2 DEF FlusherInv

\* The deadline passes: what is queued and pending is lost with the process.
LEMMA TimeoutStep ==
  ASSUME FlusherInv, CloseTimesOut
  PROVE  FlusherInv'
<1>a. TypeOK /\ IsFiniteSet(MapKeys) /\ CloseInv /\ PlaceInv /\ NoSilentLoss /\ CommittedOnce
  BY DEF FlusherInv
<1>b. /\ UNCHANGED <<phase, closed, dropped, panicked, failures, NoReaders>>
      /\ closer = "waiting" /\ closer' = "timedout" /\ loop' = "killed" /\ ch' = <<>>
      /\ lost' = lost \cup Pending \cup Queued
  BY DEF CloseTimesOut, NoReaders
<1>c. /\ pending' \in [Keys -> SUBSET Deltas] /\ Pending' = {} /\ MapKeys' = {}
  BY MapCleared DEF CloseTimesOut
<1>d. Queued' = {}
  BY <1>b DEF Queued
<1>e. /\ times' \in [Deltas -> Nat]
      /\ \A x \in Deltas : times'[x] = times[x] \/ (x \in Pending /\ times'[x] = times[x] + 1)
      /\ Landed' = Landed \/ Landed' = Landed \cup Pending
  <2>1. CASE UNCHANGED times
    BY <1>a, <2>1 DEF TypeOK, Landed
  <2>2. CASE Committed
    BY <1>a, <2>2, CommitLands
  <2> QED
    BY <2>1, <2>2 DEF CloseTimesOut
<1>f. IsFiniteSet(MapKeys)' /\ Cardinality(MapKeys)' <= Buffer
  BY <1>c, FS_EmptySet, FlusherAssumption
<1>g. Queued \subseteq Deltas /\ Pending \subseteq Deltas
  BY <1>a, HeldType
<1>1. TypeOK'
  <2>1. lost' \subseteq Deltas
    BY <1>a, <1>b, <1>g DEF TypeOK
  <2>2. ch' \in Seq(Deltas) /\ Len(ch') <= Buffer
    BY <1>b, FlusherAssumption
  <2> QED
    BY <1>a, <1>b, <1>c, <1>e, <1>f, <2>1, <2>2 DEF TypeOK
<1>2. CloseInv'
  BY <1>a, <1>b, <1>c DEF CloseInv
<1>3. PlaceInv'
  BY <1>a, <1>b, <1>c, <1>d, <1>e DEF PlaceInv
<1>4. NoSilentLoss'
  BY <1>a, <1>b, <1>d, <1>e DEF NoSilentLoss
<1>5. CommittedOnce'
  <2> SUFFICES ASSUME NEW x \in Deltas PROVE times'[x] <= 1 + failures
    BY <1>b DEF CommittedOnce
  <2>1. times[x] <= 1 + failures /\ (x \in Pending => times[x] <= failures)
    BY <1>a DEF CommittedOnce, PlaceInv
  <2>2. times'[x] = times[x] \/ (x \in Pending /\ times'[x] = times[x] + 1)
    BY <1>e
  <2>3. times[x] \in Nat /\ failures \in Nat
    BY <1>a DEF TypeOK
  <2> QED
    BY <2>1, <2>2, <2>3
<1> QED
  BY <1>f, <1>1, <1>2, <1>3, <1>4, <1>5 DEF FlusherInv

\* The initial state satisfies the invariant.
LEMMA FlusherInit == Init => FlusherInv
<1> SUFFICES ASSUME Init PROVE FlusherInv
  OBVIOUS
<1>1. Queued = {} /\ Pending = {} /\ MapKeys = {} /\ Landed = {}
  BY DEF Init, Queued, Pending, MapKeys, Landed
<1>2. IsFiniteSet(MapKeys) /\ Cardinality(MapKeys) <= Buffer
  BY <1>1, FS_EmptySet, FlusherAssumption
<1>3. TypeOK
  <2>1. ch \in Seq(Deltas) /\ Len(ch) <= Buffer
    BY FlusherAssumption DEF Init
  <2>2. closed \in BOOLEAN /\ panicked \in BOOLEAN
    BY DEF Init
  <2> QED
    BY <1>2, <2>1, <2>2 DEF Init, TypeOK
<1>4. CloseInv
  BY <1>1 DEF Init, CloseInv, NoReaders
<1>5. PlaceInv /\ NoSilentLoss /\ CommittedOnce
  BY <1>1 DEF Init, PlaceInv, NoSilentLoss, CommittedOnce
<1> QED
  BY <1>2, <1>3, <1>4, <1>5 DEF FlusherInv

\* The invariant holds in every reachable state.
LEMMA FlusherInductive == Spec => []FlusherInv
<1>1. ASSUME FlusherInv, [Next]_vars PROVE FlusherInv'
  <2>1. CASE Next
    BY <1>1, <2>1, CheckStep, SendStep, ReceiveStep, TurnStep, WriteStep, CloseStep,
       TimeoutStep DEF Next, LoopStep
  <2>2. CASE UNCHANGED vars
    <3>1. UNCHANGED <<Queued, Pending, MapKeys, Landed, NoReaders>>
      BY <2>2 DEF vars, Queued, Pending, MapKeys, Landed, NoReaders
    <3> QED
      BY <1>1, <2>2, <3>1 DEF vars, FlusherInv, TypeOK, CloseInv, PlaceInv, NoSilentLoss,
         CommittedOnce
  <2> QED
    BY <1>1, <2>1, <2>2
<1> QED
  BY <1>1, FlusherInit, PTL DEF Spec

\* The flusher is well typed, and neither the channel nor the map of counters
\* outgrows the buffer, however many writes fail.
THEOREM FlusherTyped == Spec => []TypeOK
<1>1. FlusherInv => TypeOK
  BY DEF FlusherInv
<1> QED
  BY <1>1, FlusherInductive, PTL

\* No delta whose Add returned is ever unaccounted for.
THEOREM NothingLostSilently == Spec => []NoSilentLoss
<1>1. FlusherInv => NoSilentLoss
  BY DEF FlusherInv
<1> QED
  BY <1>1, FlusherInductive, PTL

\* A delta is committed more than once only by writes that took effect and
\* were reported as failed.
THEOREM CommitsBounded == Spec => []CommittedOnce
<1>1. FlusherInv => CommittedOnce
  BY DEF FlusherInv
<1> QED
  BY <1>1, FlusherInductive, PTL

\* The read lock Add holds keeps every send off the closed channel.
THEOREM AddNeverPanics == Spec => []NeverPanics
<1>1. FlusherInv => NeverPanics
  BY DEF FlusherInv, CloseInv, NeverPanics
<1> QED
  BY <1>1, FlusherInductive, PTL

\* When Close returns nothing is queued or pending, and what the flusher held
\* is lost only if a write failed.
THEOREM CloseIsComplete == Spec => []CloseFlushes
<1>1. FlusherInv => CloseFlushes
  <2> SUFFICES ASSUME FlusherInv, closer = "returned" PROVE CloseFlushes
    BY DEF CloseFlushes
  <2>1. ch = <<>> /\ Pending = {} /\ (lost # {} => failures > 0)
    BY DEF FlusherInv, CloseInv
  <2>2. Queued = {}
    BY <2>1 DEF Queued
  <2> QED
    BY <2>1, <2>2 DEF CloseFlushes
<1> QED
  BY <1>1, FlusherInductive, PTL

\* A step of the flusher is a step of the delta log, or none.
LEMMA LogStep ==
  ASSUME FlusherInv, [Next]_vars
  PROVE  [Log!LogNext]_(Log!logVars)
<1> DEFINE held == Queued \cup Pending
           Same == UNCHANGED <<held, Landed, dropped, lost>>
           Goal == Log!LogNext \/ Same
<1> USE DEF Log!LogNext, Log!Accept, Log!Refuse, Log!Persist, Log!PersistUnawares, Log!GiveUp
<1>a. TypeOK /\ CloseInv /\ PlaceInv
  BY DEF FlusherInv
<1>b. Queued \subseteq Deltas /\ Pending \subseteq Deltas
  BY <1>a, HeldType
<1>1. ASSUME NEW d \in Deltas, AddCheck(d) PROVE Goal
  <2>1. UNCHANGED <<Queued, Pending, Landed, lost>>
    BY <1>1 DEF AddCheck, Queued, Pending, Landed
  <2>2. d \notin Queued \cup Pending \cup Landed \cup dropped \cup lost
    BY <1>a, <1>1 DEF AddCheck, PlaceInv
  <2> QED
    BY <1>1, <2>1, <2>2 DEF AddCheck
<1>2. ASSUME NEW d \in Deltas, AddSend(d) PROVE Goal
  <2>1. UNCHANGED <<Pending, Landed, lost>>
    BY <1>2 DEF AddSend, Pending, Landed
  <2>2. d \notin Queued \cup Pending \cup Landed \cup dropped \cup lost
    BY <1>a, <1>2 DEF AddSend, PlaceInv
  <2>3. CASE ch' = Append(ch, d) /\ dropped' = dropped
    <3>1. Queued' = Queued \cup {d}
      BY <1>a, <2>3, SendQueues
    <3> QED
      BY <2>1, <2>2, <2>3, <3>1
  <2>4. CASE ch' = ch /\ dropped' = dropped \cup {d}
    <3>1. Queued' = Queued
      BY <2>4 DEF Queued
    <3> QED
      BY <2>1, <2>2, <2>4, <3>1
  <2> QED
    BY <1>2, <2>3, <2>4 DEF AddSend
<1>3. ASSUME Receive PROVE Goal
  <2> DEFINE d == Head(ch)
  <2>1. UNCHANGED <<Landed, lost>> /\ ch # <<>> /\ ch' = Tail(ch) /\ Merge(d)
    BY <1>3 DEF Receive, Landed
  <2>2. d \in Deltas /\ d \in Queued /\ Queued = Queued' \cup {d} /\ d \notin Queued'
    BY <1>a, <2>1, ReceiveDequeues DEF PlaceInv
  <2>3. \/ Pending' = Pending \cup {d} /\ dropped' = dropped
        \/ Pending' = Pending /\ dropped' = dropped \cup {d}
    BY <2>1, <2>2, MergeEffect
  <2>4. d \notin Landed \cup dropped \cup lost /\ d \notin Pending
    BY <1>a, <2>2 DEF PlaceInv
  <2> HIDE DEF d
  <2>5. CASE Pending' = Pending \cup {d} /\ dropped' = dropped
    BY <2>1, <2>2, <2>5
  <2>6. CASE Pending' = Pending /\ dropped' = dropped \cup {d}
    BY <2>1, <2>2, <2>4, <2>6
  <2> QED
    BY <2>3, <2>5, <2>6
<1>4. ASSUME ReceiveClosed \/ Tick \/ Close \/ CloseReturns \/ UNCHANGED vars PROVE Goal
  BY <1>4 DEF ReceiveClosed, Tick, Close, CloseReturns, vars, Queued, Pending, Landed
<1>5. ASSUME WriteOK PROVE Goal
  <2>1. UNCHANGED <<Queued, dropped, lost>> /\ Pending # {} /\ Queued \cap Pending = {}
    BY <1>a, <1>5 DEF WriteOK, Queued, CloseInv, PlaceInv
  <2>2. Landed' = Landed \cup Pending /\ Pending' = {}
    BY <1>a, <1>5, CommitLands, MapCleared DEF WriteOK, ClearWritten
  <2> QED
    BY <1>b, <2>1, <2>2
<1>6. ASSUME WriteFails PROVE Goal
  <2>1. UNCHANGED <<Queued, dropped>> /\ Pending # {} /\ loop \in {"writing", "last"}
    BY <1>a, <1>6 DEF WriteFails, Queued, CloseInv
  <2>2. Landed' = Landed \/ Landed' = Landed \cup Pending
    BY <1>a, <1>6, CommitLands DEF WriteFails, Landed
  <2>3. CASE loop = "writing"
    <3>1. UNCHANGED <<Pending, lost>>
      BY <1>6, <2>3 DEF WriteFails, Pending
    <3> QED
      BY <1>b, <2>1, <2>2, <3>1
  <2>4. CASE loop = "last"
    <3>1. Pending' = {} /\ lost' = lost \cup Pending
      BY <1>6, <2>4, MapCleared DEF WriteFails
    <3>2. Queued = {}
      BY <1>a, <2>4 DEF CloseInv, Queued
    <3>3. \E B \in {{}, Pending} : Log!GiveUp(B)
      BY <2>1, <2>2, <3>1, <3>2
    <3> QED
      BY <1>b, <3>3
  <2> QED
    BY <2>1, <2>3, <2>4
<1>7. ASSUME CloseTimesOut PROVE Goal
  <2>1. Queued' = {} /\ Pending' = {} /\ lost' = lost \cup Pending \cup Queued /\ dropped' = dropped
    BY <1>7, MapCleared DEF CloseTimesOut, Queued
  <2>2. Landed' = Landed \/ Landed' = Landed \cup Pending
    BY <1>a, <1>7, CommitLands DEF CloseTimesOut, Landed
  <2>3. \E B \in {{}, Pending} : Log!GiveUp(B)
    BY <2>1, <2>2
  <2> QED
    BY <1>b, <2>3
<1> HIDE DEF Goal
<1>8. Goal
  BY <1>1, <1>2, <1>3, <1>4, <1>5, <1>6, <1>7 DEF Next, LoopStep
<1> QED
  BY <1>8 DEF Goal, Log!logVars

\* The flusher implements the delta log, the part of it that the quota enforcer
\* relies on: a delta is refused at once or held until a commit contains it.
THEOREM FlusherImplementsLog == Spec => ImplementsLog
<1>1. Init => Log!LogInit
  BY DEF Init, Log!LogInit, Queued, Pending, Landed
<1> QED
  BY <1>1, LogStep, FlusherInductive, PTL DEF Spec, ImplementsLog, Log!LogSpec
=============================================================================
