-------------------------- MODULE LimitsCacheProofs --------------------------
(***************************************************************************)
(* Proofs about module LimitsCache, for every set of requests, every TTL   *)
(* and every bound.                                                        *)
(***************************************************************************)
EXTENDS LimitsCache, TLAPS

\* The initial states satisfy the invariant.
LEMMA CacheInit == Init => IndInv
  BY CacheAssumption
  DEF Init, IndInv, TypeOK, HistoryInv, EntryInv, StalenessBounded, Entries, None,
      Phases

\* Every action keeps the types, and stores no stamp from the future.
LEMMA CacheType == IndInv /\ [Next]_vars => TypeOK'
<1> SUFFICES ASSUME IndInv, [Next]_vars
             PROVE  TypeOK'
  OBVIOUS
<1> USE CacheAssumption DEF IndInv, TypeOK, Entries, Phases
<1>1. CASE Advance
  BY <1>1 DEF Advance
<1>2. CASE ChangeLimits
  BY <1>2 DEF ChangeLimits
<1>3. ASSUME NEW r \in Requests, Step(r)
      PROVE  TypeOK'
  <2>1. CASE Sample(r)
    BY <2>1 DEF Sample
  <2>2. CASE Hit(r)
    BY <2>2 DEF Hit
  <2>3. CASE Miss(r)
    BY <2>3 DEF Miss
  <2>4. CASE Load(r)
    BY <2>4 DEF Load
  <2>5. CASE Fail(r)
    BY <2>5 DEF Fail
  <2>6. CASE Store(r)
    BY <2>6 DEF Store, Stamp, EntryInv
  <2> QED
    BY <1>3, <2>1, <2>2, <2>3, <2>4, <2>5, <2>6 DEF Step
<1>4. CASE UNCHANGED vars
  BY <1>4 DEF vars
<1> QED
  BY <1>1, <1>2, <1>3, <1>4 DEF Next

\* Every action keeps the history ordered and below the current version.
LEMMA CacheHistory == IndInv /\ [Next]_vars => HistoryInv'
<1> SUFFICES ASSUME IndInv, [Next]_vars
             PROVE  HistoryInv'
  OBVIOUS
<1> USE DEF IndInv, TypeOK, HistoryInv
<1>1. CASE Advance
  BY <1>1, CacheAssumption DEF Advance
<1>2. CASE ChangeLimits
  BY <1>2 DEF ChangeLimits
<1>3. ASSUME NEW r \in Requests, Step(r)
      PROVE  HistoryInv'
  BY <1>3 DEF Step, Sample, Hit, Miss, Load, Fail, Store
<1>4. CASE UNCHANGED vars
  BY <1>4 DEF vars
<1> QED
  BY <1>1, <1>2, <1>3, <1>4 DEF Next

\* Every action leaves an entry, and a loaded answer, at least as new as its stamp.
LEMMA CacheEntry == IndInv /\ [Next]_vars => EntryInv'
<1> SUFFICES ASSUME IndInv, [Next]_vars
             PROVE  EntryInv'
  OBVIOUS
<1> USE CacheAssumption DEF IndInv, TypeOK, Entries, HistoryInv, EntryInv
<1>1. CASE Advance
  <2>1. \A t \in 0..MaxClock : t <= clock => since'[t] = since[t]
    BY <1>1 DEF Advance
  <2> QED
    BY <1>1, <2>1 DEF Advance
<1>2. CASE ChangeLimits
  BY <1>2 DEF ChangeLimits
<1>3. ASSUME NEW r \in Requests, Step(r)
      PROVE  EntryInv'
  <2>1. CASE Sample(r)
    BY <2>1 DEF Sample
  <2>2. CASE Hit(r)
    BY <2>2 DEF Hit
  <2>3. CASE Miss(r)
    BY <2>3 DEF Miss
  <2>4. CASE Load(r)
    BY <2>4 DEF Load
  <2>5. CASE Fail(r)
    BY <2>5 DEF Fail
  <2>6. CASE Store(r)
    BY <2>6 DEF Store, Stamp
  <2> QED
    BY <1>3, <2>1, <2>2, <2>3, <2>4, <2>5, <2>6 DEF Step
<1>4. CASE UNCHANGED vars
  BY <1>4 DEF vars
<1> QED
  BY <1>1, <1>2, <1>3, <1>4 DEF Next

\* Every action keeps what was served within its bound.
LEMMA CacheServed == IndInv /\ [Next]_vars => StalenessBounded'
<1> SUFFICES ASSUME IndInv, [Next]_vars
             PROVE  StalenessBounded'
  OBVIOUS
<1> USE CacheAssumption DEF IndInv, TypeOK, Entries, HistoryInv, EntryInv, StalenessBounded
<1>1. CASE Advance
  <2>1. \A t \in 0..MaxClock : t <= clock => since'[t] = since[t]
    BY <1>1 DEF Advance
  <2> QED
    BY <1>1, <2>1 DEF Advance
<1>2. CASE ChangeLimits
  BY <1>2 DEF ChangeLimits
<1>3. ASSUME NEW r \in Requests, Step(r)
      PROVE  StalenessBounded'
  <2>1. CASE Sample(r)
    BY <2>1 DEF Sample
  <2>2. CASE Hit(r)
    <3>1. \A t \in 0..MaxClock : t + TTL <= at[r] + 1 => since[t] <= entry.version
      <4> SUFFICES ASSUME NEW t \in 0..MaxClock, t + TTL <= at[r] + 1
                   PROVE  since[t] <= entry.version
        OBVIOUS
      <4>1. entry.some /\ at[r] < entry.fetched + TTL
        BY <2>2 DEF Hit, Fresh
      <4>2. t <= entry.fetched /\ entry.fetched \in 0..MaxClock
        BY <4>1
      <4>3. since[t] <= since[entry.fetched] /\ since[entry.fetched] <= entry.version
        BY <4>1, <4>2
      <4> QED
        BY <4>2, <4>3
    <3> QED
      BY <2>2, <3>1 DEF Hit
  <2>3. CASE Miss(r)
    BY <2>3 DEF Miss
  <2>4. CASE Load(r)
    BY <2>4 DEF Load
  <2>5. CASE Fail(r)
    BY <2>5 DEF Fail
  <2>6. CASE Store(r)
    <3>1. \A t \in 0..MaxClock : t + TTL <= at[r] + 1 => since[t] <= got[r]
      <4> SUFFICES ASSUME NEW t \in 0..MaxClock, t + TTL <= at[r] + 1
                   PROVE  since[t] <= got[r]
        OBVIOUS
      <4>1. t <= at[r] /\ at[r] \in 0..MaxClock
        OBVIOUS
      <4>2. since[t] <= since[at[r]] /\ since[at[r]] <= got[r]
        BY <2>6, <4>1 DEF Store
      <4> QED
        BY <4>1, <4>2
    <3> QED
      BY <2>6, <3>1 DEF Store
  <2> QED
    BY <1>3, <2>1, <2>2, <2>3, <2>4, <2>5, <2>6 DEF Step
<1>4. CASE UNCHANGED vars
  BY <1>4 DEF vars
<1> QED
  BY <1>1, <1>2, <1>3, <1>4 DEF Next

\* A request that was not refused or served stale enforces limits at most TTL old,
\* however many requests refresh the cache at once.
THEOREM CacheStaleness == Spec => []StalenessBounded
<1>1. IndInv /\ [Next]_vars => IndInv'
  BY CacheType, CacheHistory, CacheEntry, CacheServed DEF IndInv
<1>2. IndInv => StalenessBounded
  BY DEF IndInv
<1> QED
  BY CacheInit, <1>1, <1>2, PTL DEF Spec

\* Request r is sure of an entry: it has yet to look up one that is there, or it found one.
Sure(r) ==
  /\ entry.some
  /\ \/ phase[r] \in {"idle", "sampled", "loaded", "served", "stale"}
     \/ phase[r] = "loading" /\ had[r].some

\* No step takes that away: entries are replaced, never dropped.
LEMMA SureStep ==
  ASSUME NEW r \in Requests, IndInv, Sure(r), [Next]_vars
  PROVE  Sure(r)'
<1> USE DEF IndInv, TypeOK, Sure
<1>1. CASE Advance \/ ChangeLimits
  BY <1>1 DEF Advance, ChangeLimits
<1>2. ASSUME NEW q \in Requests, Step(q) PROVE Sure(r)'
  <2>1. CASE Sample(q)
    BY <2>1 DEF Sample
  <2>2. CASE Hit(q)
    BY <2>2 DEF Hit
  <2>3. CASE Miss(q)
    BY <2>3 DEF Miss
  <2>4. CASE Load(q)
    BY <2>4 DEF Load
  <2>5. CASE Fail(q)
    BY <2>5 DEF Fail
  <2>6. CASE Store(q)
    BY <2>6 DEF Store
  <2> QED
    BY <1>2, <2>1, <2>2, <2>3, <2>4, <2>5, <2>6 DEF Step
<1>3. CASE UNCHANGED vars
  BY <1>3 DEF vars
<1> QED
  BY <1>1, <1>2, <1>3 DEF Next

\* Once there is an entry, a request that has yet to look it up is never refused, whatever
\* refreshes fail.
THEOREM StaleLimitsServed == Spec => OldLimitsBeatNone
<1>1. IndInv /\ [Next]_vars => IndInv'
  BY CacheType, CacheHistory, CacheEntry, CacheServed DEF IndInv
<1>2. Spec => []IndInv
  BY CacheInit, <1>1, PTL DEF Spec
<1>3. ASSUME NEW CONSTANT r \in Requests
      PROVE  Spec => [](entry.some /\ phase[r] \in {"idle", "sampled"} => [](phase[r] # "refused"))
  <2>1. entry.some /\ phase[r] \in {"idle", "sampled"} => Sure(r)
    BY DEF Sure
  <2>2. Sure(r) => phase[r] # "refused"
    BY DEF Sure
  <2>3. IndInv /\ Sure(r) /\ [Next]_vars => Sure(r)'
    BY SureStep
  <2> QED
    BY <1>2, <2>1, <2>2, <2>3, PTL DEF Spec
<1> QED
  BY <1>3 DEF OldLimitsBeatNone
=============================================================================
