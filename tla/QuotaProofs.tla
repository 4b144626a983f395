----------------------------- MODULE QuotaProofs -----------------------------
(***************************************************************************)
(* QuotaEnforcer, for any requests, replicas, windows, limits and costs    *)
(* and any number of failures: its types, that no usage is counted twice,  *)
(* that counters hold what is reserved and spent while Redis keeps them,   *)
(* and that a limit is then a cap.                                         *)
(***************************************************************************)
EXTENDS QuotaEnforcer, FiniteSetTheorems, TLAPS

(***************************************************************************)
(* Sums of weights, which count units.                                     *)
(***************************************************************************)

\* The units of finitely many natural weights are finitely many.
LEMMA UnitsFinite ==
  ASSUME NEW S, IsFiniteSet(S), NEW f \in [S -> Nat]
  PROVE  IsFiniteSet(Units(S, f))
<1> DEFINE T == {{x} \X (1..f[x]) : x \in S}
           g == [x \in S |-> {x} \X (1..f[x])]
<1>1. g \in Surjection(S, T)
  BY DEF Surjection
<1>2. IsFiniteSet(T)
  BY <1>1, FS_Surjection
<1>3. \A x \in S : IsFiniteSet({x} \X (1..f[x]))
  <2> TAKE x \in S
  <2>1. IsFiniteSet({x})
    BY FS_Singleton
  <2>2. f[x] \in Int /\ 1 \in Int
    OBVIOUS
  <2>3. IsFiniteSet(1..f[x])
    BY <2>2, FS_Interval
  <2> QED
    BY <2>1, <2>3, FS_Product
<1>4. \A U \in T : IsFiniteSet(U)
  BY <1>3
<1> QED
  BY <1>2, <1>4, FS_UNION DEF Units

\* A sum of natural weights is a natural number.
LEMMA TotalType ==
  ASSUME NEW S, IsFiniteSet(S), NEW f \in [S -> Nat]
  PROVE  Total(S, f) \in Nat
BY UnitsFinite, FS_CardinalityType DEF Total

\* Membership in Units, spelled out.
LEMMA UnitsMember ==
  ASSUME NEW S, NEW f \in [S -> Nat], NEW u
  PROVE  u \in Units(S, f) <=> \E x \in S : \E k \in 1..f[x] : u = <<x, k>>
BY DEF Units

\* Larger weights have a larger sum.
LEMMA TotalMono ==
  ASSUME NEW S, IsFiniteSet(S), NEW f \in [S -> Nat], NEW g \in [S -> Nat],
         \A x \in S : f[x] <= g[x]
  PROVE  Total(S, f) <= Total(S, g)
<1>1. Units(S, f) \subseteq Units(S, g)
  <2> SUFFICES ASSUME NEW u \in Units(S, f) PROVE u \in Units(S, g)
    OBVIOUS
  <2>1. PICK x \in S : \E k \in 1..f[x] : u = <<x, k>>
    BY UnitsMember
  <2>2. 1..f[x] \subseteq 1..g[x]
    OBVIOUS
  <2> QED
    BY <2>1, <2>2, UnitsMember
<1>2. IsFiniteSet(Units(S, g))
  BY UnitsFinite
<1> QED
  BY <1>1, <1>2, FS_Subset DEF Total

\* The sum of two weightings that never both weigh the same element.
LEMMA TotalSplit ==
  ASSUME NEW S, IsFiniteSet(S),
         NEW f \in [S -> Nat], NEW g \in [S -> Nat], NEW h \in [S -> Nat],
         \A x \in S : \/ f[x] = 0 /\ h[x] = g[x]
                      \/ g[x] = 0 /\ h[x] = f[x]
  PROVE  Total(S, h) = Total(S, f) + Total(S, g)
<1>1. Units(S, h) = Units(S, f) \cup Units(S, g)
  <2>1. ASSUME NEW u \in Units(S, h) PROVE u \in Units(S, f) \cup Units(S, g)
    BY UnitsMember
  <2>2. ASSUME NEW u \in Units(S, f) PROVE u \in Units(S, h)
    <3>1. PICK x \in S : \E k \in 1..f[x] : u = <<x, k>>
      BY UnitsMember
    <3>2. h[x] = f[x]
      BY <3>1
    <3> QED
      BY <3>1, <3>2, UnitsMember
  <2>3. ASSUME NEW u \in Units(S, g) PROVE u \in Units(S, h)
    <3>1. PICK x \in S : \E k \in 1..g[x] : u = <<x, k>>
      BY UnitsMember
    <3>2. h[x] = g[x]
      BY <3>1
    <3> QED
      BY <3>1, <3>2, UnitsMember
  <2> QED
    BY <2>1, <2>2, <2>3
<1>2. Units(S, f) \cap Units(S, g) = {}
  <2> SUFFICES ASSUME NEW u \in Units(S, f), u \in Units(S, g) PROVE FALSE
    OBVIOUS
  <2>1. PICK x \in S : \E k \in 1..f[x] : u = <<x, k>>
    BY UnitsMember
  <2>2. PICK y \in S : \E k \in 1..g[y] : u = <<y, k>>
    BY UnitsMember
  <2>3. x = y
    BY <2>1, <2>2
  <2> QED
    BY <2>1, <2>2, <2>3
<1>3. IsFiniteSet(Units(S, f)) /\ IsFiniteSet(Units(S, g))
  BY UnitsFinite
<1>4. Cardinality(Units(S, f) \cap Units(S, g)) = 0
  BY <1>2, FS_EmptySet
<1>5. /\ Cardinality(Units(S, f)) \in Nat
      /\ Cardinality(Units(S, g)) \in Nat
  BY <1>3, FS_CardinalityType
<1>6. Cardinality(Units(S, f) \cup Units(S, g)) =
         Cardinality(Units(S, f)) + Cardinality(Units(S, g))
           - Cardinality(Units(S, f) \cap Units(S, g))
  BY <1>3, FS_Union
<1> QED
  BY <1>1, <1>4, <1>5, <1>6 DEF Total

\* Weights that are all zero sum to zero.
LEMMA TotalZero ==
  ASSUME NEW S, NEW f \in [S -> Nat], \A x \in S : f[x] = 0
  PROVE  Total(S, f) = 0
<1>1. Units(S, f) = {}
  BY UnitsMember
<1> QED
  BY <1>1, FS_EmptySet DEF Total

\* The sum of a weighting of one element.
LEMMA TotalSingle ==
  ASSUME NEW S, NEW r \in S, NEW f \in [S -> Nat],
         \A x \in S \ {r} : f[x] = 0
  PROVE  Total(S, f) = f[r]
<1>1. Units(S, f) = {r} \X (1..f[r])
  <2>1. ASSUME NEW u \in Units(S, f) PROVE u \in {r} \X (1..f[r])
    <3>1. PICK x \in S : \E k \in 1..f[x] : u = <<x, k>>
      BY UnitsMember
    <3>2. x = r
      BY <3>1
    <3> QED
      BY <3>1, <3>2
  <2>2. ASSUME NEW u \in {r} \X (1..f[r]) PROVE u \in Units(S, f)
    BY <2>2, UnitsMember
  <2> QED
    BY <2>1, <2>2
<1>2. IsFiniteSet({r}) /\ Cardinality({r}) = 1
  BY FS_Singleton
<1>3. f[r] \in Nat
  OBVIOUS
<1>4. /\ IsFiniteSet(1..f[r])
      /\ Cardinality(1..f[r]) = IF 1 > f[r] THEN 0 ELSE f[r] - 1 + 1
  BY <1>3, FS_Interval
<1>5. Cardinality(1..f[r]) = f[r]
  BY <1>3, <1>4
<1>6. Cardinality({r} \X (1..f[r])) = Cardinality({r}) * Cardinality(1..f[r])
  BY <1>2, <1>4, FS_Product
<1>7. Cardinality({r} \X (1..f[r])) = f[r]
  BY <1>2, <1>3, <1>5, <1>6
<1> QED
  BY <1>1, <1>7 DEF Total

\* Changing the weight of one element changes the sum by as much.
LEMMA TotalUpdate ==
  ASSUME NEW S, IsFiniteSet(S), NEW f \in [S -> Nat], NEW g \in [S -> Nat],
         NEW r \in S, \A x \in S \ {r} : g[x] = f[x]
  PROVE  /\ Total(S, f) \in Nat
         /\ Total(S, g) \in Nat
         /\ Total(S, g) = Total(S, f) + (g[r] - f[r])
<1> DEFINE rest == [x \in S |-> IF x = r THEN 0 ELSE f[x]]
           fr   == [x \in S |-> IF x = r THEN f[r] ELSE 0]
           gr   == [x \in S |-> IF x = r THEN g[r] ELSE 0]
<1>1. rest \in [S -> Nat] /\ fr \in [S -> Nat] /\ gr \in [S -> Nat]
  OBVIOUS
<1>2. Total(S, fr) = f[r] /\ Total(S, gr) = g[r]
  <2>1. /\ \A x \in S \ {r} : fr[x] = 0
        /\ \A x \in S \ {r} : gr[x] = 0
        /\ fr[r] = f[r]
        /\ gr[r] = g[r]
    OBVIOUS
  <2> HIDE DEF fr, gr
  <2> QED
    BY <1>1, <2>1, TotalSingle
<1>3. Total(S, f) = Total(S, rest) + Total(S, fr)
  <2>1. \A x \in S : \/ rest[x] = 0 /\ f[x] = fr[x]
                     \/ fr[x] = 0 /\ f[x] = rest[x]
    OBVIOUS
  <2> HIDE DEF rest, fr
  <2> QED
    BY <1>1, <2>1, TotalSplit
<1>4. Total(S, g) = Total(S, rest) + Total(S, gr)
  <2>1. \A x \in S : \/ rest[x] = 0 /\ g[x] = gr[x]
                     \/ gr[x] = 0 /\ g[x] = rest[x]
    OBVIOUS
  <2> HIDE DEF rest, gr
  <2> QED
    BY <1>1, <2>1, TotalSplit
<1>5. Total(S, rest) \in Nat /\ Total(S, f) \in Nat /\ Total(S, g) \in Nat
  BY <1>1, TotalType
<1> QED
  BY <1>2, <1>3, <1>4, <1>5

\* Weights that are at most the sum of two others, element by element.
LEMMA TotalBelow ==
  ASSUME NEW S, IsFiniteSet(S),
         NEW f \in [S -> Nat], NEW g \in [S -> Nat], NEW h \in [S -> Nat],
         \A x \in S : h[x] <= f[x] + g[x]
  PROVE  Total(S, h) <= Total(S, f) + Total(S, g)
<1> DEFINE F == Units(S, f)
           G == Units(S, g)
           H == Units(S, h)
           R == H \ F
           m == [u \in R |-> <<u[1], u[2] - f[u[1]]>>]
<1>1. IsFiniteSet(F) /\ IsFiniteSet(G) /\ IsFiniteSet(H)
  BY UnitsFinite
<1>2. ASSUME NEW u \in R
      PROVE  /\ u[1] \in S /\ u[2] \in Nat /\ u = <<u[1], u[2]>>
             /\ u[2] - f[u[1]] \in 1..g[u[1]]
  <2>1. PICK x \in S : \E k \in 1..h[x] : u = <<x, k>>
    BY UnitsMember
  <2>2. PICK k \in 1..h[x] : u = <<x, k>>
    BY <2>1
  <2>3. k \notin 1..f[x]
    BY <2>2, UnitsMember
  <2>4. /\ f[x] \in Nat /\ g[x] \in Nat /\ h[x] \in Nat
        /\ h[x] <= f[x] + g[x]
    OBVIOUS
  <2>5. k - f[x] \in 1..g[x]
    BY <2>3, <2>4
  <2> QED
    BY <2>2, <2>5
<1>3. ASSUME NEW u \in R PROVE m[u] \in G
  <2>1. m[u] = <<u[1], u[2] - f[u[1]]>>
    OBVIOUS
  <2> HIDE DEF R, m, G
  <2> QED
    BY <1>2, <2>1, UnitsMember DEF G
<1>4. ASSUME NEW u \in R, NEW v \in R, m[u] = m[v] PROVE u = v
  <2>1. u[1] = v[1] /\ u[2] - f[u[1]] = v[2] - f[v[1]]
    BY <1>4
  <2>2. f[u[1]] \in Nat /\ u[2] \in Nat /\ v[2] \in Nat
    BY <1>2
  <2>3. u[2] = v[2]
    BY <2>1, <2>2
  <2> HIDE DEF R
  <2> QED
    BY <1>2, <2>1, <2>3
<1>5. m \in Injection(R, G)
  <2>1. DOMAIN m = R
    OBVIOUS
  <2>2. m \in [R -> G]
    BY <1>3
  <2> HIDE DEF R, m, G
  <2> QED
    BY <1>4, <2>1, <2>2 DEF Injection, IsInjective
<1> HIDE DEF m
<1>6. IsFiniteSet(R) /\ Cardinality(R) <= Cardinality(G)
  <2> HIDE DEF R, G
  <2> QED
    BY <1>1, <1>5, FS_Injection
<1>7. H \subseteq F \cup R
  OBVIOUS
<1> HIDE DEF F, G, H, R
<1>8. /\ IsFiniteSet(F \cup R)
      /\ Cardinality(F \cup R) = Cardinality(F) + Cardinality(R) - Cardinality(F \cap R)
  BY <1>1, <1>6, FS_Union
<1>9. IsFiniteSet(F \cap R)
  BY <1>1, FS_Intersection
<1>10. Cardinality(H) <= Cardinality(F \cup R)
  BY <1>7, <1>8, FS_Subset
<1>11. /\ Cardinality(F) \in Nat /\ Cardinality(G) \in Nat /\ Cardinality(H) \in Nat
       /\ Cardinality(R) \in Nat /\ Cardinality(F \cap R) \in Nat
  BY <1>1, <1>6, <1>9, FS_CardinalityType
<1>12. Cardinality(H) <= Cardinality(F) + Cardinality(G)
  BY <1>6, <1>8, <1>10, <1>11
<1> QED
  BY <1>12 DEF F, G, H, Total

(***************************************************************************)
(* Types, and the usage that is counted.                                   *)
(***************************************************************************)

\* What a set of deltas adds to a window is a natural number.
LEMMA DeltaTotalType ==
  ASSUME TypeOK, NEW B, NEW w \in Windows
  PROVE  DeltaTotal(B, w) \in Nat
<1> DEFINE f == [r \in Requests |-> IF <<r, w>> \in B THEN actual[r] ELSE 0]
<1>1. f \in [Requests -> Nat]
  BY DEF TypeOK
<1> HIDE DEF f
<1>2. Total(Requests, f) \in Nat
  BY <1>1, QuotaAssumption, TotalType
<1> QED
  BY <1>2 DEF DeltaTotal, f

\* seed.lua leaves integers in the counters.
LEMMA RaiseType ==
  ASSUME TypeOK, NEW ws \in SUBSET Windows, NEW s \in [Windows -> Nat], Raise(ws, s)
  PROVE  counter' \in [Windows -> Int] /\ live' \in SUBSET Windows
<1>1. counter \in [Windows -> Int] /\ live \in SUBSET Windows
  BY DEF TypeOK
<1>2. \A w \in Windows : MaxOf(counter[w], s[w]) \in Int
  BY <1>1 DEF MaxOf
<1> QED
  BY <1>1, <1>2 DEF Raise

\* Forgetting a rehydration keeps its variables in their types.
LEMMA EndRehydrateType ==
  ASSUME TypeOK, NEW a \in Agents, EndRehydrate(a)
  PROVE  /\ asked' \in [Agents -> SUBSET Windows]
         /\ unread' \in [Agents -> SUBSET Windows]
         /\ snap' \in [Agents -> [Windows -> Nat]]
<1>1. [w \in Windows |-> 0] \in [Windows -> Nat]
  OBVIOUS
<1> QED
  BY <1>1 DEF TypeOK, EndRehydrate

\* Every step keeps the types.
LEMMA TypeStep == TypeOK /\ [Next]_vars => TypeOK'
<1> SUFFICES ASSUME TypeOK, [Next]_vars PROVE TypeOK'
  OBVIOUS
<1> USE QuotaAssumption DEF redisVars, storeVars, procVars, seedVars, strayVars
<1>1. ASSUME NEW r \in Requests, NEW ws \in Spans, NEW c \in Costs, Arrive(r, ws, c) PROVE TypeOK'
  BY <1>1 DEF TypeOK, Deltas, Agents, Statuses, Arrive
<1>2. ASSUME NEW r \in Requests, ArriveUnchecked(r) PROVE TypeOK'
  BY <1>2 DEF TypeOK, Deltas, Agents, Statuses, ArriveUnchecked, Unenforceable
<1>3. ASSUME NEW r \in Requests, LimitsUnavailable(r) PROVE TypeOK'
  BY <1>3 DEF TypeOK, Deltas, Agents, Statuses, LimitsUnavailable, Fault, Failed, Unenforceable
<1>4. ASSUME NEW r \in Requests, ReserveMissing(r) PROVE TypeOK'
  BY <1>4 DEF TypeOK, Deltas, Agents, Statuses, ReserveMissing
<1>5. ASSUME NEW r \in Requests, ReserveBlocked(r) PROVE TypeOK'
  BY <1>5 DEF TypeOK, Deltas, Agents, Statuses, ReserveBlocked, Recovered
<1>6. ASSUME NEW r \in Requests, ReserveOK(r) PROVE TypeOK'
  BY <1>6 DEF TypeOK, Deltas, Agents, Statuses, ReserveOK, Recovered, Increment
<1>7. ASSUME NEW r \in Requests, ReserveError(r) PROVE TypeOK'
  BY <1>7 DEF TypeOK, Deltas, Agents, Statuses, ReserveError, Fault, Failed, Unenforceable, Increment
<1>8. ASSUME NEW r \in Requests, SeedForRequest(r) PROVE TypeOK'
  <2>1. r \in Agents
    BY DEF Agents
  <2>2. Raise(asked[r], snap[r]) /\ EndRehydrate(r) /\ asked[r] \in SUBSET Windows /\ snap[r] \in [Windows -> Nat]
    BY <1>8, <2>1 DEF SeedForRequest, TypeOK
  <2>3. round' \in [Requests -> Nat]
    BY <1>8 DEF SeedForRequest, TypeOK
  <2>4. /\ status' \in [Requests -> Statuses]
        /\ degraded' \in [Replicas -> BOOLEAN]
        /\ UNCHANGED <<wake, known>>
    BY <1>8 DEF SeedForRequest, TypeOK, Failed, Unenforceable, Statuses
  <2>5. counter' \in [Windows -> Int] /\ live' \in SUBSET Windows
    BY <2>2, RaiseType
  <2>6. /\ asked' \in [Agents -> SUBSET Windows]
        /\ unread' \in [Agents -> SUBSET Windows]
        /\ snap' \in [Agents -> [Windows -> Nat]]
    BY <2>1, <2>2, EndRehydrateType
  <2> QED
    BY <1>8, <2>3, <2>4, <2>5, <2>6 DEF SeedForRequest, TypeOK
<1>9. ASSUME NEW r \in Requests, NEW c \in Costs, ReconcileAdjust(r, c) PROVE TypeOK'
  BY <1>9 DEF TypeOK, Deltas, Agents, Statuses, ReconcileAdjust, Correct, Charge
<1>10. ASSUME NEW r \in Requests, NEW c \in Costs, AdjustError(r, c) PROVE TypeOK'
  BY <1>10 DEF TypeOK, Deltas, Agents, Statuses, AdjustError, Fault, Correct, Charge
<1>11. ASSUME NEW r \in Requests, NEW w \in Windows, AddDelta(r, w) PROVE TypeOK'
  <2>1. unflushed' \in [Replicas -> SUBSET Deltas]
    <3>1. <<r, w>> \in Deltas
      BY DEF Deltas
    <3>2. unflushed[Host[r]] \cup {<<r, w>>} \in SUBSET Deltas
      BY <3>1 DEF TypeOK
    <3>3. CASE unflushed' = [unflushed EXCEPT ![Host[r]] = @ \cup {<<r, w>>}]
      BY <3>2, <3>3 DEF TypeOK
    <3>4. CASE UNCHANGED unflushed
      BY <3>4 DEF TypeOK
    <3> QED
      BY <1>11, <3>3, <3>4 DEF AddDelta
  <2>2. /\ status' \in [Requests -> Statuses]
        /\ toAdd' \in [Requests -> SUBSET Windows]
    BY <1>11 DEF AddDelta, Handed, TypeOK, Statuses
  <2> QED
    BY <1>11, <2>1, <2>2 DEF AddDelta, TypeOK
<1>12. ASSUME NEW p \in Replicas, ResyncOnTick(p) PROVE TypeOK'
  BY <1>12 DEF TypeOK, Deltas, Agents, Statuses, ResyncOnTick
<1>13. ASSUME NEW p \in Replicas, ResyncOnWake(p) PROVE TypeOK'
  BY <1>13 DEF TypeOK, Deltas, Agents, Statuses, ResyncOnWake
<1>14. ASSUME NEW p \in Replicas, SeedForResync(p) PROVE TypeOK'
  <2>1. p \in Agents
    BY DEF Agents
  <2>2. Raise(asked[p], snap[p]) /\ EndRehydrate(p) /\ asked[p] \in SUBSET Windows /\ snap[p] \in [Windows -> Nat]
    BY <1>14, <2>1 DEF SeedForResync, TypeOK
  <2>3. counter' \in [Windows -> Int] /\ live' \in SUBSET Windows
    BY <2>2, RaiseType
  <2>4. /\ asked' \in [Agents -> SUBSET Windows]
        /\ unread' \in [Agents -> SUBSET Windows]
        /\ snap' \in [Agents -> [Windows -> Nat]]
    BY <2>1, <2>2, EndRehydrateType
  <2> QED
    BY <1>14, <2>3, <2>4 DEF SeedForResync, TypeOK
<1>15. ASSUME NEW p \in Replicas, NEW B \in SUBSET unflushed[p], Flush(p, B) PROVE TypeOK'
  BY DeltaTotalType, <1>15 DEF TypeOK, Deltas, Agents, Statuses, Flush, Commit
<1>16. ASSUME NEW p \in Replicas, NEW B \in SUBSET unflushed[p], FlushAmbiguous(p, B) PROVE TypeOK'
  BY DeltaTotalType, <1>16 DEF TypeOK, Deltas, Agents, Statuses, FlushAmbiguous, Fault, Commit
<1>17. ASSUME NEW p \in Replicas, Crash(p) PROVE TypeOK'
  BY <1>17 DEF TypeOK, Deltas, Agents, Statuses, Crash, Fault, Ended
<1>18. ASSUME NEW a \in Agents, NEW w \in Windows, ReadDurable(a, w) PROVE TypeOK'
  BY <1>18 DEF TypeOK, Deltas, Agents, Statuses, ReadDurable
<1>19. ASSUME NEW a \in Agents, RehydrateError(a) PROVE TypeOK'
  <2>1. straySeeds' \subseteq Seeds
    <3>1. [windows |-> asked[a], snap |-> snap[a]] \in Seeds
      BY DEF TypeOK, Seeds
    <3> QED
      BY <1>19, <3>1 DEF RehydrateError, TypeOK
  <2>2. EndRehydrate(a)
    BY <1>19 DEF RehydrateError
  <2>3. /\ status' \in [Requests -> Statuses]
        /\ degraded' \in [Replicas -> BOOLEAN]
        /\ UNCHANGED <<wake, known>>
    BY <1>19 DEF RehydrateError, TypeOK, Failed, Unenforceable, Statuses
  <2> QED
    BY <1>19, <2>1, <2>2, <2>3, EndRehydrateType DEF RehydrateError, Fault, TypeOK
<1>20. ASSUME NEW w \in Windows, LoseWindow(w) PROVE TypeOK'
  BY <1>20 DEF TypeOK, Deltas, Agents, Statuses, LoseWindow, Fault
<1>21. CASE Replicate
  BY <1>21 DEF TypeOK, Deltas, Agents, Statuses, Replicate
<1>22. CASE Failover
  BY <1>22 DEF TypeOK, Deltas, Agents, Statuses, Failover, Fault
<1>23. CASE UNCHANGED vars
  BY <1>23 DEF TypeOK, vars
<1>24. ASSUME NEW r \in Requests, StrayReserve(r) PROVE TypeOK'
  BY <1>24 DEF TypeOK, StrayReserve, Increment
<1>25. ASSUME NEW r \in Requests, StrayAdjust(r) PROVE TypeOK'
  BY <1>25 DEF TypeOK, StrayAdjust, Correct
<1>26. ASSUME NEW s \in straySeeds, StraySeed(s) PROVE TypeOK'
  <2>1. Raise(s.windows, s.snap) /\ s.windows \in SUBSET Windows /\ s.snap \in [Windows -> Nat]
    BY <1>26 DEF StraySeed, TypeOK, Seeds
  <2>2. counter' \in [Windows -> Int] /\ live' \in SUBSET Windows
    BY <2>1, RaiseType
  <2> QED
    BY <1>26, <2>2 DEF StraySeed, TypeOK
<1> QED
  BY <1>1, <1>2, <1>3, <1>4, <1>5, <1>6, <1>7, <1>8, <1>9, <1>10, <1>11, <1>12, <1>13, <1>14, <1>15, <1>16, <1>17, <1>18, <1>19, <1>20, <1>21, <1>22, <1>23, <1>24, <1>25, <1>26 DEF Next, RequestStep, ReplicaStep, RehydrateStep, StrayStep, RedisStep

\* The initial state is well typed.
LEMMA TypeInit == Init => TypeOK
BY QuotaAssumption DEF Init, TypeOK, Statuses, Deltas

\* Every reachable state of the quota system is well typed: counters stay
\* integers, durable counters natural, statuses and sets in their ranges.
THEOREM TypeCorrect == Spec => []TypeOK
BY TypeInit, TypeStep, PTL DEF Spec

\* Every step keeps a request's status in line with the rest of its state.
LEMMA ControlStep == TypeOK /\ ControlInv /\ StrayInv /\ [Next]_vars => ControlInv'
<1> SUFFICES ASSUME TypeOK, ControlInv, StrayInv, [Next]_vars PROVE ControlInv'
  OBVIOUS
<1> USE QuotaAssumption DEF redisVars, storeVars, procVars, seedVars, strayVars
<1>1. ASSUME NEW r \in Requests, NEW ws \in Spans, NEW c \in Costs, Arrive(r, ws, c) PROVE ControlInv'
  BY <1>1 DEF TypeOK, ControlInv, Statuses, Agents, Arrive
<1>2. ASSUME NEW r \in Requests, ArriveUnchecked(r) PROVE ControlInv'
  BY <1>2 DEF TypeOK, ControlInv, Statuses, Agents, ArriveUnchecked, Unenforceable
<1>3. ASSUME NEW r \in Requests, LimitsUnavailable(r) PROVE ControlInv'
  BY <1>3 DEF TypeOK, ControlInv, Statuses, Agents, LimitsUnavailable, Fault, Failed, Unenforceable
<1>4. ASSUME NEW r \in Requests, ReserveMissing(r) PROVE ControlInv'
  BY <1>4 DEF TypeOK, ControlInv, Statuses, Agents, ReserveMissing
<1>5. ASSUME NEW r \in Requests, ReserveBlocked(r) PROVE ControlInv'
  BY <1>5 DEF TypeOK, ControlInv, Statuses, Agents, ReserveBlocked, Recovered
<1>6. ASSUME NEW r \in Requests, ReserveOK(r) PROVE ControlInv'
  BY <1>6 DEF TypeOK, ControlInv, Statuses, Agents, ReserveOK, Recovered, Increment
<1>7. ASSUME NEW r \in Requests, ReserveError(r) PROVE ControlInv'
  BY <1>7 DEF TypeOK, ControlInv, Statuses, Agents, ReserveError, Fault, Failed, Unenforceable, Increment
<1>8. ASSUME NEW r \in Requests, SeedForRequest(r) PROVE ControlInv'
  BY <1>8 DEF TypeOK, ControlInv, Statuses, Agents, SeedForRequest, Raise, EndRehydrate, Failed, Unenforceable
<1>9. ASSUME NEW r \in Requests, NEW c \in Costs, ReconcileAdjust(r, c) PROVE ControlInv'
  BY <1>9 DEF TypeOK, ControlInv, Statuses, Agents, ReconcileAdjust, Correct, Charge
<1>10. ASSUME NEW r \in Requests, NEW c \in Costs, AdjustError(r, c) PROVE ControlInv'
  BY <1>10 DEF TypeOK, ControlInv, Statuses, Agents, AdjustError, Fault, Correct, Charge
<1>11. ASSUME NEW r \in Requests, NEW w \in Windows, AddDelta(r, w) PROVE ControlInv'
  BY <1>11 DEF TypeOK, ControlInv, Statuses, Agents, AddDelta, Handed
<1>12. ASSUME NEW p \in Replicas, ResyncOnTick(p) PROVE ControlInv'
  BY <1>12 DEF TypeOK, ControlInv, Statuses, Agents, ResyncOnTick
<1>13. ASSUME NEW p \in Replicas, ResyncOnWake(p) PROVE ControlInv'
  BY <1>13 DEF TypeOK, ControlInv, Statuses, Agents, ResyncOnWake
<1>14. ASSUME NEW p \in Replicas, SeedForResync(p) PROVE ControlInv'
  BY <1>14 DEF TypeOK, ControlInv, Statuses, Agents, SeedForResync, Raise, EndRehydrate
<1>15. ASSUME NEW p \in Replicas, NEW B \in SUBSET unflushed[p], Flush(p, B) PROVE ControlInv'
  BY <1>15 DEF TypeOK, ControlInv, Statuses, Agents, Flush, Commit
<1>16. ASSUME NEW p \in Replicas, NEW B \in SUBSET unflushed[p], FlushAmbiguous(p, B) PROVE ControlInv'
  BY <1>16 DEF TypeOK, ControlInv, Statuses, Agents, FlushAmbiguous, Fault, Commit
<1>17. ASSUME NEW p \in Replicas, Crash(p) PROVE ControlInv'
  BY <1>17 DEF TypeOK, ControlInv, Statuses, Agents, Crash, Fault, Ended
<1>18. ASSUME NEW a \in Agents, NEW w \in Windows, ReadDurable(a, w) PROVE ControlInv'
  BY <1>18 DEF TypeOK, ControlInv, Statuses, Agents, ReadDurable
<1>19. ASSUME NEW a \in Agents, RehydrateError(a) PROVE ControlInv'
  BY <1>19 DEF TypeOK, ControlInv, Statuses, Agents, RehydrateError, Fault, Raise, EndRehydrate, Failed, Unenforceable
<1>20. ASSUME NEW w \in Windows, LoseWindow(w) PROVE ControlInv'
  BY <1>20 DEF TypeOK, ControlInv, Statuses, Agents, LoseWindow, Fault
<1>21. CASE Replicate
  BY <1>21 DEF TypeOK, ControlInv, Statuses, Agents, Replicate
<1>22. CASE Failover
  BY <1>22 DEF TypeOK, ControlInv, Statuses, Agents, Failover, Fault
<1>23. CASE UNCHANGED vars
  BY <1>23 DEF TypeOK, ControlInv, Statuses, Agents, vars
<1>24. ASSUME NEW r \in Requests, StrayReserve(r) PROVE ControlInv'
  BY <1>24 DEF TypeOK, ControlInv, StrayInv, Unenforceable, Statuses, Agents, StrayReserve, Increment
<1>25. ASSUME NEW r \in Requests, StrayAdjust(r) PROVE ControlInv'
  BY <1>25 DEF TypeOK, ControlInv, Statuses, Agents, StrayAdjust, Correct
<1>26. ASSUME NEW s \in straySeeds, StraySeed(s) PROVE ControlInv'
  BY <1>26 DEF TypeOK, ControlInv, Statuses, Agents, StraySeed, Raise
<1> QED
  BY <1>1, <1>2, <1>3, <1>4, <1>5, <1>6, <1>7, <1>8, <1>9, <1>10, <1>11, <1>12, <1>13, <1>14, <1>15, <1>16, <1>17, <1>18, <1>19, <1>20, <1>21, <1>22, <1>23, <1>24, <1>25, <1>26 DEF Next, RequestStep, ReplicaStep, RehydrateStep, StrayStep, RedisStep

\* A request whose cost is known stays so, with its windows; one that was given up
\* or served unenforced stays that.
LEMMA StatusMoves ==
  ASSUME TypeOK, ControlInv, [Next]_vars, NEW x \in Requests
  PROVE  /\ Reconciled(x) => Reconciled(x)' /\ span'[x] = span[x]
         /\ status[x] = Unenforceable => status'[x] = Unenforceable
<1> DEFINE Goal == /\ Reconciled(x) => Reconciled(x)' /\ span'[x] = span[x]
                   /\ status[x] = Unenforceable => status'[x] = Unenforceable
<1> USE QuotaAssumption DEF redisVars, storeVars, procVars, seedVars, strayVars
<1>1. ASSUME NEW r \in Requests, NEW ws \in Spans, NEW c \in Costs, Arrive(r, ws, c) PROVE Goal
  BY <1>1 DEF TypeOK, ControlInv, Statuses, Agents, Reconciled, Unenforceable, Arrive
<1>2. ASSUME NEW r \in Requests, ArriveUnchecked(r) PROVE Goal
  BY <1>2 DEF TypeOK, ControlInv, Statuses, Agents, Reconciled, Unenforceable, ArriveUnchecked
<1>3. ASSUME NEW r \in Requests, LimitsUnavailable(r) PROVE Goal
  BY <1>3 DEF TypeOK, ControlInv, Statuses, Agents, Reconciled, Unenforceable, LimitsUnavailable, Failed
<1>4. ASSUME NEW r \in Requests, ReserveMissing(r) PROVE Goal
  BY <1>4 DEF TypeOK, ControlInv, Statuses, Agents, Reconciled, Unenforceable, ReserveMissing
<1>5. ASSUME NEW r \in Requests, ReserveBlocked(r) PROVE Goal
  BY <1>5 DEF TypeOK, ControlInv, Statuses, Agents, Reconciled, Unenforceable, ReserveBlocked
<1>6. ASSUME NEW r \in Requests, ReserveOK(r) PROVE Goal
  BY <1>6 DEF TypeOK, ControlInv, Statuses, Agents, Reconciled, Unenforceable, ReserveOK
<1>7. ASSUME NEW r \in Requests, ReserveError(r) PROVE Goal
  BY <1>7 DEF TypeOK, ControlInv, Statuses, Agents, Reconciled, Unenforceable, ReserveError, Failed
<1>8. ASSUME NEW r \in Requests, SeedForRequest(r) PROVE Goal
  BY <1>8 DEF TypeOK, ControlInv, Statuses, Agents, Reconciled, Unenforceable, SeedForRequest, Failed
<1>9. ASSUME NEW r \in Requests, NEW c \in Costs, ReconcileAdjust(r, c) PROVE Goal
  BY <1>9 DEF TypeOK, ControlInv, Statuses, Agents, Reconciled, Unenforceable, ReconcileAdjust, Charge
<1>10. ASSUME NEW r \in Requests, NEW c \in Costs, AdjustError(r, c) PROVE Goal
  BY <1>10 DEF TypeOK, ControlInv, Statuses, Agents, Reconciled, Unenforceable, AdjustError, Charge
<1>11. ASSUME NEW r \in Requests, NEW w \in Windows, AddDelta(r, w) PROVE Goal
  BY <1>11 DEF TypeOK, ControlInv, Statuses, Agents, Reconciled, Unenforceable, AddDelta, Handed
<1>12. ASSUME NEW p \in Replicas, ResyncOnTick(p) PROVE Goal
  BY <1>12 DEF TypeOK, ControlInv, Statuses, Agents, Reconciled, Unenforceable, ResyncOnTick
<1>13. ASSUME NEW p \in Replicas, ResyncOnWake(p) PROVE Goal
  BY <1>13 DEF TypeOK, ControlInv, Statuses, Agents, Reconciled, Unenforceable, ResyncOnWake
<1>14. ASSUME NEW p \in Replicas, SeedForResync(p) PROVE Goal
  BY <1>14 DEF TypeOK, ControlInv, Statuses, Agents, Reconciled, Unenforceable, SeedForResync
<1>15. ASSUME NEW p \in Replicas, NEW B \in SUBSET unflushed[p], Flush(p, B) PROVE Goal
  BY <1>15 DEF TypeOK, ControlInv, Statuses, Agents, Reconciled, Unenforceable, Flush
<1>16. ASSUME NEW p \in Replicas, NEW B \in SUBSET unflushed[p], FlushAmbiguous(p, B) PROVE Goal
  BY <1>16 DEF TypeOK, ControlInv, Statuses, Agents, Reconciled, Unenforceable, FlushAmbiguous
<1>17. ASSUME NEW p \in Replicas, Crash(p) PROVE Goal
  BY <1>17 DEF TypeOK, ControlInv, Statuses, Agents, Reconciled, Unenforceable, Crash, Ended
<1>18. ASSUME NEW a \in Agents, NEW w \in Windows, ReadDurable(a, w) PROVE Goal
  BY <1>18 DEF TypeOK, ControlInv, Statuses, Agents, Reconciled, Unenforceable, ReadDurable
<1>19. ASSUME NEW a \in Agents, RehydrateError(a) PROVE Goal
  BY <1>19 DEF TypeOK, ControlInv, Statuses, Agents, Reconciled, Unenforceable, RehydrateError, Failed
<1>20. ASSUME NEW w \in Windows, LoseWindow(w) PROVE Goal
  BY <1>20 DEF TypeOK, ControlInv, Statuses, Agents, Reconciled, Unenforceable, LoseWindow
<1>21. ASSUME Replicate PROVE Goal
  BY <1>21 DEF TypeOK, ControlInv, Statuses, Agents, Reconciled, Unenforceable, Replicate
<1>22. ASSUME Failover PROVE Goal
  BY <1>22 DEF TypeOK, ControlInv, Statuses, Agents, Reconciled, Unenforceable, Failover
<1>23. ASSUME UNCHANGED vars PROVE Goal
  BY <1>23 DEF TypeOK, ControlInv, Statuses, Agents, Reconciled, Unenforceable, vars
<1>24. ASSUME NEW r \in Requests, StrayReserve(r) PROVE Goal
  BY <1>24 DEF TypeOK, ControlInv, Statuses, Agents, Reconciled, Unenforceable, StrayReserve
<1>25. ASSUME NEW r \in Requests, StrayAdjust(r) PROVE Goal
  BY <1>25 DEF TypeOK, ControlInv, Statuses, Agents, Reconciled, Unenforceable, StrayAdjust
<1>26. ASSUME NEW s \in straySeeds, StraySeed(s) PROVE Goal
  BY <1>26 DEF TypeOK, ControlInv, Statuses, Agents, Reconciled, Unenforceable, StraySeed
<1> HIDE DEF Goal
<1>27. Goal
  BY <1>1, <1>2, <1>3, <1>4, <1>5, <1>6, <1>7, <1>8, <1>9, <1>10, <1>11, <1>12, <1>13, <1>14, <1>15, <1>16, <1>17, <1>18, <1>19, <1>20, <1>21, <1>22, <1>23, <1>24, <1>25, <1>26 DEF Next, RequestStep, ReplicaStep, RehydrateStep, StrayStep, RedisStep
<1> QED
  BY <1>27 DEF Goal

\* Every step keeps what is known of calls on their way and of corrections that ran.
LEMMA StraysKept == TypeOK /\ ControlInv /\ StrayInv /\ [Next]_vars => StrayInv'
<1> SUFFICES ASSUME TypeOK, ControlInv, StrayInv, [Next]_vars PROVE StrayInv'
  OBVIOUS
<1> USE QuotaAssumption DEF redisVars, storeVars, procVars, seedVars, strayVars
<1>a. \A x \in Requests : /\ Reconciled(x) => Reconciled(x)'
                          /\ status[x] = Unenforceable => status'[x] = Unenforceable
  BY StatusMoves
<1>b. ASSUME UNCHANGED <<strayReserves, strayAdjusts, applied, adjusted, late>> PROVE StrayInv'
  <2>1. Unenforceable' = Unenforceable
    BY DEF Unenforceable
  <2> QED
    BY <1>a, <1>b, <2>1 DEF StrayInv
<1>c. \A x \in Requests : x \in strayReserves => status[x] = Unenforceable
  BY DEF StrayInv
<1>1. ASSUME NEW r \in Requests, NEW ws \in Spans, NEW c \in Costs, Arrive(r, ws, c) PROVE StrayInv'
  BY <1>b, <1>1 DEF Arrive
<1>2. ASSUME NEW r \in Requests, ArriveUnchecked(r) PROVE StrayInv'
  BY <1>b, <1>2 DEF ArriveUnchecked
<1>3. ASSUME NEW r \in Requests, LimitsUnavailable(r) PROVE StrayInv'
  BY <1>b, <1>3 DEF LimitsUnavailable
<1>4. ASSUME NEW r \in Requests, ReserveMissing(r) PROVE StrayInv'
  BY <1>b, <1>4 DEF ReserveMissing
<1>5. ASSUME NEW r \in Requests, ReserveBlocked(r) PROVE StrayInv'
  BY <1>b, <1>5 DEF ReserveBlocked
<1>6. ASSUME NEW r \in Requests, ReserveOK(r) PROVE StrayInv'
  <2> SUFFICES ASSUME NEW x \in Requests
               PROVE  (/\ x \in strayReserves => status[x] = Unenforceable /\ x \notin applied
                       /\ x \in strayAdjusts => x \in applied /\ Reconciled(x) /\ x \notin adjusted
                       /\ x \in adjusted => Reconciled(x)
                       /\ \A w \in Windows : <<x, w>> \in late => x \in adjusted)'
    BY DEF StrayInv
  <2>1. /\ x \in strayReserves => status[x] = Unenforceable /\ x \notin applied
        /\ x \in strayAdjusts => x \in applied /\ Reconciled(x) /\ x \notin adjusted
        /\ x \in adjusted => Reconciled(x)
        /\ \A w \in Windows : <<x, w>> \in late => x \in adjusted
    BY DEF StrayInv
  <2>2. /\ Reconciled(x) => Reconciled(x)'
        /\ status[x] = Unenforceable => status'[x] = Unenforceable'
    BY <1>a DEF Unenforceable
  <2>3. x # r \/ x \notin strayReserves
    BY <1>6, <2>1 DEF ReserveOK, Unenforceable
  <2> QED
    BY <1>6, <2>1, <2>2, <2>3 DEF ReserveOK, Increment
<1>7. ASSUME NEW r \in Requests, ReserveError(r) PROVE StrayInv'
  <2> SUFFICES ASSUME NEW x \in Requests
               PROVE  (/\ x \in strayReserves => status[x] = Unenforceable /\ x \notin applied
                       /\ x \in strayAdjusts => x \in applied /\ Reconciled(x) /\ x \notin adjusted
                       /\ x \in adjusted => Reconciled(x)
                       /\ \A w \in Windows : <<x, w>> \in late => x \in adjusted)'
    BY DEF StrayInv
  <2>1. /\ x \in strayReserves => status[x] = Unenforceable /\ x \notin applied
        /\ x \in strayAdjusts => x \in applied /\ Reconciled(x) /\ x \notin adjusted
        /\ x \in adjusted => Reconciled(x)
        /\ \A w \in Windows : <<x, w>> \in late => x \in adjusted
    BY DEF StrayInv
  <2>2. /\ Reconciled(x) => Reconciled(x)'
        /\ status[x] = Unenforceable => status'[x] = Unenforceable'
    BY <1>a DEF Unenforceable
  <2>3. status'[r] = Unenforceable' /\ r \notin applied
    BY <1>7 DEF ReserveError, Failed, TypeOK, ControlInv, Unenforceable
  <2> QED
    BY <1>7, <2>1, <2>2, <2>3 DEF ReserveError
<1>8. ASSUME NEW r \in Requests, SeedForRequest(r) PROVE StrayInv'
  BY <1>b, <1>8 DEF SeedForRequest
<1>9. ASSUME NEW r \in Requests, NEW c \in Costs, ReconcileAdjust(r, c) PROVE StrayInv'
  <2> SUFFICES ASSUME NEW x \in Requests
               PROVE  (/\ x \in strayReserves => status[x] = Unenforceable /\ x \notin applied
                       /\ x \in strayAdjusts => x \in applied /\ Reconciled(x) /\ x \notin adjusted
                       /\ x \in adjusted => Reconciled(x)
                       /\ \A w \in Windows : <<x, w>> \in late => x \in adjusted)'
    BY DEF StrayInv
  <2>1. /\ x \in strayReserves => status[x] = Unenforceable /\ x \notin applied
        /\ x \in strayAdjusts => x \in applied /\ Reconciled(x) /\ x \notin adjusted
        /\ x \in adjusted => Reconciled(x)
        /\ \A w \in Windows : <<x, w>> \in late => x \in adjusted
    BY DEF StrayInv
  <2>2. /\ Reconciled(x) => Reconciled(x)'
        /\ status[x] = Unenforceable => status'[x] = Unenforceable'
    BY <1>a DEF Unenforceable
  <2>3. Reconciled(r)' /\ ~Reconciled(r)
    BY <1>9 DEF ReconcileAdjust, Charge, Reconciled, TypeOK, ControlInv, Statuses
  <2> QED
    BY <1>9, <2>1, <2>2, <2>3 DEF ReconcileAdjust, Correct
<1>10. ASSUME NEW r \in Requests, NEW c \in Costs, AdjustError(r, c) PROVE StrayInv'
  <2> SUFFICES ASSUME NEW x \in Requests
               PROVE  (/\ x \in strayReserves => status[x] = Unenforceable /\ x \notin applied
                       /\ x \in strayAdjusts => x \in applied /\ Reconciled(x) /\ x \notin adjusted
                       /\ x \in adjusted => Reconciled(x)
                       /\ \A w \in Windows : <<x, w>> \in late => x \in adjusted)'
    BY DEF StrayInv
  <2>1. /\ x \in strayReserves => status[x] = Unenforceable /\ x \notin applied
        /\ x \in strayAdjusts => x \in applied /\ Reconciled(x) /\ x \notin adjusted
        /\ x \in adjusted => Reconciled(x)
        /\ \A w \in Windows : <<x, w>> \in late => x \in adjusted
    BY DEF StrayInv
  <2>2. /\ Reconciled(x) => Reconciled(x)'
        /\ status[x] = Unenforceable => status'[x] = Unenforceable'
    BY <1>a DEF Unenforceable
  <2>3. Reconciled(r)' /\ ~Reconciled(r) /\ r \in applied
    BY <1>10 DEF AdjustError, Charge, Reconciled, TypeOK, ControlInv, Statuses
  <2> QED
    BY <1>10, <2>1, <2>2, <2>3 DEF AdjustError
<1>11. ASSUME NEW r \in Requests, NEW w \in Windows, AddDelta(r, w) PROVE StrayInv'
  BY <1>b, <1>11 DEF AddDelta
<1>12. ASSUME NEW p \in Replicas, ResyncOnTick(p) PROVE StrayInv'
  BY <1>b, <1>12 DEF ResyncOnTick
<1>13. ASSUME NEW p \in Replicas, ResyncOnWake(p) PROVE StrayInv'
  BY <1>b, <1>13 DEF ResyncOnWake
<1>14. ASSUME NEW p \in Replicas, SeedForResync(p) PROVE StrayInv'
  BY <1>b, <1>14 DEF SeedForResync
<1>15. ASSUME NEW p \in Replicas, NEW B \in SUBSET unflushed[p], Flush(p, B) PROVE StrayInv'
  BY <1>b, <1>15 DEF Flush
<1>16. ASSUME NEW p \in Replicas, NEW B \in SUBSET unflushed[p], FlushAmbiguous(p, B) PROVE StrayInv'
  BY <1>b, <1>16 DEF FlushAmbiguous
<1>17. ASSUME NEW p \in Replicas, Crash(p) PROVE StrayInv'
  BY <1>b, <1>17 DEF Crash
<1>18. ASSUME NEW a \in Agents, NEW w \in Windows, ReadDurable(a, w) PROVE StrayInv'
  BY <1>b, <1>18 DEF ReadDurable
<1>19. ASSUME NEW a \in Agents, RehydrateError(a) PROVE StrayInv'
  BY <1>b, <1>19 DEF RehydrateError
<1>20. ASSUME NEW w \in Windows, LoseWindow(w) PROVE StrayInv'
  BY <1>b, <1>20 DEF LoseWindow
<1>21. ASSUME Replicate PROVE StrayInv'
  BY <1>b, <1>21 DEF Replicate
<1>22. ASSUME Failover PROVE StrayInv'
  BY <1>b, <1>22 DEF Failover
<1>23. ASSUME UNCHANGED vars PROVE StrayInv'
  BY <1>b, <1>23 DEF vars
<1>24. ASSUME NEW r \in Requests, StrayReserve(r) PROVE StrayInv'
  <2> SUFFICES ASSUME NEW x \in Requests
               PROVE  (/\ x \in strayReserves => status[x] = Unenforceable /\ x \notin applied
                       /\ x \in strayAdjusts => x \in applied /\ Reconciled(x) /\ x \notin adjusted
                       /\ x \in adjusted => Reconciled(x)
                       /\ \A w \in Windows : <<x, w>> \in late => x \in adjusted)'
    BY DEF StrayInv
  <2>1. /\ x \in strayReserves => status[x] = Unenforceable /\ x \notin applied
        /\ x \in strayAdjusts => x \in applied /\ Reconciled(x) /\ x \notin adjusted
        /\ x \in adjusted => Reconciled(x)
        /\ \A w \in Windows : <<x, w>> \in late => x \in adjusted
    BY DEF StrayInv
  <2>2. /\ Reconciled(x) => Reconciled(x)'
        /\ status[x] = Unenforceable => status'[x] = Unenforceable'
    BY <1>a DEF Unenforceable
  <2>3. x \in strayReserves' => x # r
    BY <1>24 DEF StrayReserve
  <2> QED
    BY <1>24, <2>1, <2>2, <2>3 DEF StrayReserve, Increment
<1>25. ASSUME NEW r \in Requests, StrayAdjust(r) PROVE StrayInv'
  <2> SUFFICES ASSUME NEW x \in Requests
               PROVE  (/\ x \in strayReserves => status[x] = Unenforceable /\ x \notin applied
                       /\ x \in strayAdjusts => x \in applied /\ Reconciled(x) /\ x \notin adjusted
                       /\ x \in adjusted => Reconciled(x)
                       /\ \A w \in Windows : <<x, w>> \in late => x \in adjusted)'
    BY DEF StrayInv
  <2>1. /\ x \in strayReserves => status[x] = Unenforceable /\ x \notin applied
        /\ x \in strayAdjusts => x \in applied /\ Reconciled(x) /\ x \notin adjusted
        /\ x \in adjusted => Reconciled(x)
        /\ \A w \in Windows : <<x, w>> \in late => x \in adjusted
    BY DEF StrayInv
  <2>2. /\ Reconciled(x) => Reconciled(x)'
        /\ status[x] = Unenforceable => status'[x] = Unenforceable'
    BY <1>a DEF Unenforceable
  <2>3. x \in strayAdjusts' => x # r
    BY <1>25 DEF StrayAdjust
  <2>4. Reconciled(r)
    BY <1>25 DEF StrayAdjust, StrayInv
  <2>5. \A w \in Windows : <<x, w>> \in late' => <<x, w>> \in late \/ x = r
    BY <1>25 DEF StrayAdjust
  <2>6. adjusted' = adjusted \cup {r}
    BY <1>25 DEF StrayAdjust, Correct
  <2> QED
    BY <1>25, <2>1, <2>2, <2>3, <2>4, <2>5, <2>6 DEF StrayAdjust
<1>26. ASSUME NEW s \in straySeeds, StraySeed(s) PROVE StrayInv'
  BY <1>b, <1>26 DEF StraySeed
<1> QED
  BY <1>1, <1>2, <1>3, <1>4, <1>5, <1>6, <1>7, <1>8, <1>9, <1>10, <1>11, <1>12, <1>13, <1>14, <1>15, <1>16, <1>17, <1>18, <1>19, <1>20, <1>21, <1>22, <1>23, <1>24, <1>25, <1>26 DEF Next, RequestStep, ReplicaStep, RehydrateStep, StrayStep, RedisStep

\* Every step keeps deltas traceable to reconciled requests.
LEMMA DeltaStep == TypeOK /\ ControlInv /\ DeltaInv /\ [Next]_vars => DeltaInv'
<1> SUFFICES ASSUME TypeOK, ControlInv, DeltaInv, [Next]_vars PROVE DeltaInv'
  OBVIOUS
<1> USE QuotaAssumption DEF redisVars, storeVars, procVars, seedVars, strayVars
<1>1. ASSUME NEW r \in Requests, NEW ws \in Spans, NEW c \in Costs, Arrive(r, ws, c) PROVE DeltaInv'
  BY <1>1 DEF TypeOK, ControlInv, DeltaInv, Owes, Reconciled, Deltas, Arrive
<1>2. ASSUME NEW r \in Requests, ArriveUnchecked(r) PROVE DeltaInv'
  BY <1>2 DEF TypeOK, ControlInv, DeltaInv, Owes, Reconciled, Deltas, ArriveUnchecked, Unenforceable
<1>3. ASSUME NEW r \in Requests, LimitsUnavailable(r) PROVE DeltaInv'
  BY <1>3 DEF TypeOK, ControlInv, DeltaInv, Owes, Reconciled, Deltas, LimitsUnavailable, Fault, Failed, Unenforceable
<1>4. ASSUME NEW r \in Requests, ReserveMissing(r) PROVE DeltaInv'
  BY <1>4 DEF TypeOK, ControlInv, DeltaInv, Owes, Reconciled, Deltas, ReserveMissing
<1>5. ASSUME NEW r \in Requests, ReserveBlocked(r) PROVE DeltaInv'
  BY <1>5 DEF TypeOK, ControlInv, DeltaInv, Owes, Reconciled, Deltas, ReserveBlocked, Recovered
<1>6. ASSUME NEW r \in Requests, ReserveOK(r) PROVE DeltaInv'
  BY <1>6 DEF TypeOK, ControlInv, DeltaInv, Owes, Reconciled, Deltas, ReserveOK, Recovered, Increment
<1>7. ASSUME NEW r \in Requests, ReserveError(r) PROVE DeltaInv'
  BY <1>7 DEF TypeOK, ControlInv, DeltaInv, Owes, Reconciled, Deltas, ReserveError, Fault, Failed, Unenforceable, Increment
<1>8. ASSUME NEW r \in Requests, SeedForRequest(r) PROVE DeltaInv'
  BY <1>8 DEF TypeOK, ControlInv, DeltaInv, Owes, Reconciled, Deltas, SeedForRequest, Raise, EndRehydrate, Failed, Unenforceable
<1>9. ASSUME NEW r \in Requests, NEW c \in Costs, ReconcileAdjust(r, c) PROVE DeltaInv'
  BY <1>9 DEF TypeOK, ControlInv, DeltaInv, Owes, Reconciled, Deltas, ReconcileAdjust, Correct, Charge
<1>10. ASSUME NEW r \in Requests, NEW c \in Costs, AdjustError(r, c) PROVE DeltaInv'
  BY <1>10 DEF TypeOK, ControlInv, DeltaInv, Owes, Reconciled, Deltas, AdjustError, Fault, Correct, Charge
<1>11. ASSUME NEW r \in Requests, NEW w \in Windows, AddDelta(r, w) PROVE DeltaInv'
  <2> SUFFICES ASSUME NEW x \in Requests, NEW v \in Windows
               PROVE  /\ (<<x, v>> \in landed => Owes(x, v))'
                      /\ \A p \in Replicas : (<<x, v>> \in unflushed[p] => Owes(x, v))'
    BY DEF DeltaInv
  <2>1. Owes(x, v) => Owes(x, v)'
    BY <1>11 DEF AddDelta, Handed, Owes, Reconciled, TypeOK, ControlInv
  <2>2. Owes(r, w)
    BY <1>11 DEF AddDelta, Handed, Owes, Reconciled, TypeOK, ControlInv
  <2>3. ASSUME NEW p \in Replicas, <<x, v>> \in unflushed'[p]
        PROVE  <<x, v>> \in unflushed[p] \/ <<x, v>> = <<r, w>>
    <3>1. CASE unflushed' = [unflushed EXCEPT ![Host[r]] = @ \cup {<<r, w>>}]
      <4>1. unflushed'[p] \subseteq unflushed[p] \cup {<<r, w>>}
        BY <3>1 DEF TypeOK
      <4> QED
        BY <2>3, <4>1
    <3>2. CASE unflushed' = unflushed
      BY <2>3, <3>2
    <3> QED
      BY <1>11, <3>1, <3>2 DEF AddDelta
  <2>4. ASSUME NEW p \in Replicas, <<x, v>> \in unflushed'[p] PROVE Owes(x, v)
    BY <2>2, <2>3, <2>4 DEF DeltaInv
  <2>5. landed' = landed
    BY <1>11 DEF AddDelta
  <2> QED
    BY <2>1, <2>4, <2>5 DEF DeltaInv
<1>12. ASSUME NEW p \in Replicas, ResyncOnTick(p) PROVE DeltaInv'
  BY <1>12 DEF TypeOK, ControlInv, DeltaInv, Owes, Reconciled, Deltas, ResyncOnTick
<1>13. ASSUME NEW p \in Replicas, ResyncOnWake(p) PROVE DeltaInv'
  BY <1>13 DEF TypeOK, ControlInv, DeltaInv, Owes, Reconciled, Deltas, ResyncOnWake
<1>14. ASSUME NEW p \in Replicas, SeedForResync(p) PROVE DeltaInv'
  BY <1>14 DEF TypeOK, ControlInv, DeltaInv, Owes, Reconciled, Deltas, SeedForResync, Raise, EndRehydrate
<1>15. ASSUME NEW p \in Replicas, NEW B \in SUBSET unflushed[p], Flush(p, B) PROVE DeltaInv'
  BY <1>15 DEF TypeOK, ControlInv, DeltaInv, Owes, Reconciled, Deltas, Flush, Commit
<1>16. ASSUME NEW p \in Replicas, NEW B \in SUBSET unflushed[p], FlushAmbiguous(p, B) PROVE DeltaInv'
  BY <1>16 DEF TypeOK, ControlInv, DeltaInv, Owes, Reconciled, Deltas, FlushAmbiguous, Fault, Commit
<1>17. ASSUME NEW p \in Replicas, Crash(p) PROVE DeltaInv'
  BY <1>17 DEF TypeOK, ControlInv, DeltaInv, Owes, Reconciled, Deltas, Crash, Fault, Ended
<1>18. ASSUME NEW a \in Agents, NEW w \in Windows, ReadDurable(a, w) PROVE DeltaInv'
  BY <1>18 DEF TypeOK, ControlInv, DeltaInv, Owes, Reconciled, Deltas, ReadDurable
<1>19. ASSUME NEW a \in Agents, RehydrateError(a) PROVE DeltaInv'
  BY <1>19 DEF TypeOK, ControlInv, DeltaInv, Owes, Reconciled, Deltas, RehydrateError, Fault, Raise, EndRehydrate, Failed, Unenforceable
<1>20. ASSUME NEW w \in Windows, LoseWindow(w) PROVE DeltaInv'
  BY <1>20 DEF TypeOK, ControlInv, DeltaInv, Owes, Reconciled, Deltas, LoseWindow, Fault
<1>21. CASE Replicate
  BY <1>21 DEF TypeOK, ControlInv, DeltaInv, Owes, Reconciled, Deltas, Replicate
<1>22. CASE Failover
  BY <1>22 DEF TypeOK, ControlInv, DeltaInv, Owes, Reconciled, Deltas, Failover, Fault
<1>23. CASE UNCHANGED vars
  BY <1>23 DEF TypeOK, ControlInv, DeltaInv, Owes, Reconciled, Deltas, vars
<1>24. ASSUME NEW r \in Requests, StrayReserve(r) PROVE DeltaInv'
  BY <1>24 DEF TypeOK, ControlInv, DeltaInv, Owes, Reconciled, Deltas, StrayReserve, Increment
<1>25. ASSUME NEW r \in Requests, StrayAdjust(r) PROVE DeltaInv'
  BY <1>25 DEF TypeOK, ControlInv, DeltaInv, Owes, Reconciled, Deltas, StrayAdjust, Correct
<1>26. ASSUME NEW s \in straySeeds, StraySeed(s) PROVE DeltaInv'
  BY <1>26 DEF TypeOK, ControlInv, DeltaInv, Owes, Reconciled, Deltas, StraySeed, Raise
<1> QED
  BY <1>1, <1>2, <1>3, <1>4, <1>5, <1>6, <1>7, <1>8, <1>9, <1>10, <1>11, <1>12, <1>13, <1>14, <1>15, <1>16, <1>17, <1>18, <1>19, <1>20, <1>21, <1>22, <1>23, <1>24, <1>25, <1>26 DEF Next, RequestStep, ReplicaStep, RehydrateStep, StrayStep, RedisStep

\* Committing a batch only adds to the durable counters.
LEMMA CommitGrows ==
  ASSUME TypeOK, NEW B, Commit(B), NEW w \in Windows
  PROVE  durable'[w] \in Nat /\ durable[w] <= durable'[w]
<1>1. DeltaTotal(B, w) \in Nat
  BY DeltaTotalType
<1>2. durable'[w] = durable[w] + DeltaTotal(B, w)
  BY DEF Commit
<1> QED
  BY <1>1, <1>2 DEF TypeOK

\* The durable counters never decrease.
LEMMA DurableGrows ==
  ASSUME TypeOK, [Next]_vars, NEW w \in Windows
  PROVE  durable'[w] \in Nat /\ durable[w] <= durable'[w]
<1>1. ASSUME NEW B, Commit(B) PROVE durable'[w] \in Nat /\ durable[w] <= durable'[w]
  BY <1>1, CommitGrows
<1>2. CASE durable' = durable
  BY <1>2 DEF TypeOK
<1>3. durable' = durable \/ \E B : Commit(B)
  BY DEF Next, vars, RequestStep, ReplicaStep, RehydrateStep, StrayStep, RedisStep, redisVars,
         storeVars, procVars, seedVars, strayVars, Arrive, ArriveUnchecked, LimitsUnavailable,
         ReserveMissing, ReserveBlocked, ReserveOK, ReserveError, SeedForRequest,
         ReconcileAdjust, AdjustError, AddDelta, ResyncOnTick, ResyncOnWake,
         SeedForResync, Flush, FlushAmbiguous, Crash, ReadDurable, RehydrateError,
         StrayReserve, StrayAdjust, StraySeed, LoseWindow, Replicate, Failover
<1> QED
  BY <1>1, <1>2, <1>3

\* A snapshot is left alone, forgotten, or just read.
LEMMA SnapshotChange ==
  ASSUME TypeOK, [Next]_vars, NEW a \in Agents, NEW w \in Windows
  PROVE  snap'[a][w] \in {snap[a][w], 0, durable[w]}
<1> USE DEF redisVars, storeVars, procVars, seedVars, strayVars, TypeOK
<1>1. ASSUME NEW b \in Agents, EndRehydrate(b) PROVE snap'[a][w] \in {snap[a][w], 0}
  <2>1. snap' = [snap EXCEPT ![b] = [v \in Windows |-> 0]]
    BY <1>1 DEF EndRehydrate
  <2>2. CASE a = b
    <3>1. snap'[a] = [v \in Windows |-> 0]
      BY <2>1, <2>2
    <3> QED
      BY <3>1
  <2>3. CASE a # b
    BY <2>1, <2>3
  <2> QED
    BY <2>2, <2>3
<1>2. ASSUME NEW r \in Requests, RequestStep(r)
      PROVE  snap' = snap \/ EndRehydrate(r)
  BY <1>2 DEF RequestStep, Arrive, ArriveUnchecked, LimitsUnavailable, ReserveMissing,
              ReserveBlocked, ReserveOK, ReserveError, SeedForRequest,
              ReconcileAdjust, AdjustError, AddDelta
<1>3. ASSUME NEW p \in Replicas, ReplicaStep(p), ~Crash(p)
      PROVE  snap' = snap \/ EndRehydrate(p)
  BY <1>3 DEF ReplicaStep, ResyncOnTick, ResyncOnWake, SeedForResync, Flush,
              FlushAmbiguous
<1>4. ASSUME NEW p \in Replicas, Crash(p) PROVE snap'[a][w] \in {snap[a][w], 0}
  BY <1>4 DEF Crash
<1>5. ASSUME NEW b \in Agents, RehydrateError(b) PROVE EndRehydrate(b)
  BY <1>5 DEF RehydrateError
<1>6. ASSUME NEW b \in Agents, NEW v \in Windows, ReadDurable(b, v)
      PROVE  snap'[a][w] \in {snap[a][w], durable[w]}
  <2>1. snap' = [snap EXCEPT ![b][v] = durable[v]]
    BY <1>6 DEF ReadDurable
  <2>2. snap'[a] = IF a = b THEN [snap[a] EXCEPT ![v] = durable[v]] ELSE snap[a]
    BY <2>1
  <2> QED
    BY <2>2
<1>7. CASE RedisStep \/ StrayStep
  BY <1>7 DEF RedisStep, LoseWindow, Replicate, Failover, StrayStep, StrayReserve, StrayAdjust, StraySeed
<1>8. CASE UNCHANGED vars
  BY <1>8 DEF vars
<1>9. \A r \in Requests : r \in Agents
  BY DEF Agents
<1>10. \A p \in Replicas : p \in Agents
  BY DEF Agents
<1> QED
  BY <1>1, <1>2, <1>3, <1>4, <1>5, <1>6, <1>7, <1>8, <1>9, <1>10 DEF Next, RehydrateStep

\* A seed that is on its way was on its way before, or has a rehydration's snapshot.
LEMMA SeedsChange ==
  ASSUME TypeOK, [Next]_vars, NEW s \in straySeeds'
  PROVE  s \in straySeeds \/ \E a \in Agents : s.snap = snap[a]
<1> USE DEF redisVars, storeVars, procVars, seedVars, strayVars
<1>1. ASSUME NEW a \in Agents, RehydrateError(a) PROVE s \in straySeeds \/ s.snap = snap[a]
  BY <1>1 DEF RehydrateError
<1>2. CASE straySeeds' \subseteq straySeeds
  BY <1>2
<1>3. straySeeds' \subseteq straySeeds \/ \E a \in Agents : RehydrateError(a)
  BY DEF Next, vars, RequestStep, ReplicaStep, RehydrateStep, StrayStep, RedisStep,
         Arrive, ArriveUnchecked, LimitsUnavailable,
         ReserveMissing, ReserveBlocked, ReserveOK, ReserveError, SeedForRequest,
         ReconcileAdjust, AdjustError, AddDelta, ResyncOnTick, ResyncOnWake,
         SeedForResync, Flush, FlushAmbiguous, Crash, ReadDurable,
         StrayReserve, StrayAdjust, StraySeed, LoseWindow, Replicate, Failover
<1> QED
  BY <1>1, <1>2, <1>3

\* Every step keeps every snapshot at or below the durable counter.
LEMMA SnapshotStep == TypeOK /\ SnapshotInv /\ [Next]_vars => SnapshotInv'
<1> SUFFICES ASSUME TypeOK, SnapshotInv, [Next]_vars, NEW w \in Windows
             PROVE  /\ \A a \in Agents : snap'[a][w] <= durable'[w]
                    /\ \A s \in straySeeds' : s.snap[w] <= durable'[w]
  BY DEF SnapshotInv, Agents
<1>1. durable[w] <= durable'[w] /\ durable'[w] \in Nat /\ durable[w] \in Nat
  BY DurableGrows DEF TypeOK
<1>2. ASSUME NEW a \in Agents PROVE snap'[a][w] <= durable'[w]
  <2>1. snap'[a][w] \in {snap[a][w], 0, durable[w]}
    BY SnapshotChange
  <2>2. snap[a][w] <= durable[w] /\ snap[a][w] \in Nat
    BY DEF SnapshotInv, TypeOK
  <2> QED
    BY <1>1, <2>1, <2>2
<1>3. ASSUME NEW s \in straySeeds' PROVE s.snap[w] <= durable'[w]
  <2>1. CASE s \in straySeeds
    <3>1. s.snap[w] <= durable[w] /\ s.snap[w] \in Nat
      BY <2>1 DEF SnapshotInv, TypeOK, Seeds
    <3> QED
      BY <1>1, <3>1
  <2>2. ASSUME NEW a \in Agents, s.snap = snap[a] PROVE s.snap[w] <= durable'[w]
    <3>1. snap[a][w] <= durable[w] /\ snap[a][w] \in Nat
      BY DEF SnapshotInv, TypeOK
    <3> QED
      BY <1>1, <2>2, <3>1
  <2> QED
    BY <2>1, <2>2, SeedsChange
<1> QED
  BY <1>2, <1>3

\* A committed batch is accounted for: what it repeats goes to dup, the rest
\* was not in Postgres before.
LEMMA CommitAccounted ==
  ASSUME TypeOK, DurableAccounted, NEW B, Commit(B), UNCHANGED actual
  PROVE  DurableAccounted'
<1> SUFFICES ASSUME NEW w \in Windows
             PROVE  durable'[w] = DeltaTotal(landed, w)' + dup'[w]
  BY DEF DurableAccounted
<1> DEFINE weigh(D) == [r \in Requests |-> IF <<r, w>> \in D THEN actual[r] ELSE 0]
           old   == weigh(landed)
           batch == weigh(B)
           again == weigh(B \cap landed)
           fresh == weigh(B \ landed)
           new   == weigh(landed \cup B)
<1>1. /\ old \in [Requests -> Nat] /\ batch \in [Requests -> Nat]
      /\ again \in [Requests -> Nat] /\ fresh \in [Requests -> Nat]
      /\ new \in [Requests -> Nat]
  BY DEF TypeOK
<1>2. \A r \in Requests : \/ old[r] = 0 /\ new[r] = fresh[r]
                          \/ fresh[r] = 0 /\ new[r] = old[r]
  OBVIOUS
<1>3. \A r \in Requests : \/ again[r] = 0 /\ batch[r] = fresh[r]
                          \/ fresh[r] = 0 /\ batch[r] = again[r]
  OBVIOUS
<1>4. durable[w] = Total(Requests, old) + dup[w]
  BY DEF DurableAccounted, DeltaTotal
<1>5. durable'[w] = durable[w] + Total(Requests, batch)
  BY DEF Commit, DeltaTotal
<1>6. dup'[w] = dup[w] + Total(Requests, again)
  BY DEF Commit, DeltaTotal
<1>7. DeltaTotal(landed, w)' = Total(Requests, new)
  BY DEF Commit, DeltaTotal
<1>8. durable[w] \in Nat /\ dup[w] \in Nat
  BY DEF TypeOK
<1> HIDE DEF old, batch, again, fresh, new
<1>9. Total(Requests, new) = Total(Requests, old) + Total(Requests, fresh)
  BY <1>1, <1>2, QuotaAssumption, TotalSplit
<1>10. Total(Requests, batch) = Total(Requests, again) + Total(Requests, fresh)
  BY <1>1, <1>3, QuotaAssumption, TotalSplit
<1>11. /\ Total(Requests, old) \in Nat /\ Total(Requests, fresh) \in Nat
       /\ Total(Requests, again) \in Nat
  BY <1>1, QuotaAssumption, TotalType
<1> QED
  BY <1>4, <1>5, <1>6, <1>7, <1>8, <1>9, <1>10, <1>11

\* Learning what a request cost does not change what has landed.
LEMMA ChargeAccounted ==
  ASSUME TypeOK, ControlInv, DeltaInv, DurableAccounted, NEW r \in Requests, NEW c \in Nat,
         status[r] = "admitted", Charge(r, c), UNCHANGED storeVars
  PROVE  DurableAccounted'
<1> SUFFICES ASSUME NEW w \in Windows
             PROVE  DeltaTotal(landed, w)' = DeltaTotal(landed, w)
  BY DEF DurableAccounted, storeVars
<1>1. <<r, w>> \notin landed
  BY DEF DeltaInv, Owes, Reconciled, ControlInv, Statuses
<1>2. \A x \in Requests : actual'[x] = IF x = r THEN c ELSE actual[x]
  BY DEF Charge, TypeOK
<1>3. landed' = landed
  BY DEF storeVars
<1>4. [x \in Requests |-> IF <<x, w>> \in landed THEN actual[x] ELSE 0]'
        = [x \in Requests |-> IF <<x, w>> \in landed THEN actual[x] ELSE 0]
  BY <1>1, <1>2, <1>3
<1> QED
  BY <1>4 DEF DeltaTotal

\* Every step keeps the durable counters accounted for.
LEMMA DurableStep ==
  TypeOK /\ ControlInv /\ DeltaInv /\ DurableAccounted /\ [Next]_vars => DurableAccounted'
<1> SUFFICES ASSUME TypeOK, ControlInv, DeltaInv, DurableAccounted, [Next]_vars
             PROVE  DurableAccounted'
  OBVIOUS
<1>1. CASE UNCHANGED <<durable, landed, dup, actual>>
  BY <1>1 DEF DurableAccounted, DeltaTotal
<1>2. ASSUME NEW B, Commit(B), UNCHANGED actual PROVE DurableAccounted'
  BY <1>2, CommitAccounted
<1>3. ASSUME NEW r \in Requests, NEW c \in Costs, status[r] = "admitted", Charge(r, c),
             UNCHANGED storeVars
      PROVE  DurableAccounted'
  BY <1>3, ChargeAccounted, QuotaAssumption
<1>4. \/ UNCHANGED <<durable, landed, dup, actual>>
      \/ \E B : Commit(B) /\ UNCHANGED actual
      \/ \E r \in Requests, c \in Costs :
           status[r] = "admitted" /\ Charge(r, c) /\ UNCHANGED storeVars
  BY DEF Next, vars, RequestStep, ReplicaStep, RehydrateStep, StrayStep, RedisStep, redisVars,
         storeVars, procVars, seedVars, strayVars, Arrive, ArriveUnchecked, LimitsUnavailable,
         ReserveMissing, ReserveBlocked, ReserveOK, ReserveError, SeedForRequest,
         ReconcileAdjust, AdjustError, AddDelta, ResyncOnTick, ResyncOnWake,
         SeedForResync, Flush, FlushAmbiguous, Crash, ReadDurable, RehydrateError,
         StrayReserve, StrayAdjust, StraySeed, LoseWindow, Replicate, Failover
<1> QED
  BY <1>1, <1>2, <1>3, <1>4

(***************************************************************************)
(* The sums of a window.  A step of the system is one of four kinds: it    *)
(* counts a request in the live counters, it charges one, it corrects one  *)
(* that its Reconcile gave up on, or it leaves what is owed alone.         *)
(***************************************************************************)

\* reserve.lua counts r: every window of r has a counter with room for it.
Admits(r) ==
  /\ r \notin applied /\ ~Reconciled(r)
  /\ \A x \in Requests : Reconciled(x)' <=> Reconciled(x)
  /\ span[r] \subseteq live
  /\ Crossed(r) = {}
  /\ Increment(r)
  /\ UNCHANGED <<span, reserved, actual, adjusted, live, intact, backup, landed, late, dup>>

\* Reconcile learns that r cost c; adjust.lua corrects the counters or fails.
Charges(r, c) ==
  /\ status[r] = "admitted"
  /\ Charge(r, c)
  /\ Correct(r, c) \/ UNCHANGED <<counter, adjusted>>
  /\ UNCHANGED <<span, reserved, applied, live, intact, backup, landed, late, dup>>

\* seed.lua runs with some snapshot.
Seeding ==
  \E ws \in SUBSET Windows, s \in [Windows -> Nat] :
    /\ \A w \in Windows : s[w] <= durable[w]
    /\ Raise(ws, s)

\* What is owed stays; a counter Redis keeps is raised by seed.lua or unchanged.
Quiet ==
  /\ UNCHANGED <<applied, actual, adjusted, late>>
  /\ landed \subseteq landed'
  /\ \A x \in Requests : status[x] # "new" => span'[x] = span[x] /\ reserved'[x] = reserved[x]
  /\ \A x \in Requests : Reconciled(x)' <=> Reconciled(x)
  /\ \A w \in Windows : /\ dup[w] <= dup'[w]
                        /\ backup'.counter[w] \in {backup.counter[w], counter[w]}
  /\ intact' \subseteq intact
  /\ \/ Seeding
     \/ \A w \in Windows :
          /\ counter'[w] \in {counter[w], backup.counter[w], 0}
          /\ w \in intact' => counter'[w] = counter[w] /\ (w \in live' <=> w \in live)

\* Every step is of one of the four kinds.
LEMMA StepKind ==
  ASSUME IndInv, [Next]_vars
  PROVE  \/ Quiet
         \/ \E r \in Requests : Admits(r)
         \/ \E r \in Requests, c \in Nat : Charges(r, c)
         \/ \E r \in Requests : StrayAdjust(r)
<1> DEFINE Goal == \/ Quiet
                   \/ \E r \in Requests : Admits(r)
                   \/ \E r \in Requests, c \in Nat : Charges(r, c)
                   \/ \E r \in Requests : StrayAdjust(r)
<1> USE QuotaAssumption DEF redisVars, storeVars, procVars, seedVars, strayVars
<1>a. TypeOK /\ ControlInv /\ StrayInv
  BY DEF IndInv
<1>b. \A w \in Windows : dup[w] \in Nat
  BY <1>a DEF TypeOK
<1>c. ASSUME NEW a \in Agents, Raise(asked[a], snap[a]) PROVE Seeding
  BY <1>a, <1>c DEF IndInv, TypeOK, SnapshotInv, Seeding
<1>f. ASSUME UNCHANGED <<applied, actual, adjusted, status, span, reserved, dup, landed, late,
                         counter, live, backup, intact>>
      PROVE  Goal
  BY <1>b, <1>f DEF Quiet, Reconciled
<1>g. ASSUME UNCHANGED <<applied, actual, adjusted, span, reserved, dup, landed, late, backup, intact>>,
             UNCHANGED <<counter, live>> \/ Seeding,
             \A x \in Requests : Reconciled(x)' <=> Reconciled(x)
      PROVE  Goal
  BY <1>b, <1>g DEF Quiet
<1>h. ASSUME NEW B, Commit(B), UNCHANGED <<applied, actual, adjusted, status, span, reserved,
                                           late, counter, live, backup, intact>>
      PROVE  Goal
  <2>1. ASSUME NEW w \in Windows PROVE dup[w] <= dup'[w]
    <3>1. dup'[w] = dup[w] + DeltaTotal(B \cap landed, w)
      BY <1>h DEF Commit
    <3>2. DeltaTotal(B \cap landed, w) \in Nat
      BY <1>a, DeltaTotalType
    <3> QED
      BY <1>b, <3>1, <3>2
  <2>2. landed \subseteq landed'
    BY <1>h DEF Commit
  <2> QED
    BY <1>h, <2>1, <2>2 DEF Quiet, Reconciled
<1>i. ASSUME NEW r \in Requests, Failed(r), status[r] \in {"new", "reserving", "rehydrating"},
             UNCHANGED actual
      PROVE  \A x \in Requests : Reconciled(x)' <=> Reconciled(x)
  BY <1>a, <1>i DEF Failed, Unenforceable, Reconciled, TypeOK
<1>1. ASSUME NEW r \in Requests, NEW ws \in Spans, NEW c \in Costs, Arrive(r, ws, c) PROVE Goal
  BY <1>a, <1>b, <1>1 DEF Arrive, TypeOK, Quiet, Reconciled
<1>2. ASSUME NEW r \in Requests, ArriveUnchecked(r) PROVE Goal
  <2>1. \A x \in Requests : Reconciled(x)' <=> Reconciled(x)
    BY <1>a, <1>2 DEF ArriveUnchecked, Unenforceable, Reconciled, TypeOK
  <2> QED
    BY <1>g, <1>2, <2>1 DEF ArriveUnchecked
<1>3. ASSUME NEW r \in Requests, LimitsUnavailable(r) PROVE Goal
  BY <1>g, <1>i, <1>3 DEF LimitsUnavailable
<1>4. ASSUME NEW r \in Requests, ReserveMissing(r) PROVE Goal
  <2>1. \A x \in Requests : Reconciled(x)' <=> Reconciled(x)
    BY <1>a, <1>4 DEF ReserveMissing, Reconciled, TypeOK
  <2> QED
    BY <1>g, <1>4, <2>1 DEF ReserveMissing
<1>5. ASSUME NEW r \in Requests, ReserveBlocked(r) PROVE Goal
  <2>1. \A x \in Requests : Reconciled(x)' <=> Reconciled(x)
    BY <1>a, <1>5 DEF ReserveBlocked, Reconciled, TypeOK
  <2> QED
    BY <1>g, <1>5, <2>1 DEF ReserveBlocked
<1>6. ASSUME NEW r \in Requests, ReserveOK(r) PROVE Goal
  <2>1. r \notin applied /\ ~Reconciled(r) /\ \A x \in Requests : Reconciled(x)' <=> Reconciled(x)
    BY <1>a, <1>6 DEF ReserveOK, Reconciled, TypeOK, ControlInv, Statuses
  <2> QED
    BY <1>6, <2>1 DEF ReserveOK, Admits
<1>7. ASSUME NEW r \in Requests, ReserveError(r) PROVE Goal
  BY <1>g, <1>i, <1>7 DEF ReserveError
<1>8. ASSUME NEW r \in Requests, SeedForRequest(r) PROVE Goal
  <2>1. status[r] = "rehydrating"
    BY <1>a, <1>8 DEF SeedForRequest, ControlInv
  <2>2. Seeding
    BY <1>c, <1>8 DEF SeedForRequest, Agents
  <2>3. CASE Failed(r)
    BY <1>g, <1>i, <1>8, <2>1, <2>2, <2>3 DEF SeedForRequest
  <2>4. CASE status' = [status EXCEPT ![r] = "reserving"]
    <3>1. \A x \in Requests : Reconciled(x)' <=> Reconciled(x)
      BY <1>a, <1>8, <2>1, <2>4 DEF SeedForRequest, Reconciled, TypeOK
    <3> QED
      BY <1>g, <1>8, <2>2, <3>1 DEF SeedForRequest
  <2> QED
    BY <1>8, <2>3, <2>4 DEF SeedForRequest
<1>9. ASSUME NEW r \in Requests, NEW c \in Costs, ReconcileAdjust(r, c) PROVE Goal
  BY <1>9 DEF ReconcileAdjust, Charges
<1>10. ASSUME NEW r \in Requests, NEW c \in Costs, AdjustError(r, c) PROVE Goal
  BY <1>10 DEF AdjustError, Charges
<1>11. ASSUME NEW r \in Requests, NEW w \in Windows, AddDelta(r, w) PROVE Goal
  <2>1. \A x \in Requests : Reconciled(x)' <=> Reconciled(x)
    BY <1>a, <1>11 DEF AddDelta, Handed, Reconciled, TypeOK, ControlInv
  <2> QED
    BY <1>g, <1>11, <2>1 DEF AddDelta
<1>12. ASSUME NEW p \in Replicas, ResyncOnTick(p) PROVE Goal
  BY <1>f, <1>12 DEF ResyncOnTick
<1>13. ASSUME NEW p \in Replicas, ResyncOnWake(p) PROVE Goal
  BY <1>f, <1>13 DEF ResyncOnWake
<1>14. ASSUME NEW p \in Replicas, SeedForResync(p) PROVE Goal
  <2>1. Seeding /\ \A x \in Requests : Reconciled(x)' <=> Reconciled(x)
    BY <1>c, <1>14 DEF SeedForResync, Reconciled, Agents
  <2> QED
    BY <1>g, <1>14, <2>1 DEF SeedForResync
<1>15. ASSUME NEW p \in Replicas, NEW B \in SUBSET unflushed[p], Flush(p, B) PROVE Goal
  BY <1>h, <1>15 DEF Flush
<1>16. ASSUME NEW p \in Replicas, NEW B \in SUBSET unflushed[p], FlushAmbiguous(p, B) PROVE Goal
  BY <1>h, <1>16 DEF FlushAmbiguous
<1>17. ASSUME NEW p \in Replicas, Crash(p) PROVE Goal
  <2>1. \A x \in Requests : Reconciled(x)' <=> Reconciled(x)
    BY <1>a, <1>17 DEF Crash, Ended, Reconciled, TypeOK, ControlInv
  <2> QED
    BY <1>g, <1>17, <2>1 DEF Crash
<1>18. ASSUME NEW a \in Agents, NEW w \in Windows, ReadDurable(a, w) PROVE Goal
  BY <1>f, <1>18 DEF ReadDurable
<1>19. ASSUME NEW a \in Agents, RehydrateError(a) PROVE Goal
  <2>1. \A x \in Requests : Reconciled(x)' <=> Reconciled(x)
    <3>1. CASE a \in Requests /\ Failed(a)
      BY <1>a, <1>i, <1>19, <3>1 DEF RehydrateError, ControlInv
    <3>2. CASE UNCHANGED status
      BY <1>19, <3>2 DEF RehydrateError, Reconciled
    <3> QED
      BY <1>19, <3>1, <3>2 DEF RehydrateError
  <2> QED
    BY <1>g, <1>19, <2>1 DEF RehydrateError
<1>20. ASSUME NEW w \in Windows, LoseWindow(w) PROVE Goal
  <2>1. \A x \in Windows : /\ counter'[x] \in {counter[x], 0}
                           /\ x \in intact' => counter'[x] = counter[x] /\ (x \in live' <=> x \in live)
    BY <1>a, <1>20 DEF LoseWindow, TypeOK
  <2> QED
    BY <1>b, <1>20, <2>1 DEF LoseWindow, Quiet, Reconciled
<1>21. ASSUME Replicate PROVE Goal
  BY <1>b, <1>21 DEF Replicate, Quiet, Reconciled
<1>22. ASSUME Failover PROVE Goal
  <2>1. \A x \in Windows : /\ counter'[x] = backup.counter[x]
                           /\ x \in intact' => counter'[x] = counter[x] /\ (x \in live' <=> x \in live)
    BY <1>a, <1>22 DEF Failover, TypeOK
  <2> QED
    BY <1>b, <1>22, <2>1 DEF Failover, Quiet, Reconciled
<1>23. ASSUME UNCHANGED vars PROVE Goal
  BY <1>f, <1>23 DEF vars
<1>24. ASSUME NEW r \in Requests, StrayReserve(r) PROVE Goal
  <2>1. r \notin applied /\ ~Reconciled(r) /\ \A x \in Requests : Reconciled(x)' <=> Reconciled(x)
    BY <1>a, <1>24 DEF StrayReserve, StrayInv, Unenforceable, Reconciled, TypeOK, ControlInv, Statuses
  <2>2. CASE UNCHANGED <<counter, applied>>
    BY <1>f, <1>24, <2>2 DEF StrayReserve
  <2>3. CASE span[r] \subseteq live /\ Crossed(r) = {} /\ Increment(r)
    BY <1>24, <2>1, <2>3 DEF StrayReserve, Admits
  <2> QED
    BY <1>24, <2>2, <2>3 DEF StrayReserve
<1>25. ASSUME NEW r \in Requests, StrayAdjust(r) PROVE Goal
  BY <1>25
<1>26. ASSUME NEW s \in straySeeds, StraySeed(s) PROVE Goal
  <2>1. s.windows \in SUBSET Windows /\ s.snap \in [Windows -> Nat] /\ \A w \in Windows : s.snap[w] <= durable[w]
    BY <1>a DEF IndInv, SnapshotInv, TypeOK, Seeds
  <2>2. Seeding
    BY <1>26, <2>1 DEF StraySeed, Seeding
  <2>3. \A x \in Requests : Reconciled(x)' <=> Reconciled(x)
    BY <1>26 DEF StraySeed, Reconciled
  <2> QED
    BY <1>g, <1>26, <2>2, <2>3 DEF StraySeed
<1> HIDE DEF Goal
<1>27. Goal
  BY <1>1, <1>2, <1>3, <1>4, <1>5, <1>6, <1>7, <1>8, <1>9, <1>10, <1>11, <1>12, <1>13, <1>14, <1>15, <1>16, <1>17, <1>18, <1>19, <1>20, <1>21, <1>22, <1>23, <1>24, <1>25, <1>26 DEF Next, RequestStep, ReplicaStep, RehydrateStep, StrayStep, RedisStep
<1> QED
  BY <1>27 DEF Goal

\* The sums of a window are natural numbers.
LEMMA SumsType ==
  ASSUME TypeOK, NEW w \in Windows
  PROVE  /\ Peak(w) \in [Requests -> Nat] /\ Total(Requests, Peak(w)) \in Nat
         /\ Charged(w) \in [Requests -> Nat] /\ Total(Requests, Charged(w)) \in Nat
         /\ Late(w) \in [Requests -> Nat] /\ Total(Requests, Late(w)) \in Nat
         /\ Committed(w) \in [Requests -> Nat] /\ Total(Requests, Committed(w)) \in Nat
         /\ Overrun(w) \in [Requests -> Nat] /\ Total(Requests, Overrun(w)) \in Nat
         /\ Held(w) \in [Requests -> Nat] /\ Total(Requests, Held(w)) \in Nat
         /\ Seeded(w) \in [Requests -> Nat] /\ Total(Requests, Seeded(w)) \in Nat
<1>1. Peak(w) \in [Requests -> Nat] /\ Charged(w) \in [Requests -> Nat]
  BY DEF TypeOK, Peak, Charged, MaxOf
<1>2. Overrun(w) \in [Requests -> Nat]
  BY DEF TypeOK, Overrun
<1>3. Late(w) \in [Requests -> Nat]
  BY <1>2 DEF Late
<1>4. Committed(w) \in [Requests -> Nat] /\ Held(w) \in [Requests -> Nat]
  BY DEF TypeOK, Committed, Held
<1>5. Seeded(w) \in [Requests -> Nat]
  BY DEF TypeOK, Seeded, MaxOf
<1> QED
  BY <1>1, <1>2, <1>3, <1>4, <1>5, QuotaAssumption, TotalType

\* SumsType, of the next state.
LEMMA SumsTypeNext ==
  ASSUME TypeOK', NEW w \in Windows
  PROVE  /\ Charged(w)' \in [Requests -> Nat] /\ Late(w)' \in [Requests -> Nat]
         /\ Committed(w)' \in [Requests -> Nat] /\ Overrun(w)' \in [Requests -> Nat]
         /\ Held(w)' \in [Requests -> Nat] /\ Seeded(w)' \in [Requests -> Nat]
<1>1. Charged(w)' \in [Requests -> Nat]
  BY DEF TypeOK, Charged, MaxOf
<1>2. Overrun(w)' \in [Requests -> Nat]
  BY DEF TypeOK, Overrun
<1>3. Late(w)' \in [Requests -> Nat]
  BY <1>2 DEF Late
<1>4. Committed(w)' \in [Requests -> Nat] /\ Held(w)' \in [Requests -> Nat]
  BY DEF TypeOK, Committed, Held
<1>5. Seeded(w)' \in [Requests -> Nat]
  BY DEF TypeOK, Seeded, MaxOf
<1> QED
  BY <1>1, <1>2, <1>3, <1>4, <1>5

\* TotalUpdate, for a change by d.
LEMMA TotalMoves ==
  ASSUME NEW f \in [Requests -> Nat], NEW g \in [Requests -> Nat], NEW r \in Requests,
         \A x \in Requests \ {r} : g[x] = f[x], NEW d \in Int, g[r] = f[r] + d
  PROVE  Total(Requests, g) = Total(Requests, f) + d
<1>1. /\ Total(Requests, f) \in Nat
      /\ Total(Requests, g) = Total(Requests, f) + (g[r] - f[r])
  BY QuotaAssumption, TotalUpdate
<1>2. f[r] \in Nat
  OBVIOUS
<1> QED
  BY <1>1, <1>2

\* A quiet step leaves what is owed and held alone, and only adds to what seeds may raise.
LEMMA QuietSums ==
  ASSUME TypeOK, TypeOK', ControlInv, Quiet, NEW w \in Windows
  PROVE  /\ Total(Requests, Committed(w))' = Total(Requests, Committed(w))
         /\ Total(Requests, Overrun(w))' = Total(Requests, Overrun(w))
         /\ Total(Requests, Late(w))' = Total(Requests, Late(w))
         /\ Total(Requests, Held(w))' = Total(Requests, Held(w))
         /\ Total(Requests, Seeded(w)) <= Total(Requests, Seeded(w))'
         /\ Total(Requests, Charged(w)) <= Total(Requests, Charged(w))'
<1>1. \A x \in Requests : x \in applied => span'[x] = span[x] /\ reserved'[x] = reserved[x]
  BY DEF Quiet, ControlInv
<1>2. /\ UNCHANGED <<applied, actual, adjusted, late>> /\ landed \subseteq landed'
      /\ \A x \in Requests : Reconciled(x)' <=> Reconciled(x)
  BY DEF Quiet
<1>3. Committed(w)' = Committed(w)
  BY <1>1, <1>2 DEF Committed
<1>4. Overrun(w)' = Overrun(w)
  BY <1>1, <1>2 DEF Overrun
<1>5. Late(w)' = Late(w)
  BY <1>2, <1>4 DEF Late
<1>6. Held(w)' = Held(w)
  BY <1>1, <1>2 DEF Held
<1> DEFINE s0 == Seeded(w)   s1 == Seeded(w)'
           g0 == Charged(w)  g1 == Charged(w)'
<1>7. /\ s0 \in [Requests -> Nat] /\ s1 \in [Requests -> Nat]
      /\ g0 \in [Requests -> Nat] /\ g1 \in [Requests -> Nat]
  BY SumsType, SumsTypeNext
<1>8. \A x \in Requests : s0[x] <= s1[x]
  BY <1>1, <1>2 DEF Seeded, MaxOf, TypeOK
<1>9. \A x \in Requests : g0[x] <= g1[x]
  BY <1>1, <1>2 DEF Charged, MaxOf, TypeOK
<1> HIDE DEF s0, s1, g0, g1
<1>10. Total(Requests, s0) <= Total(Requests, s1) /\ Total(Requests, g0) <= Total(Requests, g1)
  BY <1>7, <1>8, <1>9, QuotaAssumption, TotalMono
<1> QED
  BY <1>3, <1>4, <1>5, <1>6, <1>10 DEF s0, s1, g0, g1

\* Counting a request adds its reservation to what is owed and held.
LEMMA AdmitsSums ==
  ASSUME TypeOK, TypeOK', ControlInv, StrayInv, NEW r \in Requests, Admits(r), NEW w \in Windows,
         NEW n, n = IF w \in span[r] THEN reserved[r] ELSE 0
  PROVE  /\ Total(Requests, Committed(w))' = Total(Requests, Committed(w)) + n
         /\ Total(Requests, Overrun(w))' = Total(Requests, Overrun(w))
         /\ Total(Requests, Late(w))' = Total(Requests, Late(w))
         /\ Total(Requests, Held(w))' = Total(Requests, Held(w)) + n
         /\ Total(Requests, Seeded(w))' = Total(Requests, Seeded(w)) + n
         /\ Total(Requests, Charged(w))' = Total(Requests, Charged(w)) + n
<1> DEFINE c0 == Committed(w)  c1 == Committed(w)'
           o0 == Overrun(w)  o1 == Overrun(w)'
           l0 == Late(w)  l1 == Late(w)'
           h0 == Held(w)  h1 == Held(w)'
           s0 == Seeded(w)  s1 == Seeded(w)'
           g0 == Charged(w)  g1 == Charged(w)'
<1>1. /\ r \notin applied /\ ~Reconciled(r) /\ actual[r] = 0 /\ reserved[r] \in Nat /\ r \notin adjusted
  BY DEF Admits, ControlInv, Reconciled, StrayInv, TypeOK
<1>2. /\ applied' = applied \cup {r} /\ UNCHANGED <<span, reserved, actual, adjusted, landed, late>>
      /\ \A x \in Requests : Reconciled(x)' <=> Reconciled(x)
  BY DEF Admits, Increment
<1>3. /\ c0 \in [Requests -> Nat] /\ c1 \in [Requests -> Nat]
      /\ o0 \in [Requests -> Nat] /\ o1 \in [Requests -> Nat]
      /\ l0 \in [Requests -> Nat] /\ l1 \in [Requests -> Nat]
      /\ h0 \in [Requests -> Nat] /\ h1 \in [Requests -> Nat]
      /\ s0 \in [Requests -> Nat] /\ s1 \in [Requests -> Nat]
      /\ g0 \in [Requests -> Nat] /\ g1 \in [Requests -> Nat]
  BY SumsType, SumsTypeNext
<1>4. \A x \in Requests \ {r} : c1[x] = c0[x]
  BY <1>2 DEF Committed
<1>5. \A x \in Requests \ {r} : o1[x] = o0[x]
  BY <1>2 DEF Overrun
<1>6. \A x \in Requests \ {r} : l1[x] = l0[x]
  BY <1>2 DEF Late, Overrun
<1>7. \A x \in Requests \ {r} : h1[x] = h0[x]
  BY <1>2 DEF Held
<1>8. \A x \in Requests \ {r} : s1[x] = s0[x]
  BY <1>2 DEF Seeded
<1>9. \A x \in Requests \ {r} : g1[x] = g0[x]
  BY <1>2 DEF Charged
<1>10. c1[r] = c0[r] + n
  BY <1>1, <1>2 DEF Committed
<1>11. o1[r] = o0[r] + 0
  BY <1>1, <1>2 DEF Overrun
<1>12. l1[r] = l0[r] + 0
  BY <1>1, <1>2 DEF Late, Overrun
<1>13. h1[r] = h0[r] + n
  BY <1>1, <1>2 DEF Held
<1>14. s1[r] = s0[r] + n
  BY <1>1, <1>2 DEF Seeded, MaxOf
<1>15. g1[r] = g0[r] + n
  BY <1>1, <1>2 DEF Charged, MaxOf
<1>16. n \in Int /\ 0 \in Int
  BY <1>1
<1> HIDE DEF c0, c1, o0, o1, l0, l1, h0, h1, s0, s1, g0, g1
<1>17. Total(Requests, c1) = Total(Requests, c0) + n
  <2>1. c0 \in [Requests -> Nat] /\ c1 \in [Requests -> Nat] /\ n \in Int
    BY <1>3, <1>16
  <2> QED
    BY <2>1, <1>4, <1>10, TotalMoves
<1>18. Total(Requests, o1) = Total(Requests, o0) + 0
  <2>1. o0 \in [Requests -> Nat] /\ o1 \in [Requests -> Nat] /\ 0 \in Int
    BY <1>3, <1>16
  <2> QED
    BY <2>1, <1>5, <1>11, TotalMoves
<1>19. Total(Requests, l1) = Total(Requests, l0) + 0
  <2>1. l0 \in [Requests -> Nat] /\ l1 \in [Requests -> Nat] /\ 0 \in Int
    BY <1>3, <1>16
  <2> QED
    BY <2>1, <1>6, <1>12, TotalMoves
<1>20. Total(Requests, h1) = Total(Requests, h0) + n
  <2>1. h0 \in [Requests -> Nat] /\ h1 \in [Requests -> Nat] /\ n \in Int
    BY <1>3, <1>16
  <2> QED
    BY <2>1, <1>7, <1>13, TotalMoves
<1>21. Total(Requests, s1) = Total(Requests, s0) + n
  <2>1. s0 \in [Requests -> Nat] /\ s1 \in [Requests -> Nat] /\ n \in Int
    BY <1>3, <1>16
  <2> QED
    BY <2>1, <1>8, <1>14, TotalMoves
<1>22. Total(Requests, g1) = Total(Requests, g0) + n
  <2>1. g0 \in [Requests -> Nat] /\ g1 \in [Requests -> Nat] /\ n \in Int
    BY <1>3, <1>16
  <2> QED
    BY <2>1, <1>9, <1>15, TotalMoves
<1>23. /\ Total(Requests, o0) \in Nat
       /\ Total(Requests, l0) \in Nat
  BY <1>3, QuotaAssumption, TotalType
<1> QED
  BY <1>17, <1>18, <1>19, <1>20, <1>21, <1>22, <1>23 DEF c0, c1, o0, o1, l0, l1, h0, h1, s0, s1, g0, g1

\* Charging a request replaces its reservation by its cost; what exceeds the
\* reservation is overrun.  The other sums follow only if the script ran.
LEMMA ChargesSums ==
  ASSUME TypeOK, TypeOK', ControlInv, StrayInv, DeltaInv, NEW r \in Requests, NEW c \in Nat,
         Charges(r, c), NEW w \in Windows, NEW d, NEW o, NEW dr, NEW or,
         d = IF w \in span[r] THEN c - reserved[r] ELSE 0,
         o = IF w \in span[r] THEN MaxOf(reserved[r], c) - reserved[r] ELSE 0,
         dr = IF r \in adjusted' THEN d ELSE 0,
         or = IF r \in adjusted' THEN o ELSE 0
  PROVE  /\ Total(Requests, Committed(w))' = Total(Requests, Committed(w)) + d
         /\ Total(Requests, Overrun(w))' = Total(Requests, Overrun(w)) + o
         /\ Total(Requests, Late(w))' = Total(Requests, Late(w))
         /\ Total(Requests, Held(w))' = Total(Requests, Held(w)) + dr
         /\ Total(Requests, Seeded(w))' = Total(Requests, Seeded(w)) + dr
         /\ Total(Requests, Charged(w))' = Total(Requests, Charged(w)) + or
<1> DEFINE c0 == Committed(w)  c1 == Committed(w)'
           o0 == Overrun(w)  o1 == Overrun(w)'
           l0 == Late(w)  l1 == Late(w)'
           h0 == Held(w)  h1 == Held(w)'
           s0 == Seeded(w)  s1 == Seeded(w)'
           g0 == Charged(w)  g1 == Charged(w)'
<1>1. /\ r \in applied /\ ~Reconciled(r) /\ actual[r] = 0 /\ reserved[r] \in Nat /\ r \notin adjusted
      /\ <<r, w>> \notin landed /\ <<r, w>> \notin late
  BY DEF Charges, ControlInv, Statuses, Reconciled, StrayInv, DeltaInv, Owes, TypeOK
<1>2. /\ UNCHANGED <<span, reserved, applied, landed, late>>
      /\ adjusted' = adjusted \/ adjusted' = adjusted \cup {r}
  BY DEF Charges, Correct
<1>3. \A x \in Requests : actual'[x] = IF x = r THEN c ELSE actual[x]
  BY DEF Charges, Charge, TypeOK
<1>4. Reconciled(r)' /\ \A x \in Requests \ {r} : Reconciled(x)' <=> Reconciled(x)
  BY <1>3 DEF Charges, Charge, Reconciled, TypeOK
<1>5. /\ c0 \in [Requests -> Nat] /\ c1 \in [Requests -> Nat]
      /\ o0 \in [Requests -> Nat] /\ o1 \in [Requests -> Nat]
      /\ l0 \in [Requests -> Nat] /\ l1 \in [Requests -> Nat]
      /\ h0 \in [Requests -> Nat] /\ h1 \in [Requests -> Nat]
      /\ s0 \in [Requests -> Nat] /\ s1 \in [Requests -> Nat]
      /\ g0 \in [Requests -> Nat] /\ g1 \in [Requests -> Nat]
  BY SumsType, SumsTypeNext
<1>6. \A x \in Requests \ {r} : c1[x] = c0[x]
  BY <1>2, <1>3, <1>4 DEF Committed
<1>7. \A x \in Requests \ {r} : o1[x] = o0[x]
  BY <1>2, <1>3, <1>4 DEF Overrun
<1>8. \A x \in Requests \ {r} : l1[x] = l0[x]
  BY <1>2, <1>3, <1>4 DEF Late, Overrun
<1>9. \A x \in Requests \ {r} : h1[x] = h0[x]
  BY <1>2, <1>3, <1>4 DEF Held
<1>10. \A x \in Requests \ {r} : s1[x] = s0[x]
  BY <1>2, <1>3, <1>4 DEF Seeded
<1>11. \A x \in Requests \ {r} : g1[x] = g0[x]
  BY <1>2, <1>3, <1>4 DEF Charged
<1>12. c1[r] = c0[r] + d
  BY <1>1, <1>2, <1>3, <1>4 DEF Committed, MaxOf
<1>13. o1[r] = o0[r] + o
  BY <1>1, <1>2, <1>3, <1>4 DEF Overrun, MaxOf
<1>14. l1[r] = l0[r] + 0
  BY <1>1, <1>2, <1>3, <1>4 DEF Late, Overrun, MaxOf
<1>15. h1[r] = h0[r] + dr
  BY <1>1, <1>2, <1>3, <1>4 DEF Held, MaxOf
<1>16. s1[r] = s0[r] + dr
  BY <1>1, <1>2, <1>3, <1>4 DEF Seeded, MaxOf
<1>17. g1[r] = g0[r] + or
  BY <1>1, <1>2, <1>3, <1>4 DEF Charged, MaxOf
<1>18. d \in Int /\ o \in Int /\ dr \in Int /\ or \in Int /\ 0 \in Int
  BY <1>1 DEF MaxOf
<1> HIDE DEF c0, c1, o0, o1, l0, l1, h0, h1, s0, s1, g0, g1
<1>19. Total(Requests, c1) = Total(Requests, c0) + d
  <2>1. c0 \in [Requests -> Nat] /\ c1 \in [Requests -> Nat] /\ d \in Int
    BY <1>5, <1>18
  <2> QED
    BY <2>1, <1>6, <1>12, TotalMoves
<1>20. Total(Requests, o1) = Total(Requests, o0) + o
  <2>1. o0 \in [Requests -> Nat] /\ o1 \in [Requests -> Nat] /\ o \in Int
    BY <1>5, <1>18
  <2> QED
    BY <2>1, <1>7, <1>13, TotalMoves
<1>21. Total(Requests, l1) = Total(Requests, l0) + 0
  <2>1. l0 \in [Requests -> Nat] /\ l1 \in [Requests -> Nat] /\ 0 \in Int
    BY <1>5, <1>18
  <2> QED
    BY <2>1, <1>8, <1>14, TotalMoves
<1>22. Total(Requests, h1) = Total(Requests, h0) + dr
  <2>1. h0 \in [Requests -> Nat] /\ h1 \in [Requests -> Nat] /\ dr \in Int
    BY <1>5, <1>18
  <2> QED
    BY <2>1, <1>9, <1>15, TotalMoves
<1>23. Total(Requests, s1) = Total(Requests, s0) + dr
  <2>1. s0 \in [Requests -> Nat] /\ s1 \in [Requests -> Nat] /\ dr \in Int
    BY <1>5, <1>18
  <2> QED
    BY <2>1, <1>10, <1>16, TotalMoves
<1>24. Total(Requests, g1) = Total(Requests, g0) + or
  <2>1. g0 \in [Requests -> Nat] /\ g1 \in [Requests -> Nat] /\ or \in Int
    BY <1>5, <1>18
  <2> QED
    BY <2>1, <1>11, <1>17, TotalMoves
<1>25. /\ Total(Requests, l0) \in Nat
  BY <1>5, QuotaAssumption, TotalType
<1> QED
  BY <1>19, <1>20, <1>21, <1>22, <1>23, <1>24, <1>25 DEF c0, c1, o0, o1, l0, l1, h0, h1, s0, s1, g0, g1

\* A correction that runs late is held in place of the reservation; when the cost had
\* reached Postgres first, what it overran by is late.
LEMMA CorrectsSums ==
  ASSUME TypeOK, TypeOK', StrayInv, DeltaInv, NEW r \in Requests, StrayAdjust(r), NEW w \in Windows,
         NEW d, NEW o, NEW g, NEW l,
         d = IF w \in span[r] THEN actual[r] - reserved[r] ELSE 0,
         o = IF w \in span[r] THEN MaxOf(reserved[r], actual[r]) - reserved[r] ELSE 0,
         g = IF <<r, w>> \in landed THEN 0 ELSE o,
         l = IF <<r, w>> \in landed /\ w \in live THEN o ELSE 0
  PROVE  /\ Total(Requests, Committed(w))' = Total(Requests, Committed(w))
         /\ Total(Requests, Overrun(w))' = Total(Requests, Overrun(w))
         /\ Total(Requests, Late(w))' = Total(Requests, Late(w)) + l
         /\ Total(Requests, Held(w))' = Total(Requests, Held(w)) + d
         /\ Total(Requests, Seeded(w))' = Total(Requests, Seeded(w)) + (d - (o - g))
         /\ Total(Requests, Charged(w))' = Total(Requests, Charged(w)) + g
<1> DEFINE c0 == Committed(w)  c1 == Committed(w)'
           o0 == Overrun(w)  o1 == Overrun(w)'
           l0 == Late(w)  l1 == Late(w)'
           h0 == Held(w)  h1 == Held(w)'
           s0 == Seeded(w)  s1 == Seeded(w)'
           g0 == Charged(w)  g1 == Charged(w)'
<1>1. /\ r \in applied /\ reserved[r] \in Nat /\ actual[r] \in Nat /\ r \notin adjusted
      /\ <<r, w>> \notin late
  BY DEF StrayAdjust, StrayInv, TypeOK
<1>2. /\ UNCHANGED <<status, span, reserved, actual, applied, landed>>
      /\ adjusted' = adjusted \cup {r}
  BY DEF StrayAdjust, Correct
<1>3. \A x \in Requests : <<x, w>> \in late' <=> \/ <<x, w>> \in late
                                                 \/ x = r /\ <<r, w>> \in landed /\ w \in live
  BY DEF StrayAdjust
<1>4. \A x \in Requests : Reconciled(x)' <=> Reconciled(x)
  BY <1>2 DEF Reconciled
<1>5. /\ c0 \in [Requests -> Nat] /\ c1 \in [Requests -> Nat]
      /\ o0 \in [Requests -> Nat] /\ o1 \in [Requests -> Nat]
      /\ l0 \in [Requests -> Nat] /\ l1 \in [Requests -> Nat]
      /\ h0 \in [Requests -> Nat] /\ h1 \in [Requests -> Nat]
      /\ s0 \in [Requests -> Nat] /\ s1 \in [Requests -> Nat]
      /\ g0 \in [Requests -> Nat] /\ g1 \in [Requests -> Nat]
  BY SumsType, SumsTypeNext
<1>6. \A x \in Requests \ {r} : c1[x] = c0[x]
  BY <1>2, <1>3, <1>4 DEF Committed
<1>7. \A x \in Requests \ {r} : o1[x] = o0[x]
  BY <1>2, <1>3, <1>4 DEF Overrun
<1>8. \A x \in Requests \ {r} : l1[x] = l0[x]
  BY <1>2, <1>3, <1>4 DEF Late, Overrun
<1>9. \A x \in Requests \ {r} : h1[x] = h0[x]
  BY <1>2, <1>3, <1>4 DEF Held
<1>10. \A x \in Requests \ {r} : s1[x] = s0[x]
  BY <1>2, <1>3, <1>4 DEF Seeded
<1>11. \A x \in Requests \ {r} : g1[x] = g0[x]
  BY <1>2, <1>3, <1>4 DEF Charged
<1>12. c1[r] = c0[r] + 0
  BY <1>1, <1>2, <1>3, <1>4 DEF Committed, MaxOf
<1>13. o1[r] = o0[r] + 0
  BY <1>1, <1>2, <1>3, <1>4 DEF Overrun, MaxOf
<1>14. l1[r] = l0[r] + l
  BY <1>1, <1>2, <1>3, <1>4 DEF Late, Overrun, MaxOf
<1>15. h1[r] = h0[r] + d
  BY <1>1, <1>2, <1>3, <1>4 DEF Held, MaxOf
<1>16. s1[r] = s0[r] + (d - (o - g))
  BY <1>1, <1>2, <1>3, <1>4 DEF Seeded, MaxOf
<1>17. g1[r] = g0[r] + g
  BY <1>1, <1>2, <1>3, <1>4 DEF Charged, MaxOf
<1>18. d \in Int /\ o \in Int /\ g \in Int /\ l \in Int /\ d - (o - g) \in Int /\ 0 \in Int
  BY <1>1 DEF MaxOf
<1> HIDE DEF c0, c1, o0, o1, l0, l1, h0, h1, s0, s1, g0, g1
<1>19. Total(Requests, c1) = Total(Requests, c0) + 0
  <2>1. c0 \in [Requests -> Nat] /\ c1 \in [Requests -> Nat] /\ 0 \in Int
    BY <1>5, <1>18
  <2> QED
    BY <2>1, <1>6, <1>12, TotalMoves
<1>20. Total(Requests, o1) = Total(Requests, o0) + 0
  <2>1. o0 \in [Requests -> Nat] /\ o1 \in [Requests -> Nat] /\ 0 \in Int
    BY <1>5, <1>18
  <2> QED
    BY <2>1, <1>7, <1>13, TotalMoves
<1>21. Total(Requests, l1) = Total(Requests, l0) + l
  <2>1. l0 \in [Requests -> Nat] /\ l1 \in [Requests -> Nat] /\ l \in Int
    BY <1>5, <1>18
  <2> QED
    BY <2>1, <1>8, <1>14, TotalMoves
<1>22. Total(Requests, h1) = Total(Requests, h0) + d
  <2>1. h0 \in [Requests -> Nat] /\ h1 \in [Requests -> Nat] /\ d \in Int
    BY <1>5, <1>18
  <2> QED
    BY <2>1, <1>9, <1>15, TotalMoves
<1>23. Total(Requests, s1) = Total(Requests, s0) + (d - (o - g))
  <2>1. s0 \in [Requests -> Nat] /\ s1 \in [Requests -> Nat] /\ (d - (o - g)) \in Int
    BY <1>5, <1>18
  <2> QED
    BY <2>1, <1>10, <1>16, TotalMoves
<1>24. Total(Requests, g1) = Total(Requests, g0) + g
  <2>1. g0 \in [Requests -> Nat] /\ g1 \in [Requests -> Nat] /\ g \in Int
    BY <1>5, <1>18
  <2> QED
    BY <2>1, <1>11, <1>17, TotalMoves
<1>25. /\ Total(Requests, c0) \in Nat
       /\ Total(Requests, o0) \in Nat
  BY <1>5, QuotaAssumption, TotalType
<1> QED
  BY <1>19, <1>20, <1>21, <1>22, <1>23, <1>24, <1>25 DEF c0, c1, o0, o1, l0, l1, h0, h1, s0, s1, g0, g1

\* What Postgres holds is at most what a seed may make of the held sum, and that is at
\* most what was charged.
LEMMA DurableBelowSeeded ==
  ASSUME IndInv, NEW w \in Windows
  PROVE  /\ durable[w] <= Total(Requests, Seeded(w)) + dup[w]
         /\ Total(Requests, Seeded(w)) <= Total(Requests, Charged(w))
<1> DEFINE f == [r \in Requests |-> IF <<r, w>> \in landed THEN actual[r] ELSE 0]
           s == Seeded(w)
           g == Charged(w)
<1>a. TypeOK /\ DeltaInv
  BY DEF IndInv
<1>1. f \in [Requests -> Nat] /\ s \in [Requests -> Nat] /\ g \in [Requests -> Nat]
  BY <1>a, SumsType DEF TypeOK
<1>2. \A r \in Requests : f[r] <= s[r]
  BY <1>a DEF Seeded, DeltaInv, Owes, TypeOK, MaxOf
<1>3. \A r \in Requests : s[r] <= g[r]
  BY <1>a DEF Seeded, Charged, TypeOK, MaxOf
<1>4. durable[w] = Total(Requests, f) + dup[w]
  BY DEF IndInv, DurableAccounted, DeltaTotal
<1>5. dup[w] \in Nat
  BY <1>a DEF TypeOK
<1> HIDE DEF f, s, g
<1>6. Total(Requests, f) <= Total(Requests, s) /\ Total(Requests, s) <= Total(Requests, g)
  BY <1>1, <1>2, <1>3, QuotaAssumption, TotalMono
<1>7. Total(Requests, f) \in Nat /\ Total(Requests, s) \in Nat
  BY <1>1, QuotaAssumption, TotalType
<1>8. durable[w] <= Total(Requests, s) + dup[w]
  BY <1>4, <1>5, <1>6, <1>7
<1> QED
  BY <1>6, <1>8 DEF s, g

\* seed.lua, for one window: a counter is only raised, to at most what Postgres holds,
\* and none is removed.
LEMMA SeedingKeeps ==
  ASSUME TypeOK, Seeding, NEW w \in Windows
  PROVE  \E n \in Nat :
           /\ n <= durable[w]
           /\ live \subseteq live'
           /\ w \in live => counter'[w] = counter[w] \/ (counter[w] <= n /\ counter'[w] = n)
           /\ w \in live' \ live => counter'[w] = n
           /\ counter'[w] \in {counter[w], n}
<1>1. PICK ws \in SUBSET Windows, s \in [Windows -> Nat] :
        (\A x \in Windows : s[x] <= durable[x]) /\ Raise(ws, s)
  BY DEF Seeding
<1>2. counter[w] \in Int /\ s[w] \in Nat /\ s[w] <= durable[w]
  BY <1>1 DEF TypeOK
<1>3. counter'[w] = IF w \notin ws THEN counter[w]
                    ELSE IF w \in live THEN MaxOf(counter[w], s[w])
                    ELSE s[w]
  BY <1>1 DEF Raise
<1>4. live' = live \cup ws
  BY <1>1 DEF Raise
<1>5. \/ MaxOf(counter[w], s[w]) = counter[w]
      \/ counter[w] <= s[w] /\ MaxOf(counter[w], s[w]) = s[w]
  BY <1>2 DEF MaxOf
<1>6. w \in live => counter'[w] = counter[w] \/ (counter[w] <= s[w] /\ counter'[w] = s[w])
  BY <1>3, <1>5
<1>7. /\ w \in live' \ live => counter'[w] = s[w]
      /\ counter'[w] \in {counter[w], s[w]}
  BY <1>3, <1>4, <1>5
<1> QED
  BY <1>2, <1>4, <1>6, <1>7

\* adjust.lua, for one window.
LEMMA CorrectOne ==
  ASSUME TypeOK, NEW r \in Requests, NEW c \in Nat, Correct(r, c), NEW w \in Windows
  PROVE  counter'[w] = IF w \in span[r] /\ w \in live THEN counter[w] + (c - reserved[r]) ELSE counter[w]
<1>1. counter[w] \in Int /\ reserved[r] \in Nat
  BY DEF TypeOK
<1> QED
  BY <1>1 DEF Correct

\* Every step keeps every counter at or below what was charged.
LEMMA PeakStep == IndInv /\ TypeOK' /\ [Next]_vars => PeakInv'
<1> SUFFICES ASSUME IndInv, TypeOK', [Next]_vars, NEW v \in Windows
             PROVE  (/\ counter[v] <= Total(Requests, Charged(v)) + dup[v] + Total(Requests, Late(v))
                     /\ backup.counter[v] <= Total(Requests, Charged(v)) + dup[v] + Total(Requests, Late(v)))'
  BY DEF PeakInv
<1> DEFINE G == Total(Requests, Charged(v))  G1 == Total(Requests, Charged(v))'
           L == Total(Requests, Late(v))     L1 == Total(Requests, Late(v))'
           Goal == /\ counter'[v] <= G1 + dup'[v] + L1
                   /\ backup'.counter[v] <= G1 + dup'[v] + L1
<1>a. TypeOK /\ ControlInv /\ StrayInv /\ DeltaInv
  BY DEF IndInv
<1>b. /\ counter[v] \in Int /\ backup.counter[v] \in Int /\ dup[v] \in Nat
      /\ counter'[v] \in Int /\ backup'.counter[v] \in Int /\ dup'[v] \in Nat
  BY <1>a DEF TypeOK
<1>c. G \in Nat /\ L \in Nat
  BY <1>a, SumsType
<1>d. counter[v] <= G + dup[v] + L /\ backup.counter[v] <= G + dup[v] + L
  BY DEF IndInv, PeakInv
<1>1. ASSUME Quiet PROVE Goal
  <2>1. G <= G1 /\ L1 = L
    BY <1>a, <1>1, QuietSums
  <2>2. dup[v] <= dup'[v] /\ backup'.counter[v] \in {backup.counter[v], counter[v]}
    BY <1>1 DEF Quiet
  <2>3. G1 \in Nat
    <3>1. Charged(v)' \in [Requests -> Nat]
      BY SumsTypeNext
    <3> QED
      BY <3>1, QuotaAssumption, TotalType
  <2> HIDE DEF G, G1, L, L1
  <2>4. counter'[v] <= G + dup[v] + L
    <3>1. CASE counter'[v] \in {counter[v], backup.counter[v], 0}
      BY <1>b, <1>c, <1>d, <3>1
    <3>2. CASE Seeding
      <4>1. PICK n \in Nat : n <= durable[v] /\ counter'[v] \in {counter[v], n}
        BY <1>a, <3>2, SeedingKeeps
      <4>2. durable[v] <= G + dup[v] /\ durable[v] \in Nat
        <5>1. /\ durable[v] <= Total(Requests, Seeded(v)) + dup[v]
              /\ Total(Requests, Seeded(v)) <= G
          BY DurableBelowSeeded DEF G
        <5>2. durable[v] \in Nat /\ Total(Requests, Seeded(v)) \in Nat
          BY <1>a, SumsType DEF TypeOK
        <5> QED
          BY <1>b, <1>c, <5>1, <5>2
      <4> QED
        BY <1>b, <1>c, <1>d, <4>1, <4>2
    <3> QED
      BY <1>1, <3>1, <3>2 DEF Quiet
  <2> QED
    BY <1>b, <1>c, <1>d, <2>1, <2>2, <2>3, <2>4
<1>2. ASSUME NEW r \in Requests, Admits(r) PROVE Goal
  <2> DEFINE n == IF v \in span[r] THEN reserved[r] ELSE 0
  <2>1. G1 = G + n /\ L1 = L
    BY <1>a, <1>2, AdmitsSums
  <2>2. n \in Nat
    BY <1>a DEF TypeOK
  <2>3. counter'[v] = counter[v] + n /\ UNCHANGED <<dup, backup>>
    BY <1>b, <1>2 DEF Admits, Increment
  <2> HIDE DEF G, G1, L, L1, n
  <2> QED
    BY <1>b, <1>c, <1>d, <2>1, <2>2, <2>3
<1>3. ASSUME NEW r \in Requests, NEW c \in Nat, Charges(r, c) PROVE Goal
  <2> DEFINE d == IF v \in span[r] THEN c - reserved[r] ELSE 0
             o == IF v \in span[r] THEN MaxOf(reserved[r], c) - reserved[r] ELSE 0
             dr == IF r \in adjusted' THEN d ELSE 0
             or == IF r \in adjusted' THEN o ELSE 0
  <2>1. G1 = G + or /\ L1 = L
    BY <1>a, <1>3, ChargesSums
  <2>2. reserved[r] \in Nat
    BY <1>a DEF TypeOK
  <2>3. o \in Nat /\ d \in Int /\ d <= o
    BY <2>2 DEF MaxOf
  <2>4. UNCHANGED <<dup, backup>>
    BY <1>3 DEF Charges
  <2>5. counter'[v] = counter[v] \/ (counter'[v] = counter[v] + d /\ or = o)
    <3>1. CASE Correct(r, c)
      BY <1>a, <1>b, <2>2, <3>1, CorrectOne DEF Correct
    <3>2. CASE UNCHANGED counter
      BY <3>2
    <3> QED
      BY <1>3, <3>1, <3>2 DEF Charges
  <2>6. or = 0 \/ or = o
    OBVIOUS
  <2> HIDE DEF G, G1, L, L1, d, o, or
  <2> QED
    BY <1>b, <1>c, <1>d, <2>1, <2>3, <2>4, <2>5, <2>6
<1>4. ASSUME NEW r \in Requests, StrayAdjust(r) PROVE Goal
  <2> DEFINE d == IF v \in span[r] THEN actual[r] - reserved[r] ELSE 0
             o == IF v \in span[r] THEN MaxOf(reserved[r], actual[r]) - reserved[r] ELSE 0
             g == IF <<r, v>> \in landed THEN 0 ELSE o
             l == IF <<r, v>> \in landed /\ v \in live THEN o ELSE 0
  <2>1. G1 = G + g /\ L1 = L + l
    BY <1>a, <1>4, CorrectsSums
  <2>2. reserved[r] \in Nat /\ actual[r] \in Nat
    BY <1>a DEF TypeOK
  <2>3. o \in Nat /\ d \in Int /\ d <= o
    BY <2>2 DEF MaxOf
  <2>4. UNCHANGED <<dup, backup>>
    BY <1>4 DEF StrayAdjust
  <2>5. counter'[v] = counter[v] \/ (v \in live /\ counter'[v] = counter[v] + d)
    BY <1>a, <1>4, <2>2, CorrectOne DEF StrayAdjust
  <2>6. g \in Nat /\ l \in Nat /\ (v \in live => g + l = o)
    BY <2>3
  <2> HIDE DEF G, G1, L, L1, d, o, g, l
  <2> QED
    BY <1>b, <1>c, <1>d, <2>1, <2>3, <2>4, <2>5, <2>6
<1>5. Goal
  BY <1>1, <1>2, <1>3, <1>4, StepKind
<1> QED
  BY <1>5

\* The initial state satisfies the inductive invariant.
LEMMA IndInit == Init => IndInv
<1> SUFFICES ASSUME Init PROVE IndInv
  OBVIOUS
<1> USE QuotaAssumption
<1>1. TypeOK
  BY TypeInit
<1>2. ControlInv
  BY DEF Init, ControlInv, Agents, Statuses
<1>3. DeltaInv
  BY DEF Init, DeltaInv
<1>4. SnapshotInv
  BY DEF Init, SnapshotInv
<1>5. \A w \in Windows : DeltaTotal(landed, w) = 0
  <2> TAKE w \in Windows
  <2> DEFINE f == [r \in Requests |-> IF <<r, w>> \in landed THEN actual[r] ELSE 0]
  <2>1. f \in [Requests -> Nat] /\ \A r \in Requests : f[r] = 0
    BY DEF Init
  <2> HIDE DEF f
  <2>2. Total(Requests, f) = 0
    BY <2>1, TotalZero
  <2> QED
    BY <2>2 DEF f, DeltaTotal
<1>6. DurableAccounted
  BY <1>5 DEF Init, DurableAccounted
<1>7. PeakInv
  <2> SUFFICES ASSUME NEW w \in Windows
               PROVE  /\ counter[w] <= Total(Requests, Charged(w)) + dup[w] + Total(Requests, Late(w))
                      /\ backup.counter[w] <= Total(Requests, Charged(w)) + dup[w] + Total(Requests, Late(w))
    BY DEF PeakInv
  <2>1. Total(Requests, Charged(w)) \in Nat /\ Total(Requests, Late(w)) \in Nat
    BY <1>1, SumsType
  <2>2. counter[w] = 0 /\ backup.counter[w] = 0 /\ dup[w] = 0
    BY DEF Init
  <2> QED
    BY <2>1, <2>2
<1>8. StrayInv
  BY DEF Init, StrayInv
<1> QED
  BY <1>1, <1>2, <1>3, <1>4, <1>6, <1>7, <1>8 DEF IndInv

\* Every step keeps the inductive invariant.
LEMMA IndStep == IndInv /\ [Next]_vars => IndInv'
<1> SUFFICES ASSUME IndInv, [Next]_vars PROVE IndInv'
  OBVIOUS
<1>1. TypeOK /\ ControlInv /\ StrayInv /\ DeltaInv /\ SnapshotInv /\ DurableAccounted
  BY DEF IndInv
<1>2. TypeOK'
  BY <1>1, TypeStep
<1>3. ControlInv' /\ StrayInv' /\ DeltaInv' /\ SnapshotInv' /\ DurableAccounted'
  BY <1>1, ControlStep, StraysKept, DeltaStep, SnapshotStep, DurableStep
<1>4. PeakInv'
  BY <1>2, PeakStep
<1> QED
  BY <1>2, <1>3, <1>4 DEF IndInv

\* The inductive invariant holds in every reachable state.
LEMMA Inductive == Spec => []IndInv
BY IndInit, IndStep, PTL DEF Spec

\* No request was ever charged more than at its peak.
LEMMA ChargedBelowPeak ==
  ASSUME TypeOK, NEW w \in Windows
  PROVE  Total(Requests, Charged(w)) <= Total(Requests, Peak(w))
<1> DEFINE f == Charged(w)
           g == Peak(w)
<1>1. f \in [Requests -> Nat] /\ g \in [Requests -> Nat]
  BY SumsType
<1>2. \A r \in Requests : f[r] <= g[r]
  BY DEF Charged, Peak, TypeOK, MaxOf
<1> HIDE DEF f, g
<1>3. Total(Requests, f) <= Total(Requests, g)
  BY <1>1, <1>2, QuotaAssumption, TotalMono
<1> QED
  BY <1>3 DEF f, g

\* NoDoubleCount, of one window.
LEMMA BelowPeak ==
  ASSUME IndInv, NEW w \in Windows
  PROVE  counter[w] <= Total(Requests, Peak(w)) + dup[w] + Total(Requests, Late(w))
<1>1. TypeOK /\ counter[w] <= Total(Requests, Charged(w)) + dup[w] + Total(Requests, Late(w))
  BY DEF IndInv, PeakInv
<1>2. counter[w] \in Int /\ dup[w] \in Nat
  BY <1>1 DEF TypeOK
<1>3. /\ Total(Requests, Charged(w)) \in Nat /\ Total(Requests, Late(w)) \in Nat
      /\ Total(Requests, Peak(w)) \in Nat
  BY <1>1, SumsType
<1>4. Total(Requests, Charged(w)) <= Total(Requests, Peak(w))
  BY <1>1, ChargedBelowPeak
<1> QED
  BY <1>1, <1>2, <1>3, <1>4

\* For any number of requests, replicas, windows and failures, no usage is
\* counted twice but for the two things NoDoubleCount allows, a repeated commit and
\* a late correction: reserve.lua, seed.lua and adjust.lua keep every live counter
\* at or below what was charged to its requests, even across lost windows, stale
\* failovers, crashes, and calls that Redis runs long after they timed out.
THEOREM NeverCountedTwice == Spec => []NoDoubleCount
<1>1. ASSUME IndInv PROVE NoDoubleCount
  <2>1. live \subseteq Windows
    BY <1>1 DEF IndInv, TypeOK
  <2> QED
    BY <1>1, <2>1, BelowPeak DEF NoDoubleCount
<1> QED
  BY <1>1, Inductive, PTL

\* The durable counter is always exactly the costs of the requests whose delta
\* the flusher committed, plus what ambiguous commits repeated.
THEOREM DurableExact == Spec => []DurableAccounted
<1>1. IndInv => DurableAccounted
  BY DEF IndInv
<1> QED
  BY <1>1, Inductive, PTL

\* A request is answered over quota only when the peak charges of a blocking
\* window leave it no room, what ambiguous commits repeated and late corrections
\* added included: no tenant is locked out by any other miscount.
THEOREM NeverBlockedEarly == Spec => BlockedOnlyWhenFull
<1> DEFINE Step == \A r \in Requests : status'[r] = "blocked" /\ status[r] # "blocked" =>
                     \E w \in span[r] :
                       /\ Block[w]
                       /\ Total(Requests, Peak(w)) + dup[w] + Total(Requests, Late(w)) + reserved[r] > MaxCost[w]
<1>1. ASSUME IndInv, [Next]_vars PROVE [Step]_vars
  <2> SUFFICES ASSUME NEW r \in Requests, status'[r] = "blocked", status[r] # "blocked"
               PROVE  \E w \in span[r] :
                        /\ Block[w]
                        /\ Total(Requests, Peak(w)) + dup[w] + Total(Requests, Late(w)) + reserved[r] > MaxCost[w]
    OBVIOUS
  <2>1. ReserveBlocked(r)
    BY <1>1 DEF Next, vars, RequestStep, ReplicaStep, RehydrateStep, StrayStep, RedisStep,
         redisVars, storeVars, procVars, seedVars, strayVars, IndInv, TypeOK, Failed,
         Unenforceable, Charge, Handed, Ended, Arrive, ArriveUnchecked,
         LimitsUnavailable, ReserveMissing, ReserveBlocked, ReserveOK, ReserveError,
         SeedForRequest, ReconcileAdjust, AdjustError, AddDelta, ResyncOnTick,
         ResyncOnWake, SeedForResync, Flush, FlushAmbiguous, Crash, ReadDurable,
         RehydrateError, StrayReserve, StrayAdjust, StraySeed, LoseWindow, Replicate,
         Failover
  <2>2. PICK w \in span[r] : Block[w] /\ counter[w] + reserved[r] > MaxCost[w]
    BY <2>1 DEF ReserveBlocked, Crossed
  <2>3. w \in Windows
    BY <1>1 DEF IndInv, TypeOK
  <2>4. counter[w] <= Total(Requests, Peak(w)) + dup[w] + Total(Requests, Late(w))
    BY <1>1, <2>3, BelowPeak
  <2>5. /\ counter[w] \in Int /\ dup[w] \in Nat /\ reserved[r] \in Nat
        /\ MaxCost[w] \in Nat
    BY <1>1, <2>3, QuotaAssumption DEF IndInv, TypeOK
  <2>6. Total(Requests, Peak(w)) \in Nat /\ Total(Requests, Late(w)) \in Nat
    BY <1>1, <2>3, SumsType DEF IndInv
  <2>7. Total(Requests, Peak(w)) + dup[w] + Total(Requests, Late(w)) + reserved[r] > MaxCost[w]
    BY <2>2, <2>4, <2>5, <2>6
  <2> QED
    BY <2>2, <2>7
<1> QED
  BY <1>1, Inductive, PTL DEF Spec, BlockedOnlyWhenFull

(***************************************************************************)
(* The spend cap, the exactness of the live counters and the bound on seed *)
(* rounds.                                                                 *)
(***************************************************************************)

\* What is owed is at most what is held and what was overrun.
LEMMA OwedBelowHeld ==
  ASSUME TypeOK, StrayInv, NEW w \in Windows
  PROVE  Total(Requests, Committed(w)) <= Total(Requests, Held(w)) + Total(Requests, Overrun(w))
<1> DEFINE c == Committed(w)
           h == Held(w)
           o == Overrun(w)
<1>1. c \in [Requests -> Nat] /\ h \in [Requests -> Nat] /\ o \in [Requests -> Nat]
  BY SumsType
<1>2. \A r \in Requests : c[r] <= h[r] + o[r]
  BY DEF Committed, Held, Overrun, TypeOK, StrayInv
<1> HIDE DEF c, h, o
<1>3. Total(Requests, c) <= Total(Requests, h) + Total(Requests, o)
  BY <1>1, <1>2, QuotaAssumption, TotalBelow
<1> QED
  BY <1>3 DEF c, h, o

\* The counters of the windows Redis keeps stay live.
LEMMA IntactStep ==
  ASSUME IndInv, IntactLive, [Next]_vars
  PROVE  IntactLive'
<1>a. TypeOK /\ ControlInv
  BY DEF IndInv
<1>1. CASE Quiet
  <2>1. \A x \in applied : span'[x] = span[x] /\ span[x] \subseteq Windows
    BY <1>a, <1>1 DEF Quiet, ControlInv, TypeOK
  <2>2. \A w \in Windows : w \in intact' /\ w \in live => w \in live'
    <3>1. CASE Seeding
      BY <3>1 DEF Seeding, Raise
    <3> QED
      BY <1>1, <3>1 DEF Quiet
  <2>3. applied' = applied /\ intact' \subseteq intact
    BY <1>1 DEF Quiet
  <2> QED
    BY <2>1, <2>2, <2>3 DEF IntactLive
<1>2. ASSUME NEW r \in Requests, Admits(r) PROVE IntactLive'
  <2>1. /\ applied' = applied \cup {r} /\ span[r] \subseteq live
        /\ span' = span /\ live' = live /\ intact' = intact
    BY <1>2 DEF Admits, Increment
  <2> QED
    BY <2>1 DEF IntactLive
<1>3. ASSUME NEW r \in Requests, NEW c \in Nat, Charges(r, c) PROVE IntactLive'
  BY <1>3 DEF Charges, IntactLive
<1>4. ASSUME NEW r \in Requests, StrayAdjust(r) PROVE IntactLive'
  BY <1>4 DEF StrayAdjust, IntactLive
<1> QED
  BY <1>1, <1>2, <1>3, <1>4, StepKind

\* Nothing is owed to a window that Redis keeps and that has no counter.
LEMMA AbsentOwesNothing ==
  ASSUME TypeOK, IntactLive, NEW w \in intact \ live
  PROVE  /\ Total(Requests, Committed(w)) = 0
         /\ Total(Requests, Held(w)) = 0
<1>1. w \in Windows /\ \A x \in Requests : ~(x \in applied /\ w \in span[x])
  BY DEF TypeOK, IntactLive
<1>2. \A x \in Requests : Committed(w)[x] = 0 /\ Held(w)[x] = 0
  BY <1>1 DEF Committed, Held
<1> QED
  BY <1>1, <1>2, SumsType, TotalZero

\* Every step keeps the counters between what is held and what seeds may make of it,
\* and what is owed below the cap.
LEMMA HeldStep ==
  ASSUME IndInv, TypeOK', IntactLive, HeldInv, CapHolds, [Next]_vars
  PROVE  HeldInv' /\ CapHolds'
<1> SUFFICES ASSUME NEW v \in intact'
             PROVE  (/\ v \in live => /\ Total(Requests, Held(v)) <= counter[v]
                                      /\ counter[v] <= Total(Requests, Seeded(v)) + dup[v] + Total(Requests, Late(v))
                     /\ Block[v] => Total(Requests, Committed(v)) <= MaxCost[v] + Total(Requests, Overrun(v)))'
  BY DEF HeldInv, CapHolds
<1> DEFINE C == Total(Requests, Committed(v))  C1 == Total(Requests, Committed(v))'
           O == Total(Requests, Overrun(v))    O1 == Total(Requests, Overrun(v))'
           H == Total(Requests, Held(v))       H1 == Total(Requests, Held(v))'
           S == Total(Requests, Seeded(v))     S1 == Total(Requests, Seeded(v))'
           L == Total(Requests, Late(v))       L1 == Total(Requests, Late(v))'
           Goal == /\ v \in live' => H1 <= counter'[v] /\ counter'[v] <= S1 + dup'[v] + L1
                   /\ Block[v] => C1 <= MaxCost[v] + O1
<1>a. TypeOK /\ ControlInv /\ StrayInv /\ DeltaInv /\ v \in Windows
  BY DEF IndInv, TypeOK
<1>b. counter[v] \in Int /\ counter'[v] \in Int /\ MaxCost[v] \in Nat /\ dup[v] \in Nat /\ dup'[v] \in Nat
  BY <1>a, QuotaAssumption DEF TypeOK
<1>c. C \in Nat /\ O \in Nat /\ H \in Nat /\ S \in Nat /\ L \in Nat
  BY <1>a, SumsType
<1>d. v \in intact
  BY StepKind DEF Quiet, Admits, Charges, StrayAdjust
<1>e. v \in live => H <= counter[v] /\ counter[v] <= S + dup[v] + L
  BY <1>d DEF HeldInv
<1>f. Block[v] => C <= MaxCost[v] + O
  BY <1>d DEF CapHolds
<1>g. v \notin live => H = 0
  BY <1>a, <1>d, AbsentOwesNothing
<1>h. C <= H + O
  BY <1>a, OwedBelowHeld
<1>1. ASSUME Quiet PROVE Goal
  <2>1. C1 = C /\ O1 = O /\ H1 = H /\ S <= S1 /\ L1 = L
    BY <1>a, <1>1, QuietSums
  <2>2. dup[v] <= dup'[v]
    BY <1>a, <1>1 DEF Quiet
  <2>3. S1 \in Nat
    <3>1. Seeded(v)' \in [Requests -> Nat]
      BY <1>a, SumsTypeNext
    <3> QED
      BY <3>1, QuotaAssumption, TotalType
  <2> HIDE DEF C, C1, O, O1, H, H1, S, S1, L, L1
  <2>4. ASSUME v \in live' PROVE H <= counter'[v] /\ counter'[v] <= S + dup[v] + L
    <3>1. CASE counter'[v] = counter[v] /\ v \in live
      BY <1>e, <3>1
    <3>2. CASE Seeding
      <4>1. PICK n \in Nat :
              /\ n <= durable[v]
              /\ v \in live => counter'[v] = counter[v] \/ (counter[v] <= n /\ counter'[v] = n)
              /\ v \in live' \ live => counter'[v] = n
        BY <1>a, <3>2, SeedingKeeps
      <4>2. durable[v] <= S + dup[v] /\ durable[v] \in Nat
        BY <1>a, DurableBelowSeeded DEF S, TypeOK
      <4> QED
        BY <1>b, <1>c, <1>e, <1>g, <2>4, <4>1, <4>2
    <3> QED
      BY <1>a, <1>1, <2>4, <3>1, <3>2 DEF Quiet
  <2> QED
    BY <1>b, <1>c, <1>f, <2>1, <2>2, <2>3, <2>4
<1>2. ASSUME NEW r \in Requests, Admits(r) PROVE Goal
  <2> DEFINE n == IF v \in span[r] THEN reserved[r] ELSE 0
  <2>1. C1 = C + n /\ O1 = O /\ H1 = H + n /\ S1 = S + n /\ L1 = L
    BY <1>a, <1>2, AdmitsSums
  <2>2. counter'[v] = counter[v] + n /\ live' = live /\ dup' = dup
    BY <1>a, <1>b, <1>2 DEF Admits, Increment
  <2>3. Block[v] /\ v \in span[r] => counter[v] + n <= MaxCost[v] /\ v \in live
    BY <1>a, <1>b, <1>2 DEF Admits, Crossed, TypeOK
  <2>4. v \notin span[r] => n = 0
    OBVIOUS
  <2>5. n \in Nat
    BY <1>a DEF TypeOK
  <2> HIDE DEF C, C1, O, O1, H, H1, S, S1, L, L1, n
  <2> QED
    BY <1>b, <1>c, <1>e, <1>f, <1>h, <2>1, <2>2, <2>3, <2>4, <2>5
<1>3. ASSUME NEW r \in Requests, NEW c \in Nat, Charges(r, c) PROVE Goal
  <2> DEFINE d == IF v \in span[r] THEN c - reserved[r] ELSE 0
             o == IF v \in span[r] THEN MaxOf(reserved[r], c) - reserved[r] ELSE 0
             dr == IF r \in adjusted' THEN d ELSE 0
             or == IF r \in adjusted' THEN o ELSE 0
  <2>1. C1 = C + d /\ O1 = O + o /\ H1 = H + dr /\ S1 = S + dr /\ L1 = L
    BY <1>a, <1>3, ChargesSums
  <2>2. reserved[r] \in Nat /\ r \notin adjusted
    BY <1>a, <1>3 DEF TypeOK, StrayInv, Charges, Reconciled, ControlInv, Statuses
  <2>3. o \in Nat /\ d \in Int /\ d <= o
    BY <2>2 DEF MaxOf
  <2>4. UNCHANGED <<live, dup>>
    BY <1>3 DEF Charges
  <2>5. v \in live => counter'[v] = counter[v] + dr
    <3>1. CASE Correct(r, c)
      BY <1>a, <1>b, <2>2, <3>1, CorrectOne DEF Correct
    <3>2. CASE UNCHANGED <<counter, adjusted>>
      BY <1>b, <2>2, <3>2
    <3> QED
      BY <1>3, <3>1, <3>2 DEF Charges
  <2>6. dr \in Int
    BY <2>3
  <2> HIDE DEF C, C1, O, O1, H, H1, S, S1, L, L1, d, o, dr
  <2> QED
    BY <1>b, <1>c, <1>e, <1>f, <2>1, <2>3, <2>4, <2>5, <2>6
<1>4. ASSUME NEW r \in Requests, StrayAdjust(r) PROVE Goal
  <2> DEFINE d == IF v \in span[r] THEN actual[r] - reserved[r] ELSE 0
             o == IF v \in span[r] THEN MaxOf(reserved[r], actual[r]) - reserved[r] ELSE 0
             g == IF <<r, v>> \in landed THEN 0 ELSE o
             l == IF <<r, v>> \in landed /\ v \in live THEN o ELSE 0
  <2>1. C1 = C /\ O1 = O /\ H1 = H + d /\ S1 = S + (d - (o - g)) /\ L1 = L + l
    BY <1>a, <1>4, CorrectsSums
  <2>2. reserved[r] \in Nat /\ actual[r] \in Nat
    BY <1>a DEF TypeOK
  <2>3. o \in Nat /\ d \in Int
    BY <2>2 DEF MaxOf
  <2>4. UNCHANGED <<live, dup>>
    BY <1>4 DEF StrayAdjust
  <2>5. v \in live => counter'[v] = counter[v] + d
    BY <1>a, <1>b, <1>4, <2>2, CorrectOne DEF StrayAdjust
  <2>6. g \in Nat /\ l \in Nat /\ (v \in live => g + l = o)
    BY <2>3
  <2> HIDE DEF C, C1, O, O1, H, H1, S, S1, L, L1, d, o, g, l
  <2> QED
    BY <1>b, <1>c, <1>e, <1>f, <2>1, <2>3, <2>4, <2>5, <2>6
<1>5. Goal
  BY <1>1, <1>2, <1>3, <1>4, StepKind
<1> QED
  BY <1>5

\* In a clean window seeds can add nothing, so the counter is what it should hold.
LEMMA CleanExact ==
  ASSUME IndInv, HeldInv
  PROVE  LiveCounterExact
<1> SUFFICES ASSUME NEW w \in live \cap intact, Clean(w)
             PROVE  counter[w] = Total(Requests, Held(w))
  BY DEF LiveCounterExact
<1>a. TypeOK /\ DeltaInv /\ w \in Windows
  BY DEF IndInv, TypeOK
<1>1. dup[w] = 0 /\ \A r \in Requests : /\ w \in span[r] /\ Reconciled(r) => r \in adjusted
                                        /\ <<r, w>> \notin late
  BY DEF Clean
<1>2. \A r \in Requests : <<r, w>> \in landed => r \in adjusted
  BY <1>a, <1>1 DEF DeltaInv, Owes
<1>3. Seeded(w) = Held(w)
  BY <1>2 DEF Seeded, Held
<1>4. Total(Requests, Late(w)) = 0
  <2> DEFINE f == Late(w)
  <2>1. f \in [Requests -> Nat] /\ \A r \in Requests : f[r] = 0
    BY <1>a, <1>1, SumsType DEF Late
  <2> HIDE DEF f
  <2>2. Total(Requests, f) = 0
    BY <2>1, TotalZero
  <2> QED
    BY <2>2 DEF f
<1>5. /\ Total(Requests, Held(w)) <= counter[w]
      /\ counter[w] <= Total(Requests, Held(w)) + 0 + 0
  BY <1>1, <1>3, <1>4 DEF HeldInv
<1>6. counter[w] \in Int /\ Total(Requests, Held(w)) \in Nat
  BY <1>a, SumsType DEF TypeOK
<1> QED
  BY <1>5, <1>6

\* Every step keeps the reason a request goes round the seed loop.
LEMMA SeedStep ==
  ASSUME IndInv, TypeOK', SeedInv, [Next]_vars
  PROVE  SeedInv'
<1> DEFINE Ok(x) == /\ round[x] <= 1 + faults
                    /\ status[x] = "new" => round[x] = 0
                    /\ status[x] = "reserving" /\ ~(span[x] \subseteq live) => round[x] <= faults
                    /\ status[x] = "rehydrating" =>
                         /\ round[x] <= faults
                         /\ ~(span[x] \subseteq live \cup asked[x]) => round[x] < faults
<1> SUFFICES ASSUME NEW x \in Requests PROVE Ok(x)'
  BY DEF SeedInv
<1> USE QuotaAssumption DEF redisVars, storeVars, procVars, seedVars, strayVars
<1>a. TypeOK /\ ControlInv
  BY DEF IndInv
<1>b. Ok(x)
  BY DEF SeedInv
<1>c. round[x] \in Nat /\ round'[x] \in Nat /\ faults \in Nat /\ faults' \in Nat
  BY <1>a DEF TypeOK
<1>d. x \in Agents /\ x \notin Replicas
  BY DEF Agents
\* x waits while nothing is lost.
<1>e. ASSUME status'[x] = status[x], span'[x] = span[x], round'[x] = round[x],
             asked'[x] = asked[x], live \subseteq live', faults' = faults \/ faults' = faults + 1
      PROVE  Ok(x)'
  BY <1>b, <1>c, <1>e
\* x waits while something is lost.
<1>f. ASSUME status'[x] = status[x], span'[x] = span[x], round'[x] = round[x],
             faults' = faults + 1
      PROVE  Ok(x)'
  BY <1>b, <1>c, <1>f
\* x is through with the loop.
<1>g. ASSUME status'[x] \notin {"new", "reserving", "rehydrating"}, round'[x] = round[x],
             faults' = faults \/ faults' = faults + 1
      PROVE  Ok(x)'
  BY <1>b, <1>c, <1>g
<1>h. ASSUME NEW r \in Requests, Failed(r)
      PROVE  /\ status'[r] \notin {"new", "reserving", "rehydrating"}
             /\ x # r => status'[x] = status[x]
  BY <1>a, <1>h DEF Failed, Unenforceable, TypeOK
<1>i. ASSUME NEW a \in Agents, EndRehydrate(a), x # a PROVE asked'[x] = asked[x]
  BY <1>a, <1>d, <1>i DEF EndRehydrate, TypeOK
<1>1. ASSUME NEW r \in Requests, NEW ws \in Spans, NEW c \in Costs, Arrive(r, ws, c) PROVE Ok(x)'
  <2>1. CASE x = r
    BY <1>a, <1>b, <1>c, <1>1, <2>1 DEF Arrive, TypeOK
  <2>2. CASE x # r
    BY <1>a, <1>e, <1>1, <2>2 DEF Arrive, TypeOK
  <2> QED
    BY <2>1, <2>2
<1>2. ASSUME NEW r \in Requests, ArriveUnchecked(r) PROVE Ok(x)'
  <2>1. CASE x = r
    BY <1>a, <1>g, <1>2, <2>1 DEF ArriveUnchecked, Unenforceable, TypeOK
  <2>2. CASE x # r
    BY <1>a, <1>e, <1>2, <2>2 DEF ArriveUnchecked, TypeOK
  <2> QED
    BY <2>1, <2>2
<1>3. ASSUME NEW r \in Requests, LimitsUnavailable(r) PROVE Ok(x)'
  BY <1>e, <1>g, <1>h, <1>3 DEF LimitsUnavailable, Fault
<1>4. ASSUME NEW r \in Requests, ReserveMissing(r) PROVE Ok(x)'
  <2>1. CASE x = r
    <3>1. /\ status'[x] = "rehydrating" /\ span' = span /\ round' = round /\ faults' = faults
          /\ live' = live /\ asked'[x] = span[x] \ live
      BY <1>a, <1>d, <1>4, <2>1 DEF ReserveMissing, TypeOK
    <3>2. round[x] <= faults
      BY <1>b, <1>4, <2>1 DEF ReserveMissing
    <3> QED
      BY <1>b, <1>c, <3>1, <3>2
  <2>2. CASE x # r
    BY <1>a, <1>d, <1>e, <1>4, <2>2 DEF ReserveMissing, TypeOK
  <2> QED
    BY <2>1, <2>2
<1>5. ASSUME NEW r \in Requests, ReserveBlocked(r) PROVE Ok(x)'
  BY <1>a, <1>e, <1>g, <1>5 DEF ReserveBlocked, TypeOK
<1>6. ASSUME NEW r \in Requests, ReserveOK(r) PROVE Ok(x)'
  BY <1>a, <1>e, <1>g, <1>6 DEF ReserveOK, TypeOK
<1>7. ASSUME NEW r \in Requests, ReserveError(r) PROVE Ok(x)'
  BY <1>e, <1>g, <1>h, <1>7 DEF ReserveError, Fault
<1>8. ASSUME NEW r \in Requests, SeedForRequest(r) PROVE Ok(x)'
  <2>1. /\ r \in Agents /\ live' = live \cup asked[r] /\ span' = span /\ faults' = faults
        /\ EndRehydrate(r)
    BY <1>8 DEF SeedForRequest, Agents, Raise
  <2>2. CASE x = r
    <3>1. status[x] = "rehydrating" /\ round'[x] = round[x] + 1
      BY <1>a, <1>8, <2>2 DEF SeedForRequest, ControlInv, TypeOK
    <3>2. round[x] <= faults /\ (~(span[x] \subseteq live') => round[x] < faults)
      BY <1>b, <2>1, <2>2, <3>1
    <3>3. status'[x] \in {"reserving", "refused", "unenforced"}
      BY <1>a, <1>8, <2>2 DEF SeedForRequest, Failed, Unenforceable, TypeOK
    <3> QED
      BY <1>c, <2>1, <3>1, <3>2, <3>3
  <2>3. CASE x # r
    <3>1. status'[x] = status[x] /\ round'[x] = round[x]
      BY <1>a, <1>8, <2>3 DEF SeedForRequest, Failed, TypeOK
    <3> QED
      BY <1>e, <1>i, <2>1, <2>3, <3>1
  <2> QED
    BY <2>2, <2>3
<1>9. ASSUME NEW r \in Requests, NEW c \in Costs, ReconcileAdjust(r, c) PROVE Ok(x)'
  BY <1>a, <1>e, <1>g, <1>9 DEF ReconcileAdjust, Charge, TypeOK
<1>10. ASSUME NEW r \in Requests, NEW c \in Costs, AdjustError(r, c) PROVE Ok(x)'
  BY <1>a, <1>e, <1>g, <1>10 DEF AdjustError, Charge, Fault, TypeOK
<1>11. ASSUME NEW r \in Requests, NEW w \in Windows, AddDelta(r, w) PROVE Ok(x)'
  BY <1>a, <1>e, <1>g, <1>11 DEF AddDelta, Handed, TypeOK
<1>12. ASSUME NEW p \in Replicas, ResyncOnTick(p) PROVE Ok(x)'
  BY <1>a, <1>d, <1>e, <1>12 DEF ResyncOnTick, TypeOK, Agents
<1>13. ASSUME NEW p \in Replicas, ResyncOnWake(p) PROVE Ok(x)'
  BY <1>a, <1>d, <1>e, <1>13 DEF ResyncOnWake, TypeOK, Agents
<1>14. ASSUME NEW p \in Replicas, SeedForResync(p) PROVE Ok(x)'
  <2>1. p \in Agents /\ x # p
    BY <1>d DEF Agents
  <2> QED
    BY <1>e, <1>i, <1>14, <2>1 DEF SeedForResync, Raise
<1>15. ASSUME NEW p \in Replicas, NEW B \in SUBSET unflushed[p], Flush(p, B) PROVE Ok(x)'
  BY <1>e, <1>15 DEF Flush
<1>16. ASSUME NEW p \in Replicas, NEW B \in SUBSET unflushed[p], FlushAmbiguous(p, B) PROVE Ok(x)'
  BY <1>e, <1>16 DEF FlushAmbiguous, Fault
<1>17. ASSUME NEW p \in Replicas, Crash(p) PROVE Ok(x)'
  <2>1. CASE status'[x] = status[x]
    BY <1>f, <1>17, <2>1 DEF Crash, Fault
  <2>2. CASE status'[x] # status[x]
    <3>1. status'[x] = "crashed"
      BY <1>17, <2>2 DEF Crash
    <3> QED
      BY <1>g, <1>17, <3>1 DEF Crash, Fault
  <2> QED
    BY <2>1, <2>2
<1>18. ASSUME NEW a \in Agents, NEW w \in Windows, ReadDurable(a, w) PROVE Ok(x)'
  BY <1>e, <1>18 DEF ReadDurable
<1>19. ASSUME NEW a \in Agents, RehydrateError(a) PROVE Ok(x)'
  <2>1. CASE status'[x] = status[x]
    BY <1>f, <1>19, <2>1 DEF RehydrateError, Fault
  <2>2. CASE status'[x] # status[x]
    <3>1. a \in Requests /\ Failed(a)
      BY <1>19, <2>2 DEF RehydrateError
    <3> QED
      BY <1>g, <1>h, <1>19, <2>2, <3>1 DEF RehydrateError, Fault
  <2> QED
    BY <2>1, <2>2
<1>20. ASSUME NEW w \in Windows, LoseWindow(w) PROVE Ok(x)'
  BY <1>f, <1>20 DEF LoseWindow, Fault
<1>21. ASSUME Replicate PROVE Ok(x)'
  BY <1>e, <1>21 DEF Replicate
<1>22. ASSUME Failover PROVE Ok(x)'
  BY <1>f, <1>22 DEF Failover, Fault
<1>23. ASSUME UNCHANGED vars PROVE Ok(x)'
  BY <1>e, <1>23 DEF vars
<1>24. ASSUME NEW r \in Requests, StrayReserve(r) PROVE Ok(x)'
  BY <1>e, <1>24 DEF StrayReserve
<1>25. ASSUME NEW r \in Requests, StrayAdjust(r) PROVE Ok(x)'
  BY <1>e, <1>25 DEF StrayAdjust
<1>26. ASSUME NEW s \in straySeeds, StraySeed(s) PROVE Ok(x)'
  BY <1>e, <1>26 DEF StraySeed, Raise
<1> HIDE DEF Ok
<1> QED
  BY <1>1, <1>2, <1>3, <1>4, <1>5, <1>6, <1>7, <1>8, <1>9, <1>10, <1>11, <1>12, <1>13, <1>14, <1>15, <1>16, <1>17, <1>18, <1>19, <1>20, <1>21, <1>22, <1>23, <1>24, <1>25, <1>26 DEF Next, RequestStep, ReplicaStep, RehydrateStep, StrayStep, RedisStep

\* The initial state satisfies the invariant.
LEMMA CapInit == Init => CapInv
<1> SUFFICES ASSUME Init PROVE CapInv
  OBVIOUS
<1>1. TypeOK
  BY TypeInit
<1>2. IntactLive /\ HeldInv
  BY DEF Init, IntactLive, HeldInv
<1>3. CapHolds
  <2> SUFFICES ASSUME NEW w \in intact
               PROVE  Total(Requests, Committed(w)) <= MaxCost[w] + Total(Requests, Overrun(w))
    BY DEF CapHolds
  <2>1. w \in Windows /\ w \in intact \ live
    BY DEF Init
  <2>2. Total(Requests, Committed(w)) = 0
    BY <1>1, <1>2, <2>1, AbsentOwesNothing
  <2>3. Total(Requests, Overrun(w)) \in Nat /\ MaxCost[w] \in Nat
    BY <1>1, <2>1, SumsType, QuotaAssumption
  <2> QED
    BY <2>2, <2>3
<1>4. SeedInv
  BY DEF Init, SeedInv
<1> QED
  BY <1>2, <1>3, <1>4 DEF CapInv

\* The invariant holds in every reachable state.
LEMMA CapInductive == Spec => [](IndInv /\ CapInv)
<1>1. ASSUME IndInv, CapInv, [Next]_vars PROVE CapInv'
  <2>1. IntactLive /\ HeldInv /\ CapHolds /\ SeedInv
    BY <1>1 DEF CapInv
  <2>2. TypeOK'
    BY <1>1, TypeStep DEF IndInv
  <2>3. IntactLive'
    BY <1>1, <2>1, IntactStep
  <2>4. HeldInv' /\ CapHolds'
    BY <1>1, <2>1, <2>2, HeldStep
  <2>5. SeedInv'
    BY <1>1, <2>1, <2>2, SeedStep
  <2> QED
    BY <2>3, <2>4, <2>5 DEF CapInv
<1> QED
  BY <1>1, CapInit, Inductive, PTL DEF Spec

\* For any number of requests, replicas and failures: while Redis keeps a
\* blocking window, what the requests of all replicas owe it never exceeds its
\* limit by more than they overran their own estimates.
THEOREM CapNeverCrossed == Spec => []CapHolds
<1>1. CapInv => CapHolds
  BY DEF CapInv
<1> QED
  BY <1>1, CapInductive, PTL

\* While Redis keeps a window, no adjustment of it is missing or late and no commit
\* is ambiguous, its live counter is exact, whatever rehydrations, resync passes and
\* seeds that timed out race with reservations, adjustments and flushes.
THEOREM CounterExact == Spec => []LiveCounterExact
<1>1. IndInv /\ CapInv => LiveCounterExact
  BY CleanExact DEF CapInv
<1> QED
  BY <1>1, CapInductive, PTL

\* A request never needs more than one seed round and one for each failure, so
\* the code's limit on rounds refuses a request only after failures.
THEOREM SeedingTerminates == Spec => []SeedRoundsBounded
<1>1. CapInv => SeedRoundsBounded
  BY DEF CapInv, SeedInv, SeedRoundsBounded
<1> QED
  BY <1>1, CapInductive, PTL
=============================================================================
