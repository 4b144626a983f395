------------------------------ MODULE Pricing ------------------------------
(***************************************************************************)
(* What a request is thought to cost before it runs, what its tenant is    *)
(* charged after, and what the ledger records: integer arithmetic over a   *)
(* price table whose blocks take effect one after the other.               *)
(*                                                                         *)
(* Money is nanodollars, a rate nanodollars for a million tokens; the      *)
(* configuration gives rates in dollars, here tenths of a nanodollar.      *)
(***************************************************************************)
EXTENDS Integers, Sequences, FiniteSets, FiniteSetsExt

CONSTANT Half    \* half the values of an int and of an int64: 2^63

\* Products wrap around, and a quotient is cut off towards zero.
Wrap(n) == ((n + Half) % (2 * Half)) - Half

Quot(n, d) == IF n >= 0 THEN n \div d ELSE -((-n) \div d)

Fields == {"input", "output", "cacheRead", "cacheWrite"}

\* Mutation: a fraction of a nanodollar is rounded up.
TokenCostUp(rate, n) == Quot(Wrap(rate * n) + 999999, 1000000)

TokenCost(rate, n) == Quot(Wrap(rate * n), 1000000)

Cost(rates, usage) ==
  TokenCost(rates.input, usage.input) + TokenCost(rates.output, usage.output)
    + TokenCost(rates.cacheRead, usage.cacheRead) + TokenCost(rates.cacheWrite, usage.cacheWrite)

Total(usage) == usage.input + usage.output + usage.cacheRead + usage.cacheWrite

RatesValid(r) ==
  /\ \A f \in Fields : r[f] >= 0
  /\ ~(r.cacheRead > r.input /\ r.input > 0)

(***************************************************************************)
(* The price table: a sequence of blocks as they are listed.               *)
(***************************************************************************)

\* Half a nanodollar is added and the rest cut off.
FromDollars(tenths) == Quot(tenths + 5, 10)

ToRates(rc) == [f \in Fields |-> IF rc.free THEN 0 ELSE FromDollars(rc[f])]

validatePricing(table, targets) ==
  LET latest == table[Len(table)]
  IN  table # <<>> =>
        /\ \A i \in DOMAIN table :
             /\ table[i].from > 0
             /\ \A j \in DOMAIN table : table[j].from = table[i].from => j = i
             /\ \A t \in DOMAIN table[i].rates :
                  LET rc == table[i].rates[t]
                  IN  /\ t \in targets
                      /\ rc.free \/ rc.input # 0 \/ rc.output # 0
                      /\ RatesValid(ToRates(rc))
        /\ \A i \in DOMAIN table : DOMAIN table[i].rates \subseteq DOMAIN latest.rates

\* The last block that is in effect, and in it alone: no target is looked up in an earlier one.
RatesAt(table, at, t) ==
  LET past == {b \in {table[i] : i \in DOMAIN table} : b.from <= at}
      b    == CHOOSE x \in past : \A y \in past : y.from <= x.from
  IN  IF past = {} \/ t \notin DOMAIN b.rates THEN {}
      ELSE {[rates |-> ToRates(b.rates[t]), version |-> b.from]}

(***************************************************************************)
(* The estimate, the charge and the record of a request.                   *)
(***************************************************************************)

Usage(input, output, cacheRead) == [input |-> input, output |-> output, cacheRead |-> cacheRead, cacheWrite |-> 0]

EstimateTokens(p, maxOutput, choices, defaultMaxOutput) ==
  Usage((p.textBytes + 3) \div 4 + p.messages * 4 + p.mediaParts * 1000,
        Wrap((IF maxOutput <= 0 THEN defaultMaxOutput ELSE maxOutput) * (IF choices < 1 THEN 1 ELSE choices)), 0)

\* The counts a provider reports; cached tokens are part of the prompt's.
usage(reported) ==
  Usage(IF reported.prompt < reported.cached THEN 0 ELSE reported.prompt - reported.cached,
        reported.completion, reported.cached)

\* At the dearest target, never below zero, or none when no target has a price.
priceEstimate(table, targets, at, estimate) ==
  LET costs == {Cost(r.rates, estimate) : r \in UNION {RatesAt(table, at, targets[i]) : i \in DOMAIN targets}}
  IN  IF costs = {} THEN {} ELSE {Max(costs \cup {0})}

\* What a request that chosen served is charged; reserved is its reservation.
actualUsage(table, at, chosen, used, reserved) ==
  LET rates == RatesAt(table, at, chosen)
  IN  IF Total(used) = 0 THEN reserved
      ELSE IF rates = {} THEN 0 ELSE Cost((CHOOSE r \in rates : TRUE).rates, used)

comparisonTargets(targets, compare, chosen) == ({targets[i] : i \in DOMAIN targets} \cup compare) \ {chosen}

Price(table, at, targets, compare, chosen, used) ==
  LET others == comparisonTargets(targets, compare, chosen)
      cost(t) == {Cost(r.rates, used) : r \in RatesAt(table, at, t)}
  IN  {[actual |-> Cost(r.rates, used), version |-> r.version,
        counterfactuals |-> UNION {{[target |-> t, cost |-> c] : c \in cost(t)} : t \in others},
        unpriced |-> {t \in others : cost(t) = {}}] : r \in RatesAt(table, at, chosen)}
=============================================================================
