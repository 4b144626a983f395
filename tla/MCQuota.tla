------------------------------- MODULE MCQuota -------------------------------
(* Instances of QuotaEnforcer for TLC. *)
EXTENDS QuotaEnforcer

CONSTANTS r1, r2, p1, p2, month, minute

\* Requests are routed alternately.
MCHost == [r \in Requests |-> IF r = r2 THEN p2 ELSE p1]
MCHostOne == [r \in Requests |-> p1]

MCSpans == {Windows, {month}}
MCMaxCost == [w \in Windows |-> IF w = month THEN 3 ELSE 2]
MCBlock == [w \in Windows |-> w = month]
=============================================================================
