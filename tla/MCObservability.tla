-------------------------- MODULE MCObservability --------------------------
(***************************************************************************)
(* The sink and the readers of what it writes on one instance: three       *)
(* decisions of the tenant asked about and one of another, two of the same *)
(* time, in two groups.                                                    *)
(***************************************************************************)
EXTENDS Observability

MCDecisions == 1..4

MCRow ==
  <<[tenant |-> "a", ts |-> 1, key |-> "x", cost |-> 1, compared |-> TRUE],
    [tenant |-> "a", ts |-> 2, key |-> "x", cost |-> 1, compared |-> FALSE],
    [tenant |-> "a", ts |-> 2, key |-> "y", cost |-> 1, compared |-> TRUE],
    [tenant |-> "b", ts |-> 2, key |-> "x", cost |-> 2, compared |-> TRUE]>>
=============================================================================
