------------------------------ MODULE MCFlusher ------------------------------
(* An instance of Flusher for TLC: four deltas on three counters. *)
EXTENDS Flusher

CONSTANTS d1, d2, d3, d4, k1, k2, k3

MCKeyOf == [d \in Deltas |-> IF d \in {d1, d2} THEN k1 ELSE IF d = d3 THEN k2 ELSE k3]
=============================================================================
