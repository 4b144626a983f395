------------------------------ MODULE DeltaLog ------------------------------
(***************************************************************************)
(* What a delta flusher promises: a delta handed to it is refused at once, *)
(* or held until a commit that contains it succeeds.  A delta it holds is  *)
(* given up only when the process shuts down.  This is the flusher as the  *)
(* quota enforcer sees it (AddDelta, Flush and FlushAmbiguous of module    *)
(* QuotaEnforcer); module Flusher implements it.                           *)
(***************************************************************************)
CONSTANT Deltas

VARIABLES
  held,      \* accepted, and not known to be in Postgres
  landed,    \* committed at least once
  refused,   \* dropped on arrival, or for want of room
  givenUp    \* still held when the process ended

logVars == <<held, landed, refused, givenUp>>

LogInit == held = {} /\ landed = {} /\ refused = {} /\ givenUp = {}

Accept(d) ==
  /\ d \notin held \cup landed \cup refused \cup givenUp
  /\ held' = held \cup {d}
  /\ UNCHANGED <<landed, refused, givenUp>>

\* Refused on arrival, or later, when there is no room for its counter.
Refuse(d) ==
  /\ d \notin landed \cup refused \cup givenUp
  /\ refused' = refused \cup {d}
  /\ held' = held \ {d}
  /\ UNCHANGED <<landed, givenUp>>

Persist(B) ==
  /\ B # {}
  /\ B \subseteq held
  /\ landed' = landed \cup B
  /\ held' = held \ B
  /\ UNCHANGED <<refused, givenUp>>

\* Committed without the flusher learning of it.
PersistUnawares(B) ==
  /\ B # {}
  /\ B \subseteq held
  /\ landed' = landed \cup B
  /\ UNCHANGED <<held, refused, givenUp>>

\* The process ends; the last commit may or may not have taken effect.
GiveUp(B) ==
  /\ B \subseteq held
  /\ landed' = landed \cup B
  /\ givenUp' = givenUp \cup held
  /\ held' = {}
  /\ UNCHANGED refused

LogNext ==
  \/ \E d \in Deltas : Accept(d) \/ Refuse(d)
  \/ \E B \in SUBSET Deltas : Persist(B) \/ PersistUnawares(B) \/ GiveUp(B)

LogSpec == LogInit /\ [][LogNext]_logVars
=============================================================================
