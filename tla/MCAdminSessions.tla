-------------------------- MODULE MCAdminSessions --------------------------
(***************************************************************************)
(* AdminSessions with four calls, which are interchangeable.               *)
(***************************************************************************)
EXTENDS AdminSessions, TLC

Symmetry == Permutations(Calls)
=============================================================================
