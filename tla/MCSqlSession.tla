---------------------------- MODULE MCSqlSession ----------------------------
(***************************************************************************)
(* SqlSession on small instances: three requests, two at once, two         *)
(* parameters.                                                             *)
(***************************************************************************)
EXTENDS SqlSession, TLC

Symmetry == Permutations(Requests) \cup Permutations(Params)
=============================================================================
