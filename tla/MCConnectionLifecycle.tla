------------------------ MODULE MCConnectionLifecycle ------------------------
(***************************************************************************)
(* ConnectionLifecycle on small instances: one connection, three             *)
(* requests on one slot, two cancelled.                                      *)
(***************************************************************************)
EXTENDS ConnectionLifecycle, TLC

CONSTANTS r1, r2, r3
RequestsThree == {r1, r2, r3}
=============================================================================
