--------------------------- MODULE MCRequestServer ---------------------------
(***************************************************************************)
(* RequestServer on small instances: two request ids, so that ids are      *)
(* reused and cancels name running, finished and unknown requests.         *)
(***************************************************************************)
EXTENDS RequestServer
=============================================================================
