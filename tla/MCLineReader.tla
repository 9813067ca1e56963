---------------------------- MODULE MCLineReader ----------------------------
(***************************************************************************)
(* LineReader over every input of up to seven bytes, with a limit of two.  *)
(***************************************************************************)
EXTENDS LineReader
=============================================================================
