---------------------------- MODULE MCOracleLoad ----------------------------
(***************************************************************************)
(* OracleLoad on every file of up to four records: rows, rows of two lines,  *)
(* rows with a field too few, rows the table rejects, blank lines.           *)
(***************************************************************************)
EXTENDS OracleLoad

Row(lines, width, good) == [lines |-> lines, width |-> width, good |-> good]
Records == {Row(1, 2, TRUE), Row(2, 2, TRUE), Row(1, 1, TRUE), Row(1, 2, FALSE),
            Row(1, 0, TRUE)}
MCFiles == UNION {[1..n -> Records] : n \in 0..4}

\* decodes: the record at which the file stops being text; 0 for none.
MCOptions ==
  {[columns |-> c, header |-> h, skip |-> s, batch |-> b, decodes |-> d] :
     c \in {0, 2}, h \in BOOLEAN, s \in {0, 1}, b \in {2}, d \in {0, 1, 3}}
=============================================================================
