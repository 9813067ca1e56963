------------------------------ MODULE OracleLoad ------------------------------
(***************************************************************************)
(* LOAD of the Oracle driver (_execute_load, _load_batch; read_rows of      *)
(* load.py): a local file read record by record and inserted a batch per    *)
(* round trip, into a transaction the user commits.  Between two round      *)
(* trips the session may be lost, and with it the transaction; the          *)
(* dispatcher then reconnects and runs the whole command again, once.  With *)
(* other requests on the connection the user may commit in between.         *)
(*                                                                         *)
(* The formats a LOAD borrows from the session are SqlSession's.  The names *)
(* in a header are taken for identifiers.                                  *)
(***************************************************************************)
EXTENDS SequencesExt

CONSTANTS Files,          \* files: sequences of csv records [lines, width, good]
          Options,        \* [columns, header, skip, batch, decodes]
          MaxCommits,     \* bound on the COMMITs and ROLLBACKs
          MaxConcurrency  \* requests on the connection at once

ASSUME LoadAssumption ==
  /\ Files \subseteq Seq([lines : Nat \ {0}, width : Nat, good : BOOLEAN])
  /\ \A o \in Options :
       /\ {o.columns, o.skip} \subseteq Nat /\ o.batch \in Nat \ {0}
       /\ o.header \in BOOLEAN /\ o.decodes \in Nat
  /\ MaxCommits \in Nat /\ MaxConcurrency \in Nat \ {0}

VARIABLES file, options,  \* the LOAD; columns is 0 if it names none
          pc,       \* "reading", "sending", "lost", "done" or "failed"
          at,       \* the csv records read
          batch,    \* the records read and not sent yet, by their place
          loaded,   \* what the answer will count
          attempt,  \* 1, or 2 after the session was lost
          work,     \* the session's transaction: records, as they were inserted
          table,    \* the committed records
          error,    \* the line an error names; 0 if it names none
          commits,  \* how many COMMITs and ROLLBACKs there were
          kept,     \* history: was part of the LOAD committed while it ran?
          refused   \* history: did the INSERT fail as a whole, for no row of it?

vars == <<file, options, pc, at, batch, loaded, attempt, work, table, error, commits,
          kept, refused>>

-----------------------------------------------------------------------------
(* read_rows.                                                              *)

\* The reader's line_num after n records of f: a quoted field may span lines.
line_num(f, n) == FoldLeft(LAMBDA sum, r : sum + r.lines, 0, SubSeq(f, 1, n))
Record == file[at + 1]
AtEnd  == at = Len(file)
\* A blank line is a record of no fields.
IsBlank(i) == file[i].width = 0

\* SKIP drops records, blank ones too; then comes the header.
HeaderAt == options.skip + 1
Start    == LET n == options.skip + (IF options.header THEN 1 ELSE 0)
            IN  IF n < Len(file) THEN n ELSE Len(file)
Data     == {i \in DOMAIN file : i > Start /\ ~IsBlank(i)}

\* Every row has as many fields as the columns named, in the command or in the
\* header, or else as the first row.
Width ==
  CASE options.columns > 0 -> options.columns
    [] options.columns = 0 /\ options.header /\ HeaderAt <= Len(file)
         /\ ~IsBlank(HeaderAt) -> file[HeaderAt].width
    [] OTHER -> file[Min(Data)].width

-----------------------------------------------------------------------------
(* The LOAD.                                                               *)

Begin ==    \* the locals of a new attempt
  /\ pc' = "reading" /\ at' = Start /\ batch' = <<>> /\ loaded' = 0

Init ==
  /\ file \in Files /\ options \in Options
  /\ pc = "reading" /\ at = Start /\ batch = <<>> /\ loaded = 0
  /\ attempt = 1
  /\ work = <<>> /\ table = <<>> /\ error = 0 /\ commits = 0 /\ kept = FALSE
  /\ refused = FALSE

Reads == /\ pc = "reading"
         /\ UNCHANGED <<file, options, attempt, work, table, commits, kept, refused>>

\* Reading the record options tell fails, also among those skipped: it is no text
\* of the encoding, or no csv.  The error names no line.
NoText == options.decodes \in 1..(at + 1) /\ options.decodes <= Len(file)

SkipBlank ==
  /\ Reads /\ ~AtEnd /\ ~NoText /\ IsBlank(at + 1)
  /\ at' = at + 1
  /\ UNCHANGED <<pc, batch, loaded, error>>

ReadRow ==
  /\ Reads /\ ~AtEnd /\ ~NoText /\ ~IsBlank(at + 1)
  /\ Record.width = Width
  /\ at' = at + 1
  /\ batch' = Append(batch, at + 1)
  /\ pc' = IF Len(batch') >= options.batch THEN "sending" ELSE "reading"
  /\ UNCHANGED <<loaded, error>>

RowIsRagged ==
  /\ Reads /\ ~AtEnd /\ ~NoText /\ ~IsBlank(at + 1)
  /\ Record.width # Width
  /\ pc' = "failed" /\ error' = line_num(file, at + 1)
  /\ UNCHANGED <<at, batch, loaded>>

FileIsNoText ==
  /\ Reads /\ NoText
  /\ pc' = "failed"
  /\ UNCHANGED <<at, batch, loaded, error>>

ReadEnd ==
  /\ Reads /\ AtEnd /\ ~NoText
  /\ pc' = IF batch = <<>> THEN "done" ELSE "sending"
  /\ UNCHANGED <<at, batch, loaded, error>>

Sends == pc = "sending" /\ UNCHANGED <<file, options, at, attempt, table, commits, kept>>

\* executemany stops at the first row the database rejects.
Bad == {i \in DOMAIN batch : ~file[batch[i]].good}
Accepted == IF Bad = {} THEN batch ELSE SubSeq(batch, 1, Min(Bad) - 1)

_load_batch ==
  /\ Sends /\ Bad = {}
  /\ work' = work \o Accepted
  /\ loaded' = loaded + Len(batch) /\ batch' = <<>>
  /\ pc' = IF AtEnd THEN "done" ELSE "reading"
  /\ UNCHANGED <<error, refused>>

BatchIsRejectedAtReader ==      \* faulty variant: names the line read last
  /\ Sends /\ Bad # {}
  /\ work' = work \o Accepted
  /\ error' = line_num(file, at)
  /\ pc' = "failed"
  /\ UNCHANGED <<batch, loaded, refused>>
BatchIsRejected ==
  /\ Sends /\ Bad # {}
  /\ work' = work \o Accepted
  /\ error' = line_num(file, batch[Len(Accepted) + 1])    \* Len(Accepted) is rowcount
  /\ pc' = "failed"
  /\ UNCHANGED <<batch, loaded, refused>>

\* The whole INSERT fails: its table is gone, or a privilege.  No row of the batch
\* is in, and a rowcount of 0 makes the error name the batch's first line.
StatementFails ==
  /\ Sends
  /\ error' = line_num(file, batch[1])
  /\ refused' = TRUE
  /\ pc' = "failed"
  /\ UNCHANGED <<batch, loaded, work>>

\* Cancelled while it waits for the database, which may have the batch already;
\* what it has stays in the transaction.
Cancel ==
  /\ pc \in {"sending", "lost"}
  /\ pc' = "failed"
  /\ work' \in {work} \cup (IF pc = "sending" THEN {work \o Accepted} ELSE {})
  /\ UNCHANGED <<file, options, at, batch, loaded, attempt, table, error, commits,
                 kept, refused>>

-----------------------------------------------------------------------------
(* The session, and the user.                                              *)

\* The session goes: the database rolls its transaction back, whether or not
\* the batch that finds out had been inserted.
LoseSession ==
  /\ work' = <<>>
  /\ pc' = IF pc # "sending" THEN pc ELSE IF attempt = 1 THEN "lost" ELSE "failed"
  /\ pc \in {"sending", "done", "failed"}
  /\ UNCHANGED <<file, options, at, batch, loaded, attempt, table, error, commits,
                 kept, refused>>

RetryResumes ==         \* faulty variant: the second attempt goes on
  /\ pc = "lost" /\ pc' = "sending" /\ attempt' = 2
  /\ UNCHANGED <<file, options, at, batch, loaded, work, table, error, commits, kept,
                 refused>>
RetryOnce ==
  /\ pc = "lost" /\ attempt' = 2
  /\ Begin
  /\ UNCHANGED <<file, options, work, table, error, commits, kept, refused>>

\* The connection has a slot for another statement.
Free == pc \in {"done", "failed"} \/ (MaxConcurrency > 1 /\ pc # "lost")
EndTransaction ==
  /\ Free /\ commits < MaxCommits
  /\ commits' = commits + 1
  /\ work' = <<>>
  /\ kept' = (kept \/ pc \notin {"done", "failed"})
  /\ UNCHANGED <<file, options, pc, at, batch, loaded, attempt, error, refused>>

Commit == EndTransaction /\ table' = table \o work
Rollback == EndTransaction /\ UNCHANGED table

Next ==
  \/ SkipBlank \/ ReadRow \/ RowIsRagged \/ FileIsNoText \/ ReadEnd
  \/ _load_batch \/ BatchIsRejected \/ StatementFails
  \/ Cancel \/ LoseSession \/ RetryOnce \/ Commit \/ Rollback

Spec == Init /\ [][Next]_vars

-----------------------------------------------------------------------------
(* Properties.                                                             *)

Count(s, i) == Cardinality({n \in DOMAIN s : s[n] = i})

\* However often the session is lost, no row of the file is loaded twice, and
\* after a LOAD that answered, its rows are committed all or none: the second
\* attempt may start over because the lost session took the first one's rows
\* with it ("Writes are not auto-committed", HELP).  A COMMIT or ROLLBACK while
\* the LOAD runs is the one thing that parts its rows.
LoadIsOnce ==
  ~kept => /\ \A i \in Data : Count(table \o work, i) <= 1
           /\ pc = "done" =>
                /\ loaded = Cardinality(Data)
                /\ ToSet(table) \in {{}, Data} /\ ToSet(work) \in {{}, Data}

\* "A row Oracle rejects aborts the load, naming the line it occupies in the
\* file (counting from 1, header included); rows already sent stay uncommitted"
\* (HELP): the line named is the last one of the first bad row, past skipped
\* lines, header, blank lines and rows of several lines, in whichever batch; and
\* only rows before it are loaded.  (When the INSERT fails as a whole no row was
\* rejected, and the line named, the batch's first, may hold a good one.)
LineIsNamed ==
  error > 0 /\ ~refused =>
    LET wrong == {i \in Data : file[i].width # Width \/ ~file[i].good}
    IN  \E i \in wrong :
          /\ error = line_num(file, i)
          /\ \A n \in ToSet(table \o work) : n < i
          /\ \A j \in {x \in wrong : x < i} :
               \* a bad row still unsent when a ragged one is read
               file[i].width # Width /\ file[j].width = Width /\ j \in ToSet(batch)
=============================================================================
