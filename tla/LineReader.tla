----------------------------- MODULE LineReader -----------------------------
(***************************************************************************)
(* How the stdio server cuts its input into requests, server.py:           *)
(* _read_line and _skip_line over an asyncio.StreamReader whose limit is   *)
(* --max-request-bytes.  The bytes come in chunks of any size; a line that *)
(* is over the limit is reported once, with the id found in its head, and  *)
(* thrown away piece by piece.                                             *)
(*                                                                         *)
(* A byte is a newline, a digit or anything else.  The pattern             *)
(* `{"id": <digits>' is abstracted to the digits: a line starts with its   *)
(* id, and an id is told by the number of its digits that were read.       *)
(***************************************************************************)
EXTENDS Naturals, Sequences, FiniteSetsExt

CONSTANTS Limit,     \* --max-request-bytes
          IdHead,    \* _ID_HEAD_BYTES, how much of a long line is looked at
          MaxChunk,  \* the most the transport hands over at once
          MaxBytes   \* bound on the length of the input

\* Nothing in the code makes the limit larger than the head; the default is.
ASSUME ReaderAssumption == /\ {Limit, IdHead, MaxChunk, MaxBytes} \subseteq Nat \ {0}
                           /\ IdHead <= Limit + 1

VARIABLES input,   \* all the client ever writes
          arrived, \* how many bytes of it have reached the reader
          buffer,  \* the StreamReader's buffer
          eof,     \* has the reader been told that stdin is closed?
          pc,      \* where run()'s coroutine is: _read_line, _skip_line, ended
          id,      \* the id recovered from the oversized line being skipped
          out      \* what _read_line has returned or raised so far

vars == <<input, arrived, buffer, eof, pc, id, out>>

Byte == {"newline", "digit", "other"}
Inputs == UNION {[1..n -> Byte] : n \in 0..MaxBytes}

Newlines(s) == {i \in DOMAIN s : s[i] = "newline"}
\* The bytes before the first newline, or all of them.
Body(s) == IF Newlines(s) = {} THEN s ELSE SubSeq(s, 1, Min(Newlines(s)) - 1)
First(s, n) == SubSeq(s, 1, Min({n, Len(s)}))
IdOf(head) == CHOOSE n \in 0..Len(head) :
                /\ \A i \in 1..n : head[i] = "digit"
                /\ n < Len(head) => head[n + 1] # "digit"

Line(s)      == [kind |-> "line", body |-> s, id |-> 0]
Oversized(n) == [kind |-> "oversized", body |-> <<>>, id |-> n]

Init == /\ input \in Inputs
        /\ arrived = 0 /\ buffer = <<>> /\ eof = FALSE
        /\ pc = "line" /\ id = 0 /\ out = <<>>

-----------------------------------------------------------------------------
(* asyncio.StreamReader.  readuntil finds a whole line, or raises as soon  *)
(* as it knows the line is over the limit, or at the end of the input;     *)
(* otherwise it waits, and only then do bytes arrive: the transport, which *)
(* is paused at twice the limit, is never paused under a waiting reader.   *)

TooLongUnlimited == FALSE        \* faulty variant: no limit is passed on
TooLong  == Len(Body(buffer)) > Limit
Complete == Newlines(buffer) # {} /\ ~TooLong
AtEnd    == eof /\ Newlines(buffer) = {} /\ ~TooLong
Waiting  == pc # "ended" /\ ~TooLong /\ ~Complete /\ ~AtEnd

Arrive(n) == /\ Waiting
             /\ n \in 1..(Len(input) - arrived)
             /\ arrived' = arrived + n
             /\ buffer' = buffer \o SubSeq(input, arrived + 1, arrived + n)
             /\ UNCHANGED <<input, eof, pc, id, out>>

InputEnds == /\ Waiting
             /\ arrived = Len(input)
             /\ eof' = TRUE
             /\ UNCHANGED <<input, arrived, buffer, pc, id, out>>

Take(n) == buffer' = SubSeq(buffer, n + 1, Len(buffer))

-----------------------------------------------------------------------------
(* _read_line.                                                             *)

ReadLine == /\ pc = "line" /\ Complete
            /\ Take(Len(Body(buffer)) + 1)
            /\ out' = Append(out, Line(Body(buffer)))
            /\ UNCHANGED <<input, arrived, eof, pc, id>>

\* IncompleteReadError: what is left at the end counts as a line.
ReadPartial == /\ pc = "line" /\ AtEnd /\ buffer # <<>>
               /\ Take(Len(buffer))
               /\ out' = Append(out, Line(buffer))
               /\ UNCHANGED <<input, arrived, eof, pc, id>>

\* b"": run() leaves its loop.
ReadNothing == /\ pc = "line" /\ AtEnd /\ buffer = <<>>
               /\ pc' = "ended"
               /\ UNCHANGED <<input, arrived, buffer, eof, id, out>>

\* LimitOverrunError: the head is read for the id, and _skip_line called.
LineTooLong == /\ pc = "line" /\ TooLong
               /\ LET head == First(Body(buffer), IdHead) IN
                    /\ id' = IdOf(head)
                    /\ Take(Len(head))
               /\ pc' = "skip"
               /\ UNCHANGED <<input, arrived, eof, out>>

-----------------------------------------------------------------------------
(* _skip_line.                                                             *)

\* Faulty variants: the newline goes with what is before it; the piece stays.
SkipPieceAndNewline == /\ pc = "skip" /\ TooLong
                       /\ Take(Min({Len(Body(buffer)) + 1, Len(buffer)}))
                       /\ UNCHANGED <<input, arrived, eof, pc, id, out>>
SkipNothing == /\ pc = "skip" /\ TooLong
               /\ UNCHANGED vars
SkipPiece == /\ pc = "skip" /\ TooLong
             /\ Take(Len(Body(buffer)))
             /\ UNCHANGED <<input, arrived, eof, pc, id, out>>

Skipped == /\ pc' = "line"
           /\ out' = Append(out, Oversized(id))
           /\ UNCHANGED <<input, arrived, eof, id>>

SkipToNewline == pc = "skip" /\ Complete /\ Take(Len(Body(buffer)) + 1) /\ Skipped
SkipToEnd     == pc = "skip" /\ AtEnd /\ Take(Len(buffer)) /\ Skipped

-----------------------------------------------------------------------------
Reader == \/ ReadLine \/ ReadPartial \/ ReadNothing \/ LineTooLong
          \/ SkipPiece \/ SkipToNewline \/ SkipToEnd
Feed   == (\E n \in 1..MaxChunk : Arrive(n)) \/ InputEnds
Ended  == pc = "ended" /\ UNCHANGED vars

Next == Reader \/ Feed \/ Ended

\* The loop takes its steps, and the client's bytes arrive, the end included.
Spec == Init /\ [][Next]_vars /\ WF_vars(Reader) /\ WF_vars(Feed)

-----------------------------------------------------------------------------
(* The lines of the input, cut with the whole of it in hand.               *)

Outcome(s) == IF Len(s) <= Limit THEN Line(s) ELSE Oversized(IdOf(First(s, IdHead)))
LineEnds   == Newlines(input) \cup {Len(input) + 1}
Begins(e)  == Max({0} \cup {i \in Newlines(input) : i < e}) + 1
\* The last line has no newline, and is none if it is empty.
IsLine(e)  == e <= Len(input) \/ Begins(e) < e
Ends       == {e \in LineEnds : IsLine(e)}
\* The k-th line ends where k ends have come.
EndOf(k)   == CHOOSE e \in Ends : Cardinality({d \in Ends : d <= e}) = k
Expected   == [k \in 1..Cardinality(Ends) |->
                 Outcome(SubSeq(input, Begins(EndOf(k)), EndOf(k) - 1))]

\* However the bytes arrive, each line gives one outcome, in its order: the
\* whole of an oversized line is consumed, "so the next call starts on the
\* following request and one error is reported rather than two" (191-221).
LinesAreExact == /\ Len(out) <= Len(Expected)
                 /\ \A k \in DOMAIN out : out[k] = Expected[k]
                 /\ pc = "ended" => Len(out) = Len(Expected)

\* "A line past the cap is dropped rather than buffered without bound" (30-33):
\* what is held never exceeds the limit by more than one chunk.
BufferIsBounded == Len(buffer) <= Limit + MaxChunk

\* Once the input is at its end the loop is too.
LoopEnds == <>(pc = "ended")
=============================================================================
