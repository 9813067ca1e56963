--------------------------- MODULE RequestService ---------------------------
(***************************************************************************)
(* What a client of the stdio server may rely on, with no event loop, no   *)
(* task table and no drivers: every line it writes is answered exactly     *)
(* once, a request is answered "cancelled" exactly when its cancellation   *)
(* was asked for before it was answered, and the process only ends when    *)
(* every line has its answer.  RequestServer is shown to implement it.     *)
(***************************************************************************)
EXTENDS Naturals, Sequences

VARIABLES answers,  \* answers[n]: the answer to the n-th line read
          asked,    \* the lines whose cancellation was asked for
          phase     \* "open", "ending" (input is at its end) or "closed"

svars == <<answers, asked, phase>>

Answer == {"ok", "error", "cancelled"}
Pending == {n \in DOMAIN answers : answers[n] = "pending"}

SInit == answers = <<>> /\ asked = {} /\ phase = "open"

Accept == /\ phase = "open"
          /\ answers' = Append(answers, "pending")
          /\ UNCHANGED <<asked, phase>>

Reply(n, a) == /\ n \in Pending
               /\ a \in Answer
               /\ (a = "cancelled") <=> (n \in asked)
               /\ answers' = [answers EXCEPT ![n] = a]

Respond == /\ \E n \in Pending, a \in Answer : Reply(n, a)
           /\ UNCHANGED <<asked, phase>>

\* A cancel line is answered in the step that asks for the cancellation.
Ask == /\ \E m \in Pending, n \in Pending :
            Reply(m, "ok") /\ m # n /\ asked' = asked \cup {n}
       /\ UNCHANGED phase

EndOfInput == phase = "open" /\ phase' = "ending" /\ UNCHANGED <<answers, asked>>

\* Whatever is still pending when the input has ended is cancelled.
CancelRest == /\ phase = "ending"
              /\ asked' = asked \cup Pending
              /\ UNCHANGED <<answers, phase>>

Close == /\ phase = "ending" /\ Pending = {}
         /\ phase' = "closed"
         /\ UNCHANGED <<answers, asked>>

SNext == Accept \/ Respond \/ Ask \/ EndOfInput \/ CancelRest \/ Close

SSpec == SInit /\ [][SNext]_svars
=============================================================================
