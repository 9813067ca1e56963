---------------------------- MODULE RequestServer ----------------------------
(***************************************************************************)
(* The stdio server's request lifecycle, server.py: the read loop, the     *)
(* task per line, the task table that makes requests cancellable, the      *)
(* responses, and the end of the process when stdin closes.                *)
(*                                                                         *)
(* The server runs on one asyncio event loop, and which interleavings      *)
(* happen is decided by the loop's FIFO queue of callbacks, so the queue   *)
(* is part of the model: `ready' holds what call_soon has scheduled, and   *)
(* one loop turn runs the entry at its head until it suspends.  The n-th   *)
(* line read becomes task n.  A handler's awaits are collapsed into two:   *)
(* it is suspended in the dispatcher ("running") until IoCompletes wakes   *)
(* it or a cancellation does, and a cancelled one may be suspended again   *)
(* in what its driver does on the way out ("cleaning"): a LOAD puts the    *)
(* session's formats back over the connection it was cancelled on.  The    *)
(* drivers whose library blocks hand the call to a thread, which no        *)
(* cancellation reaches.                                                   *)
(***************************************************************************)
EXTENDS Naturals, Sequences, FiniteSets

CONSTANTS Ids,          \* request ids the client uses; it may reuse one
          NoId,         \* no id: none decoded yet, or a cancel without target
          MaxLines,     \* bound on the number of lines the client writes
          FreshIds,     \* does the client never reuse an id, nor cancel an
                        \* id before it has used it?
          Unencodable   \* may a driver return a value json cannot encode?

ASSUME ServerAssumption == /\ NoId \notin Ids
                           /\ MaxLines \in Nat
                           /\ FreshIds \in BOOLEAN
                           /\ Unencodable \in BOOLEAN

VARIABLES ready,      \* the event loop's FIFO queue of scheduled callbacks
          task,       \* task[n]: the task made for the n-th line read
          cancelled,  \* tasks whose cancel() took effect
          tasks,      \* self._tasks: request id -> task number, 0 if absent
          req,        \* run()'s local `req', as the id of the request it holds
          phase,      \* how far the process is from its exit
          threads     \* tasks whose database call runs in an executor thread

vars == <<ready, task, cancelled, tasks, req, phase, threads>>

LineNo == 1..MaxLines
Kind   == {"request", "cancel", "bad"}
Task   == [kind   : Kind,
           id     : Ids \cup {NoId},
           target : Ids \cup {NoId},
           state  : {"created", "running", "cleaning", "done"},
           answer : {"pending", "ok", "error", "cancelled"}]

Event == {"main", "step", "callback", "stop"} \X (0..MaxLines)
Main        == <<"main", 0>>      \* run() resumes
Step(n)     == <<"step", n>>      \* task n starts, or is woken
Callback(n) == <<"callback", n>>  \* task n's done callback
Stop        == <<"stop", 0>>      \* run()'s own done callback stops the loop

AtHead(e)   == ready # <<>> /\ Head(ready) = e
Queued(e)   == \E i \in DOMAIN ready : ready[i] = e
Unfinished  == {n \in DOMAIN task : task[n].state # "done"}

Init == /\ ready = <<Main>>
        /\ task = <<>>
        /\ cancelled = {}
        /\ tasks = [i \in Ids |-> 0]
        /\ req = NoId
        /\ phase = "reading"
        /\ threads = {}

-----------------------------------------------------------------------------
(* The read loop.  run() keeps the loop while it finds whole lines in its  *)
(* buffer: readuntil only suspends when there is none.                     *)

NewTask(k, i, t) == [kind |-> k, id |-> i, target |-> t,
                     state |-> "created", answer |-> "pending"]
CreateTask(k, i, t) == /\ AtHead(Main)
                       /\ Len(task) < MaxLines
                       /\ task' = Append(task, NewTask(k, i, t))

MayUse(i) == FreshIds => \A n \in DOMAIN task : i \notin {task[n].id, task[n].target}

ReadRequest(i) == /\ CreateTask("request", i, NoId) /\ MayUse(i)
                  /\ ready' = Append(ready, Step(Len(task) + 1))
                  /\ tasks' = [tasks EXCEPT ![i] = Len(task) + 1]
                  /\ req' = i
                  /\ UNCHANGED <<cancelled, phase, threads>>

\* task.cancel(): a task that is suspended is woken to get the exception, one
\* that is about to run anyway gets it then, one that is done is not affected.
CanCancel(n) == n # 0 /\ task[n].state # "done"
WakeToCancel(q, n) == IF \E i \in DOMAIN q : q[i] = Step(n)
                      THEN q ELSE Append(q, Step(n))

\* Faulty variant: run() cancels the target itself instead of in a task.
ReadCancelInline(i, t) ==
  /\ CreateTask("cancel", i, t) /\ MayUse(i) /\ (FreshIds => i # t)
  /\ IF t # NoId /\ CanCancel(tasks[t])
     THEN cancelled' = cancelled \cup {tasks[t]}
     ELSE UNCHANGED cancelled
  /\ ready' = Append(ready, Step(Len(task) + 1))
  /\ req' = i
  /\ UNCHANGED <<tasks, phase, threads>>
ReadCancel(i, t) == /\ CreateTask("cancel", i, t) /\ MayUse(i) /\ (FreshIds => i # t)
                    /\ ready' = Append(ready, Step(Len(task) + 1))
                    /\ req' = i
                    /\ UNCHANGED <<cancelled, tasks, phase, threads>>

\* An undecodable or oversized line: a task that only sends an error, and
\* `req' keeps the last request that did decode.
ReadBadLine == /\ CreateTask("bad", NoId, NoId)
               /\ ready' = Append(ready, Step(Len(task) + 1))
               /\ UNCHANGED <<cancelled, tasks, req, phase, threads>>

AwaitLine == /\ AtHead(Main) /\ phase = "reading"
             /\ ready' = Tail(ready)
             /\ UNCHANGED <<task, cancelled, tasks, req, phase, threads>>

DataArrives == /\ phase = "reading" /\ ~Queued(Main)
               /\ ready' = Append(ready, Main)
               /\ UNCHANGED <<task, cancelled, tasks, req, phase, threads>>

\* Faulty variant: `continue' on the empty line instead of `break'.
EndOfInputContinues == /\ AtHead(Main)
                       /\ ready' = Append(Tail(ready), Main)
                       /\ phase' = "stopping"
                       /\ UNCHANGED <<task, cancelled, tasks, req, threads>>
\* A line that is not UTF-8 ends run() in the same way, as an error: what
\* json.loads then raises is not the JSONDecodeError that decode() expects.
EndOfInput == /\ AtHead(Main)
              /\ ready' = Append(Tail(ready), Stop)
              /\ phase' = "stopping"
              /\ UNCHANGED <<task, cancelled, tasks, req, threads>>

-----------------------------------------------------------------------------
(* _handle: one request.                                                   *)

Finish(n, a) == task' = [task EXCEPT ![n].state = "done", ![n].answer = a]

\* dispatch() suspends: on the semaphore, the database, a file, or on a thread
\* that runs the driver's blocking call.
Suspend(n) == /\ AtHead(Step(n)) /\ n \in DOMAIN task
              /\ task[n].kind = "request" /\ task[n].state = "created"
              /\ n \notin cancelled
              /\ task' = [task EXCEPT ![n].state = "running"]
              /\ ready' = Tail(ready)
              /\ threads' \in {threads, threads \cup {n}}
              /\ UNCHANGED <<cancelled, tasks, req, phase>>

IoCompletes(n) == /\ n \in DOMAIN task /\ task[n].state = "running"
                  /\ ~Queued(Step(n))
                  /\ ready' = Append(ready, Step(n))
                  /\ threads' = threads \ {n}
                  /\ UNCHANGED <<task, cancelled, tasks, req, phase>>

\* The thread of a call nobody waits for any more comes back.
ThreadReturns(n) == /\ n \in threads
                    /\ task[n].state # "running" \/ Queued(Step(n))
                    /\ threads' = threads \ {n}
                    /\ UNCHANGED <<ready, task, cancelled, tasks, req, phase>>

\* dispatch() returns or raises, and the response is written: _send takes a
\* lock nobody holds across an await, so it does not suspend.  A result that
\* encode() cannot serialise raises outside _handle's try and is never sent.
Outcomes(n) == {"ok", "error"} \cup (IF Unencodable THEN {"pending"} ELSE {})
Respond(n) == /\ AtHead(Step(n)) /\ n \in DOMAIN task
              /\ task[n].kind = "request" /\ task[n].state \in {"created", "running"}
              /\ n \notin cancelled
              /\ \E a \in Outcomes(n) : Finish(n, a)
              /\ ready' = Append(Tail(ready), Callback(n))
              /\ UNCHANGED <<cancelled, tasks, req, phase, threads>>

\* CancelledError reaches the task.  The driver may have something to await on
\* its way out (_restore_load_formats in the finally of a LOAD), over the same
\* database that has not answered; a second cancellation ends that too.
BeginCleanup(n) == /\ AtHead(Step(n)) /\ n \in DOMAIN task
                   /\ task[n].kind = "request" /\ task[n].state = "running"
                   /\ n \in cancelled
                   /\ task' = [task EXCEPT ![n].state = "cleaning"]
                   /\ ready' = Tail(ready)
                   /\ UNCHANGED <<cancelled, tasks, req, phase, threads>>

CleanupCompletes(n) == /\ n \in DOMAIN task /\ task[n].state = "cleaning"
                       /\ ~Queued(Step(n))
                       /\ ready' = Append(ready, Step(n))
                       /\ UNCHANGED <<task, cancelled, tasks, req, phase, threads>>

\* It leaves dispatch() and is answered; a task that has not started yet dies
\* before _handle's try is entered.
CancelReraised(n) == "pending"   \* faulty variant: re-raised unanswered
CancelSwallowed(n) == "error"    \* faulty variant: caught as an exception
CancelAnswer(n) == "cancelled"
\* Faulty variant: goes on waiting for the database.
DeliverCancelShielded(n) ==
  /\ AtHead(Step(n)) /\ n \in DOMAIN task
  /\ task[n].kind = "request" /\ task[n].state # "done"
  /\ n \in cancelled
  /\ task' = [task EXCEPT ![n].state = "running"]
  /\ ready' = Tail(ready)
  /\ UNCHANGED <<cancelled, tasks, req, phase, threads>>
DeliverCancel(n) ==
  /\ AtHead(Step(n)) /\ n \in DOMAIN task
  /\ task[n].kind = "request" /\ task[n].state # "done"
  /\ n \in cancelled
  /\ Finish(n, IF task[n].state = "created" THEN "pending" ELSE CancelAnswer(n))
  /\ ready' = Append(Tail(ready), Callback(n))
  /\ UNCHANGED <<cancelled, tasks, req, phase, threads>>

\* task.add_done_callback(lambda _: self._tasks.pop(req.id, None)): `req' is
\* run()'s local, so the id popped is that of the last request decoded.
RunDoneCallback(n) == /\ AtHead(Callback(n))
                      /\ tasks' = [tasks EXCEPT ![req] = 0]
                      /\ ready' = Tail(ready)
                      /\ UNCHANGED <<task, cancelled, req, phase, threads>>

-----------------------------------------------------------------------------
(* _handle_cancel, and the task that reports a bad line.                   *)

TargetOwnId(m) == tasks[task[m].id]  \* faulty variant: looks up its own id
Target(m) == tasks[task[m].target]

HandleCancel(m) ==
  /\ AtHead(Step(m)) /\ m \in DOMAIN task
  /\ task[m].kind = "cancel" /\ task[m].target # NoId
  /\ Finish(m, "ok")
  /\ IF CanCancel(Target(m))
     THEN /\ cancelled' = cancelled \cup {Target(m)}
          /\ ready' = WakeToCancel(Tail(ready), Target(m))
     ELSE ready' = Tail(ready) /\ UNCHANGED cancelled
  /\ UNCHANGED <<tasks, req, phase, threads>>

\* A cancel without an integer request_id, or a line that was not a request.
ReportError(m) == /\ AtHead(Step(m)) /\ m \in DOMAIN task
                  /\ \/ task[m].kind = "bad"
                     \/ task[m].kind = "cancel" /\ task[m].target = NoId
                  /\ Finish(m, "error")
                  /\ ready' = Tail(ready)
                  /\ UNCHANGED <<cancelled, tasks, req, phase, threads>>

-----------------------------------------------------------------------------
(* The end: asyncio.run cancels what run() left behind, waits for it, and  *)
(* the interpreter joins the executor's threads.                           *)

\* Loop iterations are not told apart: entries behind Stop may still run
\* before CancelAll does.
StopLoop == /\ AtHead(Stop) /\ ready' = Tail(ready)
            /\ phase' = "stopped"
            /\ UNCHANGED <<task, cancelled, tasks, req, threads>>

ToWake == {n \in Unfinished : ~Queued(Step(n))}
CancelAll == /\ phase = "stopped"
             /\ phase' = "draining"
             /\ cancelled' = cancelled \cup Unfinished
             /\ \E q \in [1..Cardinality(ToWake) -> {Step(n) : n \in ToWake}] :
                  /\ \A n \in ToWake : \E i \in DOMAIN q : q[i] = Step(n)
                  /\ ready' = ready \o q
             /\ UNCHANGED <<task, tasks, req, threads>>

Exit == /\ phase = "draining" /\ Unfinished = {} /\ threads = {}
        /\ phase' = "exited"
        /\ UNCHANGED <<ready, task, cancelled, tasks, req, threads>>

Exited == phase = "exited" /\ UNCHANGED vars

LoopTurn == \/ AwaitLine \/ EndOfInput \/ StopLoop \/ CancelAll \/ Exit
            \/ \E n \in LineNo : \/ Suspend(n) \/ Respond(n)
                                 \/ BeginCleanup(n) \/ DeliverCancel(n)
                                 \/ RunDoneCallback(n)
                                 \/ HandleCancel(n) \/ ReportError(n)

Reads == \/ \E i \in Ids : ReadRequest(i)
         \/ \E i \in Ids, t \in Ids \cup {NoId} : ReadCancel(i, t)
         \/ ReadBadLine

Next == \/ Reads \/ LoopTurn \/ DataArrives \/ Exited
        \/ \E n \in LineNo : IoCompletes(n) \/ CleanupCompletes(n) \/ ThreadReturns(n)

\* The loop always takes its next turn; what the client sends and whether a
\* database call, a cleanup or a thread ever returns are not promised.
Spec == Init /\ [][Next]_vars /\ WF_vars(LoopTurn)

-----------------------------------------------------------------------------
\* The state has its type: the queue holds only events of known tasks, the
\* table only tasks that exist.
TypeOK == /\ ready \in Seq(Event)
          /\ task \in Seq(Task) /\ Len(task) <= MaxLines
          /\ cancelled \subseteq DOMAIN task
          /\ tasks \in [Ids -> 0..Len(task)]
          /\ req \in Ids \cup {NoId}
          /\ phase \in {"reading", "stopping", "stopped", "draining", "exited"}
          /\ threads \subseteq DOMAIN task

\* No request vanishes: a task that has ended has written its response, also
\* when it was cancelled right after it was read (server.py 134-172).  It is
\* the order of the queue that makes this so: a task cancelled before its
\* first step would end without one.
DoneIsAnswered == \A n \in DOMAIN task :
                    task[n].state = "done" => task[n].answer # "pending"

\* cancel never hits a bystander: a request is only ever cancelled because
\* some cancel line named its id, or because the process is ending, whatever
\* ids are reused and whatever the table's callbacks removed (160-172).
OnlyNamedAreCancelled ==
  \A n \in cancelled :
    \/ phase \in {"draining", "exited"}
    \/ /\ task[n].kind = "request"
       /\ \E m \in DOMAIN task : /\ task[m].kind = "cancel"
                                 /\ task[m].target = task[n].id
                                 /\ task[m].answer = "ok"

\* A cancellation that reached a task settles its answer: the client is never
\* told "ok" for the cancel and then given the result anyway.
CancelIsFinal == \A n \in cancelled :
                   task[n].kind = "request" => task[n].answer \in {"pending", "cancelled"}

\* README 110, "cancel an in-flight request by its id", and the comment on
\* _tasks (server.py 78), "Maps request id to its in-flight task": every
\* request suspended in the dispatcher can be found under its id, unless the
\* client itself has since reused that id.
InFlightIsRegistered ==
  \A n \in DOMAIN task :
    task[n].state = "running" =>
      \/ tasks[task[n].id] = n
      \/ \E m \in DOMAIN task : /\ m > n /\ task[m].kind = "request"
                                /\ task[m].id = task[n].id

\* What the two promises below depend on, and the server cannot give: a driver
\* that is cancelled finishes its cleanup, and a blocking call its thread.
CleanupsEnd   == \A n \in LineNo : WF_vars(CleanupCompletes(n))
ThreadsReturn == \A n \in LineNo : WF_vars(ThreadReturns(n))

\* A cancellation that reached a task is answered even if the database call it
\* interrupts never returns, in a thread or not (server.py 134-158), as long
\* as what the driver awaits on its way out comes to an end: a LOAD hung on its
\* session hangs in _restore_load_formats too, until it is cancelled again.
CancelIsAnswered ==
  CleanupsEnd => \A n \in LineNo : (n \in cancelled) ~> (n \notin Unfinished)

\* Closing stdin ends the process (__main__.py 38-39), even with database calls
\* that never return: as long as no driver hangs in its cleanup, and a blocking
\* call does not hang in its thread, which the exit has to join.
EndOfInputExits ==
  CleanupsEnd /\ ThreadsReturn => ((phase = "stopping") ~> (phase = "exited"))

\* Over databases that answer, every line the client wrote gets its answer.
CallsReturn == \A n \in LineNo : WF_vars(IoCompletes(n))
EveryLineAnswered ==
  CallsReturn /\ CleanupsEnd => \A n \in LineNo :
    (n \in DOMAIN task) ~> (n \in DOMAIN task /\ task[n].answer # "pending")

\* The server, seen by a client, is a RequestService.
AbstractPhase == CASE phase = "reading" -> "open"
                   [] phase = "exited"  -> "closed"
                   [] OTHER             -> "ending"
Service == INSTANCE RequestService
             WITH answers <- [n \in DOMAIN task |-> task[n].answer],
                  asked <- cancelled, phase <- AbstractPhase
ImplementsService == Service!SSpec
=============================================================================
