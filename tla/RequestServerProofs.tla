------------------------ MODULE RequestServerProofs ------------------------
(***************************************************************************)
(* The stdio server, for any number of lines and any request ids: cancel   *)
(* hits only requests that were named and settles their answer, and with a *)
(* client that does not reuse ids every task that has ended has answered,  *)
(* so that the server implements RequestService.                           *)
(*                                                                         *)
(* What carries the proof is the order of the event loop's queue: the      *)
(* first step of a task that has not started is in the queue, before the   *)
(* step of any task made later, hence of any that could cancel it, and     *)
(* before the end of the loop.                                             *)
(***************************************************************************)
EXTENDS RequestServer, FiniteSetTheorems, SequenceTheorems, TLAPS

-----------------------------------------------------------------------------
(* Queues of events.                                                       *)

In(q, e)   == \E i \in DOMAIN q : q[i] = e
\* e must not run before the first step of task n.
Late(e, n) == e = Stop \/ \E m \in LineNo : m > n /\ e = Step(m)
Single(e)  == e = Main \/ e = Stop \/ \E n \in LineNo : e = Step(n)

Ordered(q, S) == \A n \in S, i \in DOMAIN q :
                   Late(q[i], n) => \E j \in 1..(i - 1) : q[j] = Step(n)
Once(q) == \A i, j \in DOMAIN q : Single(q[i]) /\ q[i] = q[j] => i = j
\* The queue q fits the set S of the tasks that have not started.
QueueFits(q, S) == (\A n \in S : In(q, Step(n))) /\ Ordered(q, S) /\ Once(q)

\* Taking the head of the queue: what it held is held, but for that one event.
LEMMA Popped ==
  ASSUME NEW q \in Seq(Event), q # <<>>, NEW S \in SUBSET LineNo, NEW T \in SUBSET S,
         QueueFits(q, S), \A n \in T : Head(q) # Step(n)
  PROVE  /\ Tail(q) \in Seq(Event)
         /\ QueueFits(Tail(q), T)
         /\ \A e : In(Tail(q), e) => In(q, e)
         /\ Single(Head(q)) => ~In(Tail(q), Head(q))
<1> DEFINE t == Tail(q)
<1>1. Len(q) \in Nat /\ Len(q) >= 1 /\ DOMAIN q = 1..Len(q) /\ Head(q) = q[1]
  BY LenProperties, EmptySeq
<1>2. /\ t \in Seq(Event) /\ DOMAIN t = 1..(Len(q) - 1)
      /\ \A i \in 1..(Len(q) - 1) : t[i] = q[i + 1]
  BY HeadTailProperties, LenProperties
<1> HIDE DEF t
<1>3. \A i \in DOMAIN t : i + 1 \in DOMAIN q /\ t[i] = q[i + 1] /\ i + 1 # 1
  BY <1>1, <1>2
<1>4. \A e : In(t, e) => In(q, e)
  BY <1>3 DEF In
<1>5. Single(Head(q)) => ~In(t, Head(q))
  BY <1>1, <1>3 DEF In, QueueFits, Once
<1>6. Once(t)
  <2> SUFFICES ASSUME NEW i \in DOMAIN t, NEW j \in DOMAIN t, Single(t[i]), t[i] = t[j]
               PROVE  i = j
    BY DEF Once
  <2>1. i + 1 = j + 1
    BY <1>3 DEF QueueFits, Once
  <2> QED BY <1>1, <1>2, <2>1
<1>7. \A n \in T : In(t, Step(n))
  <2> SUFFICES ASSUME NEW n \in T PROVE In(t, Step(n))
    OBVIOUS
  <2>1. PICK i \in DOMAIN q : q[i] = Step(n)
    BY DEF QueueFits, In
  <2>2. i - 1 \in DOMAIN t /\ t[i - 1] = q[i]
    BY <1>1, <1>2, <2>1
  <2> QED BY <2>1, <2>2 DEF In
<1>8. Ordered(t, T)
  <2> SUFFICES ASSUME NEW n \in T, NEW i \in DOMAIN t, Late(t[i], n)
               PROVE  \E j \in 1..(i - 1) : t[j] = Step(n)
    BY DEF Ordered
  <2>1. PICK j \in 1..((i + 1) - 1) : q[j] = Step(n)
    BY <1>3 DEF QueueFits, Ordered
  <2>2. j # 1
    BY <1>1, <2>1
  <2>3. j - 1 \in 1..(i - 1) /\ t[j - 1] = q[j]
    BY <1>1, <1>2, <2>1, <2>2
  <2> QED BY <2>1, <2>3
<1> QED BY <1>2, <1>4, <1>5, <1>6, <1>7, <1>8 DEF QueueFits, t

\* Scheduling at the end of the queue what is not in it, or may be twice.
LEMMA Joined ==
  ASSUME NEW q \in Seq(Event), NEW p \in Seq(Event), NEW S \in SUBSET LineNo,
         QueueFits(q, S), Once(p),
         \A i \in DOMAIN p : Single(p[i]) => ~In(q, p[i])
  PROVE  /\ q \o p \in Seq(Event)
         /\ QueueFits(q \o p, S)
         /\ \A e : In(q \o p, e) <=> In(q, e) \/ In(p, e)
<1> DEFINE r == q \o p
<1>1. /\ Len(q) \in Nat /\ Len(p) \in Nat
      /\ DOMAIN q = 1..Len(q) /\ DOMAIN p = 1..Len(p)
  BY LenProperties
<1>2. /\ r \in Seq(Event) /\ DOMAIN r = 1..(Len(q) + Len(p))
      /\ \A i \in 1..(Len(q) + Len(p)) :
           r[i] = IF i <= Len(q) THEN q[i] ELSE p[i - Len(q)]
  BY ConcatProperties, LenProperties
<1> HIDE DEF r
<1>3. \A i \in DOMAIN q : i \in DOMAIN r /\ r[i] = q[i]
  BY <1>1, <1>2
<1>4. \A i \in DOMAIN p : i + Len(q) \in DOMAIN r /\ r[i + Len(q)] = p[i]
  BY <1>1, <1>2
<1>5. \A i \in DOMAIN r : \/ i \in DOMAIN q /\ r[i] = q[i]
                          \/ i - Len(q) \in DOMAIN p /\ r[i] = p[i - Len(q)] /\ i > Len(q)
  BY <1>1, <1>2
<1>6. \A e : In(r, e) <=> In(q, e) \/ In(p, e)
  BY <1>3, <1>4, <1>5 DEF In
<1>7. Once(r)
  <2> SUFFICES ASSUME NEW i \in DOMAIN r, NEW j \in DOMAIN r, Single(r[i]), r[i] = r[j]
               PROVE  i = j
    BY DEF Once
  <2>1. CASE i \in DOMAIN q /\ r[i] = q[i]
    BY <1>5, <2>1 DEF QueueFits, Once, In
  <2>2. CASE i - Len(q) \in DOMAIN p /\ r[i] = p[i - Len(q)] /\ i > Len(q)
    <3>1. j - Len(q) \in DOMAIN p /\ r[j] = p[j - Len(q)]
      BY <1>5, <2>2 DEF In
    <3>2. i - Len(q) = j - Len(q)
      BY <2>2, <3>1 DEF Once
    <3> QED BY <1>1, <1>2, <3>2
  <2> QED BY <1>5, <2>1, <2>2
<1>8. Ordered(r, S)
  <2> SUFFICES ASSUME NEW n \in S, NEW i \in DOMAIN r, Late(r[i], n)
               PROVE  \E j \in 1..(i - 1) : r[j] = Step(n)
    BY DEF Ordered
  <2>1. CASE i \in DOMAIN q /\ r[i] = q[i]
    <3>1. PICK j \in 1..(i - 1) : q[j] = Step(n)
      BY <2>1 DEF QueueFits, Ordered
    <3>2. j \in DOMAIN q
      BY <1>1, <2>1
    <3> QED BY <1>3, <3>1, <3>2
  <2>2. CASE i > Len(q)
    <3>1. PICK j \in DOMAIN q : q[j] = Step(n)
      BY DEF QueueFits, In
    <3>2. j \in 1..(i - 1)
      BY <1>1, <1>2, <2>2
    <3> QED BY <1>3, <3>1, <3>2
  <2> QED BY <1>5, <2>1, <2>2
<1> QED BY <1>2, <1>3, <1>6, <1>7, <1>8 DEF QueueFits, In, r

\* The same for one event, which may be the first step of one more task.
LEMMA Pushed ==
  ASSUME NEW q \in Seq(Event), NEW e \in Event, NEW S \in SUBSET LineNo,
         QueueFits(q, S), Single(e) => ~In(q, e)
  PROVE  /\ Append(q, e) \in Seq(Event)
         /\ QueueFits(Append(q, e), S)
         /\ \A x : In(Append(q, e), x) <=> In(q, x) \/ x = e
<1> DEFINE p == <<e>>
<1>1. p \in Seq(Event) /\ Append(q, e) = q \o p
  BY AppendIsConcat
<1>2. DOMAIN p = {1} /\ p[1] = e
  OBVIOUS
<1> HIDE DEF p
<1>3. Once(p) /\ \A x : In(p, x) <=> x = e
  BY <1>2 DEF Once, In
<1>4. \A i \in DOMAIN p : Single(p[i]) => ~In(q, p[i])
  BY <1>2
<1>5. /\ q \o p \in Seq(Event)
      /\ QueueFits(q \o p, S)
      /\ \A x : In(q \o p, x) <=> In(q, x) \/ In(p, x)
  BY <1>1, <1>3, <1>4, Joined
<1> QED BY <1>1, <1>3, <1>5

\* The first step of a new task goes in behind everything older.
LEMMA PushedNew ==
  ASSUME NEW q \in Seq(Event), NEW n \in LineNo, NEW S \in SUBSET LineNo,
         QueueFits(q, S), ~In(q, Step(n)), \A e : In(q, e) => ~Late(e, n)
  PROVE  QueueFits(Append(q, Step(n)), S \cup {n})
<1> DEFINE r == Append(q, Step(n))
<1>1. Step(n) \in Event
  BY DEF Step, Event, LineNo
<1>2. /\ Len(q) \in Nat /\ DOMAIN q = 1..Len(q) /\ DOMAIN r = 1..(Len(q) + 1)
      /\ \A i \in 1..Len(q) : r[i] = q[i]
      /\ r[Len(q) + 1] = Step(n)
  BY <1>1, AppendProperties, LenProperties
<1>3. QueueFits(r, S) /\ In(r, Step(n))
  BY <1>1, Pushed
<1> HIDE DEF r
<1>4. \A i \in DOMAIN r : ~Late(r[i], n)
  <2> SUFFICES ASSUME NEW i \in DOMAIN r PROVE ~Late(r[i], n)
    OBVIOUS
  <2>1. CASE i \in DOMAIN q
    BY <1>2, <2>1 DEF In
  <2>2. CASE i = Len(q) + 1
    BY <1>2, <2>2 DEF Late, Step, Stop, LineNo
  <2> QED BY <1>2, <2>1, <2>2
<1> QED BY <1>3, <1>4 DEF QueueFits, Ordered, r

-----------------------------------------------------------------------------
(* The invariant.                                                          *)

Created == {n \in DOMAIN task : task[n].state = "created"}

PhaseFits == /\ In(ready, Main) => phase = "reading"
             /\ In(ready, Stop) => phase = "stopping"
             /\ phase \notin {"reading", "stopping"} => Created = {}
StepsFit  == \A n \in LineNo : In(ready, Step(n)) => n \in Unfinished
QueueInv  == QueueFits(ready, Created) /\ PhaseFits /\ StepsFit

TableIsExact == \A i \in Ids : tasks[i] # 0 =>
                  task[tasks[i]].kind = "request" /\ task[tasks[i]].id = i
TasksFit == \A n \in DOMAIN task :
              /\ task[n].state # "done" => task[n].answer = "pending"
              /\ task[n].state \in {"running", "cleaning"} => task[n].kind = "request"
OnlyRequests == \A n \in cancelled : task[n].kind = "request"
TaskInv == TableIsExact /\ TasksFit /\ OnlyRequests

IInv == TypeOK /\ QueueInv /\ TaskInv /\ OnlyNamedAreCancelled /\ CancelIsFinal

\* What the types say in the form the proofs use.
LEMMA Facts ==
  ASSUME TypeOK
  PROVE  /\ Len(task) \in Nat /\ DOMAIN task = 1..Len(task)
         /\ DOMAIN task \subseteq LineNo /\ Created \subseteq LineNo
         /\ \A n \in DOMAIN task : task[n] \in Task
         /\ \A n \in LineNo : Step(n) \in Event /\ Single(Step(n))
         /\ \A n \in LineNo : Callback(n) \in Event /\ ~Single(Callback(n))
         /\ Main \in Event /\ Stop \in Event /\ Single(Main) /\ Single(Stop)
         /\ \A e : AtHead(e) => In(ready, e)
         /\ \A e : Queued(e) <=> In(ready, e)
<1>1. Len(task) \in Nat /\ DOMAIN task = 1..Len(task) /\ Len(task) <= MaxLines
  BY LenProperties DEF TypeOK
<1>2. \A n \in DOMAIN task : task[n] \in Task
  BY <1>1, ElementOfSeq DEF TypeOK
<1>3. /\ \A n \in LineNo : Step(n) \in Event /\ Single(Step(n))
      /\ \A n \in LineNo : Callback(n) \in Event /\ ~Single(Callback(n))
      /\ Main \in Event /\ Stop \in Event /\ Single(Main) /\ Single(Stop)
  BY ServerAssumption DEF Step, Callback, Main, Stop, Event, LineNo, Single
<1>4. ASSUME NEW e, AtHead(e) PROVE In(ready, e)
  <2>1. ready # <<>> /\ e = Head(ready)
    BY <1>4 DEF AtHead
  <2>2. Len(ready) \in Nat /\ Len(ready) # 0 /\ DOMAIN ready = 1..Len(ready)
    BY <2>1, LenProperties, EmptySeq DEF TypeOK
  <2>3. Head(ready) = ready[1]
    BY <2>1 DEF TypeOK
  <2> QED BY <2>1, <2>2, <2>3 DEF In
<1>5. \A e : Queued(e) <=> In(ready, e)
  BY DEF Queued, In
<1> QED BY <1>1, <1>2, <1>3, <1>4, <1>5, ServerAssumption DEF LineNo, Created

\* A task moves on: only its state and its answer change.
LEMMA Moved ==
  ASSUME TypeOK, NEW n \in DOMAIN task,
         NEW st \in {"created", "running", "cleaning", "done"},
         NEW a \in {"pending", "ok", "error", "cancelled"},
         task' = [task EXCEPT ![n].state = st, ![n].answer = a]
  PROVE  /\ task' \in Seq(Task) /\ Len(task') = Len(task) /\ DOMAIN task' = DOMAIN task
         /\ \A m \in DOMAIN task : /\ task'[m].kind = task[m].kind
                                   /\ task'[m].id = task[m].id
                                   /\ task'[m].target = task[m].target
         /\ \A m \in DOMAIN task \ {n} : task'[m] = task[m]
         /\ task'[n].state = st /\ task'[n].answer = a
<1> DEFINE e == [task[n] EXCEPT !.state = st, !.answer = a]
<1>1. task[n] \in Task /\ n \in 1..Len(task)
  BY Facts
<1>2. /\ e \in Task /\ e.state = st /\ e.answer = a /\ e.kind = task[n].kind
      /\ e.id = task[n].id /\ e.target = task[n].target
  BY <1>1 DEF Task
<1>3. task' = [task EXCEPT ![n] = e]
  OBVIOUS
<1> HIDE DEF e
<1>4. /\ task' \in Seq(Task) /\ Len(task') = Len(task)
      /\ \A m \in 1..Len(task) : task'[m] = IF m = n THEN e ELSE task[m]
  <2>1. task \in Seq(Task) /\ e \in Task
    BY <1>2 DEF TypeOK
  <2> HIDE DEF TypeOK
  <2>2. /\ [task EXCEPT ![n] = e] \in Seq(Task)
        /\ Len([task EXCEPT ![n] = e]) = Len(task)
        /\ \A m \in 1..Len(task) : [task EXCEPT ![n] = e][m] = IF m = n THEN e ELSE task[m]
    BY <1>1, <2>1, ExceptSeq
  <2> QED BY <1>3, <2>2
<1>5. DOMAIN task' = DOMAIN task /\ DOMAIN task = 1..Len(task)
  BY <1>4, Facts, LenProperties
<1> QED BY <1>1, <1>2, <1>4, <1>5

-----------------------------------------------------------------------------
(* The read loop.                                                          *)

\* A new task is the last of the sequence, and the others stay as they are.
LEMMA Appended ==
  ASSUME TypeOK, NEW k \in Kind, NEW i \in Ids \cup {NoId}, NEW t \in Ids \cup {NoId},
         CreateTask(k, i, t)
  PROVE  /\ task' \in Seq(Task) /\ Len(task') = Len(task) + 1 /\ Len(task') <= MaxLines
         /\ DOMAIN task' = DOMAIN task \cup {Len(task) + 1}
         /\ \A n \in DOMAIN task : task'[n] = task[n]
         /\ task'[Len(task) + 1] = NewTask(k, i, t)
         /\ Len(task) + 1 \in LineNo /\ Len(task) + 1 \notin DOMAIN task
<1>1. Len(task) + 1 \in LineNo /\ Len(task) + 1 \notin DOMAIN task
  BY Facts, ServerAssumption DEF CreateTask, LineNo
<1>2. NewTask(k, i, t) \in Task
  BY DEF NewTask, Task
<1> QED BY <1>1, <1>2, Facts, AppendProperties, LenProperties DEF CreateTask, TypeOK, LineNo

\* A line is read: one more task, its first step at the end of the queue.
LEMMA Added ==
  ASSUME IInv, NEW k \in Kind, NEW i \in Ids \cup {NoId}, NEW t \in Ids \cup {NoId},
         CreateTask(k, i, t), ready' = Append(ready, Step(Len(task) + 1)),
         UNCHANGED <<cancelled, phase, threads>>
  PROVE  /\ task' \in Seq(Task) /\ Len(task') = Len(task) + 1 /\ Len(task') <= MaxLines
         /\ DOMAIN task' = DOMAIN task \cup {Len(task) + 1}
         /\ \A n \in DOMAIN task : task'[n] = task[n]
         /\ task'[Len(task) + 1] = NewTask(k, i, t)
         /\ cancelled' \subseteq DOMAIN task' /\ threads' \subseteq DOMAIN task'
         /\ ready' \in Seq(Event)
         /\ QueueInv' /\ TasksFit' /\ OnlyRequests' /\ OnlyNamedAreCancelled' /\ CancelIsFinal'
<1> DEFINE n == Len(task) + 1
<1>0. TypeOK /\ QueueInv /\ TaskInv /\ QueueFits(ready, Created)
  BY DEF IInv, QueueInv
<1>1. n \in LineNo /\ n \notin DOMAIN task
  BY <1>0, Appended
<1>3. /\ task' \in Seq(Task) /\ Len(task') = Len(task) + 1 /\ Len(task') <= MaxLines
      /\ DOMAIN task' = DOMAIN task \cup {n}
      /\ \A m \in DOMAIN task : task'[m] = task[m]
      /\ task'[n] = NewTask(k, i, t)
  BY <1>0, Appended
<1>4. ~In(ready, Step(n)) /\ \A e : In(ready, e) => ~Late(e, n)
  <2>1. ~In(ready, Stop)
    BY <1>0, Facts DEF CreateTask, QueueInv, PhaseFits
  <2>2. \A m \in LineNo : In(ready, Step(m)) => m \in DOMAIN task
    BY <1>0 DEF QueueInv, StepsFit, Unfinished
  <2> QED BY <1>0, <1>1, <2>1, <2>2, Facts DEF Late
<1>5. Created' = Created \cup {n}
  BY <1>3 DEF Created, NewTask
<1>6. /\ ready' \in Seq(Event) /\ QueueFits(ready', Created')
      /\ \A e : In(ready', e) <=> In(ready, e) \/ e = Step(n)
  <2>1. ready \in Seq(Event) /\ Created \in SUBSET LineNo /\ Step(n) \in Event
    BY <1>0, <1>1, Facts DEF TypeOK
  <2>2. QueueFits(ready', Created')
    BY <1>0, <1>1, <1>4, <1>5, <2>1, PushedNew
  <2> QED BY <1>0, <1>4, <2>1, <2>2, Pushed
<1>7. PhaseFits' /\ StepsFit'
  <2>1. phase = "reading"
    BY <1>0, Facts DEF CreateTask, QueueInv, PhaseFits
  <2>2. PhaseFits'
    BY <1>0, <1>6, <2>1 DEF QueueInv, PhaseFits, Step, Main, Stop
  <2>3. n \in Unfinished' /\ Unfinished \subseteq Unfinished'
    BY <1>3 DEF Unfinished, NewTask
  <2>4. ASSUME NEW m \in LineNo, In(ready', Step(m)) PROVE m \in Unfinished'
    BY <1>0, <1>6, <2>3, <2>4 DEF QueueInv, StepsFit, Step
  <2> QED BY <2>2, <2>4 DEF StepsFit
<1>8. TasksFit'
  BY <1>0, <1>3 DEF TaskInv, TasksFit, NewTask
<1>9. /\ cancelled' \subseteq DOMAIN task' /\ threads' \subseteq DOMAIN task'
      /\ OnlyRequests' /\ CancelIsFinal'
  BY <1>0, <1>3 DEF IInv, TypeOK, TaskInv, OnlyRequests, CancelIsFinal
<1>10. OnlyNamedAreCancelled'
  <2>1. \A m \in DOMAIN task : m \in DOMAIN task' /\ task'[m] = task[m]
    BY <1>3
  <2> QED BY <1>0, <2>1 DEF IInv, TypeOK, OnlyNamedAreCancelled
<1> QED BY <1>3, <1>6, <1>7, <1>8, <1>9, <1>10 DEF QueueInv

\* Reading a line, of whatever kind, keeps the invariant.
LEMMA ReadsPreserve == ASSUME IInv, Reads PROVE IInv'
<1>0. TypeOK /\ TableIsExact /\ DOMAIN task = 1..Len(task) /\ Len(task) \in Nat
  BY Facts DEF IInv, TaskInv
<1>1. ASSUME NEW i \in Ids, ReadRequest(i) PROVE IInv'
  <2>1. /\ task' \in Seq(Task) /\ Len(task') = Len(task) + 1 /\ Len(task') <= MaxLines
        /\ DOMAIN task' = DOMAIN task \cup {Len(task) + 1}
        /\ \A n \in DOMAIN task : task'[n] = task[n]
        /\ task'[Len(task) + 1] = NewTask("request", i, NoId)
        /\ cancelled' \subseteq DOMAIN task' /\ threads' \subseteq DOMAIN task'
        /\ ready' \in Seq(Event)
        /\ QueueInv' /\ TasksFit' /\ OnlyRequests' /\ OnlyNamedAreCancelled' /\ CancelIsFinal'
    BY <1>1, Added DEF ReadRequest, Kind
  <2>2. TypeOK'
    BY <1>0, <1>1, <2>1 DEF ReadRequest, TypeOK
  <2>3. TableIsExact'
    BY <1>0, <1>1, <2>1 DEF ReadRequest, TypeOK, TableIsExact, NewTask
  <2> QED BY <2>1, <2>2, <2>3 DEF IInv, TaskInv
<1>2. ASSUME NEW k \in Kind, NEW i \in Ids \cup {NoId}, NEW t \in Ids \cup {NoId},
             CreateTask(k, i, t), ready' = Append(ready, Step(Len(task) + 1)),
             UNCHANGED <<cancelled, tasks, phase, threads>>, req' \in Ids \cup {NoId}
      PROVE  IInv'
  <2>1. /\ task' \in Seq(Task) /\ Len(task') = Len(task) + 1 /\ Len(task') <= MaxLines
        /\ DOMAIN task' = DOMAIN task \cup {Len(task) + 1}
        /\ \A n \in DOMAIN task : task'[n] = task[n]
        /\ cancelled' \subseteq DOMAIN task' /\ threads' \subseteq DOMAIN task'
        /\ ready' \in Seq(Event)
        /\ QueueInv' /\ TasksFit' /\ OnlyRequests' /\ OnlyNamedAreCancelled' /\ CancelIsFinal'
    BY <1>2, Added
  <2>2. TypeOK'
    BY <1>0, <1>2, <2>1 DEF TypeOK
  <2>3. TableIsExact'
    BY <1>0, <1>2, <2>1 DEF TypeOK, TableIsExact
  <2> QED BY <2>1, <2>2, <2>3 DEF IInv, TaskInv
<1>3. ASSUME NEW i \in Ids, NEW t \in Ids \cup {NoId}, ReadCancel(i, t) PROVE IInv'
  BY <1>2, <1>3 DEF ReadCancel, Kind
<1>4. ASSUME ReadBadLine PROVE IInv'
  BY <1>0, <1>2, <1>4 DEF ReadBadLine, Kind, TypeOK
<1> QED BY <1>1, <1>3, <1>4 DEF Reads

-----------------------------------------------------------------------------
(* Turns of the loop that leave the tasks alone.                           *)

\* What is said of the tasks stays true while the tasks do.
LEMMA TasksUntouched ==
  ASSUME IInv, UNCHANGED <<task, cancelled, req>>,
         ready' \in Seq(Event), QueueInv',
         tasks' \in [Ids -> 0..Len(task)], \A i \in Ids : tasks'[i] \in {0, tasks[i]},
         phase' \in {"reading", "stopping", "stopped", "draining", "exited"},
         phase \in {"draining", "exited"} => phase' \in {"draining", "exited"},
         threads' \subseteq threads
  PROVE  IInv'
<1>1. TypeOK'
  BY DEF IInv, TypeOK
<1>2. TaskInv'
  BY DEF IInv, TypeOK, TaskInv, TableIsExact, TasksFit, OnlyRequests
<1>3. OnlyNamedAreCancelled' /\ CancelIsFinal'
  BY DEF IInv, OnlyNamedAreCancelled, CancelIsFinal
<1> QED BY <1>1, <1>2, <1>3 DEF IInv

\* So do the steps that only move the queue, the table or the phase.
LEMMA QueueTurns ==
  ASSUME IInv,
         \/ AwaitLine \/ DataArrives \/ EndOfInput \/ StopLoop \/ Exit
         \/ \E n \in LineNo : \/ IoCompletes(n) \/ CleanupCompletes(n)
                              \/ ThreadReturns(n) \/ RunDoneCallback(n)
  PROVE  IInv'
<1>0. /\ TypeOK /\ QueueInv /\ QueueFits(ready, Created) /\ PhaseFits /\ StepsFit
      /\ ready \in Seq(Event) /\ Created \in SUBSET LineNo
      /\ tasks \in [Ids -> 0..Len(task)] /\ Len(task) \in Nat
  BY Facts DEF IInv, QueueInv, TypeOK
<1>1. ASSUME NEW e, AtHead(e), \A n \in LineNo : e # Step(n)
      PROVE  /\ Tail(ready) \in Seq(Event) /\ QueueFits(Tail(ready), Created)
             /\ \A x : In(Tail(ready), x) => In(ready, x)
             /\ Single(e) => ~In(Tail(ready), e)
             /\ In(ready, e)
  BY <1>0, <1>1, Popped, Facts DEF AtHead
<1>2. CASE AwaitLine
  <2>1. /\ ready' \in Seq(Event) /\ QueueFits(ready', Created)
        /\ \A x : In(ready', x) => In(ready, x)
    BY <1>1, <1>2 DEF AwaitLine, Main, Step
  <2>2. UNCHANGED <<task, phase, Created, Unfinished>>
    BY <1>2 DEF AwaitLine, Created, Unfinished
  <2>3. QueueInv'
    BY <1>0, <2>1, <2>2 DEF QueueInv, PhaseFits, StepsFit
  <2> QED BY <1>0, <1>2, <2>1, <2>3, TasksUntouched DEF AwaitLine, TypeOK
<1>3. CASE DataArrives
  <2>1. /\ ready' \in Seq(Event) /\ QueueFits(ready', Created)
        /\ \A x : In(ready', x) <=> In(ready, x) \/ x = Main
    BY <1>0, <1>3, Pushed, Facts DEF DataArrives
  <2>2. UNCHANGED <<task, phase, Created, Unfinished>> /\ phase = "reading"
    BY <1>3 DEF DataArrives, Created, Unfinished
  <2>3. QueueInv'
    BY <1>0, <2>1, <2>2 DEF QueueInv, PhaseFits, StepsFit, Main, Stop, Step
  <2> QED BY <1>0, <1>3, <2>1, <2>3, TasksUntouched DEF DataArrives, TypeOK
<1>4. CASE EndOfInput
  <2>1. /\ Tail(ready) \in Seq(Event) /\ QueueFits(Tail(ready), Created)
        /\ \A x : In(Tail(ready), x) => In(ready, x)
        /\ ~In(Tail(ready), Main) /\ In(ready, Main)
    BY <1>0, <1>1, <1>4, Facts DEF EndOfInput, Main, Step
  <2>2. phase = "reading" /\ phase' = "stopping" /\ ~In(Tail(ready), Stop)
    BY <1>0, <1>4, <2>1 DEF EndOfInput, PhaseFits
  <2>3. /\ ready' \in Seq(Event) /\ QueueFits(ready', Created)
        /\ \A x : In(ready', x) <=> In(Tail(ready), x) \/ x = Stop
    BY <1>0, <1>4, <2>1, <2>2, Pushed, Facts DEF EndOfInput
  <2>4. UNCHANGED <<task, Created, Unfinished>>
    BY <1>4 DEF EndOfInput, Created, Unfinished
  <2>5. QueueInv'
    BY <1>0, <2>1, <2>2, <2>3, <2>4 DEF QueueInv, PhaseFits, StepsFit, Main, Stop, Step
  <2> QED BY <1>0, <1>4, <2>2, <2>3, <2>5, TasksUntouched DEF EndOfInput, TypeOK
<1>5. CASE StopLoop
  <2>1. /\ ready' \in Seq(Event) /\ QueueFits(ready', Created)
        /\ \A x : In(ready', x) => In(ready, x)
        /\ ~In(ready', Stop) /\ In(ready, Stop)
    BY <1>0, <1>1, <1>5, Facts DEF StopLoop, Stop, Step
  <2>2. phase = "stopping" /\ phase' = "stopped" /\ ~In(ready', Main)
    BY <1>0, <1>5, <2>1 DEF StopLoop, PhaseFits
  <2>3. Created = {}
    <3>1. 1 \in DOMAIN ready /\ ready[1] = Stop
      BY <1>0, <1>5, LenProperties, EmptySeq DEF StopLoop, AtHead
    <3>2. \A n \in Created : \E j \in 1..(1 - 1) : ready[j] = Step(n)
      BY <1>0, <3>1 DEF QueueFits, Ordered, Late
    <3> QED BY <3>2
  <2>4. UNCHANGED <<task, Created, Unfinished>>
    BY <1>5 DEF StopLoop, Created, Unfinished
  <2>5. QueueInv'
    BY <1>0, <2>1, <2>2, <2>3, <2>4 DEF QueueInv, PhaseFits, StepsFit
  <2> QED BY <1>0, <1>5, <2>1, <2>2, <2>5, TasksUntouched DEF StopLoop, TypeOK
<1>6. CASE Exit
  <2>1. UNCHANGED <<ready, task, Created, Unfinished>> /\ phase = "draining" /\ phase' = "exited"
    BY <1>6 DEF Exit, Created, Unfinished
  <2>2. QueueInv'
    BY <1>0, <2>1 DEF QueueInv, PhaseFits, StepsFit
  <2> QED BY <1>0, <1>6, <2>1, <2>2, TasksUntouched DEF Exit, TypeOK
<1>7. ASSUME NEW n \in LineNo, IoCompletes(n) \/ CleanupCompletes(n) PROVE IInv'
  <2>1. /\ ready' \in Seq(Event) /\ QueueFits(ready', Created)
        /\ \A x : In(ready', x) <=> In(ready, x) \/ x = Step(n)
    <3>1. ready' = Append(ready, Step(n)) /\ ~In(ready, Step(n)) /\ Step(n) \in Event
      BY <1>0, <1>7, Facts DEF IoCompletes, CleanupCompletes
    <3> QED BY <1>0, <3>1, Pushed
  <2>2. UNCHANGED <<task, phase, Created, Unfinished>> /\ n \in Unfinished
    BY <1>7 DEF IoCompletes, CleanupCompletes, Created, Unfinished
  <2>3. PhaseFits'
    BY <1>0, <2>1, <2>2 DEF PhaseFits, Main, Stop, Step
  <2>4. StepsFit'
    BY <1>0, <2>1, <2>2 DEF StepsFit, Step
  <2>5. QueueInv'
    BY <2>1, <2>2, <2>3, <2>4 DEF QueueInv
  <2>6. /\ UNCHANGED <<task, cancelled, tasks, req, phase>>
        /\ threads' \subseteq threads
    BY <1>7 DEF IoCompletes, CleanupCompletes
  <2> QED BY <1>0, <2>1, <2>5, <2>6, TasksUntouched DEF TypeOK
<1>8. ASSUME NEW n \in LineNo, RunDoneCallback(n) PROVE IInv'
  <2>1. /\ ready' \in Seq(Event) /\ QueueFits(ready', Created)
        /\ \A x : In(ready', x) => In(ready, x)
    BY <1>1, <1>8 DEF RunDoneCallback, Callback, Step
  <2>2. UNCHANGED <<task, phase, Created, Unfinished>>
    BY <1>8 DEF RunDoneCallback, Created, Unfinished
  <2>3. QueueInv'
    BY <1>0, <2>1, <2>2 DEF QueueInv, PhaseFits, StepsFit
  <2>4. tasks' \in [Ids -> 0..Len(task)] /\ \A i \in Ids : tasks'[i] \in {0, tasks[i]}
    <3>1. tasks' = [tasks EXCEPT ![req] = 0] /\ 0 \in 0..Len(task)
      BY <1>0, <1>8 DEF RunDoneCallback
    <3>2. \A i \in Ids : tasks'[i] = IF i = req THEN 0 ELSE tasks[i]
      BY <1>0, <3>1
    <3> QED BY <1>0, <3>1, <3>2
  <2> QED BY <1>0, <1>8, <2>1, <2>3, <2>4, TasksUntouched DEF RunDoneCallback, TypeOK
<1>9. ASSUME NEW n \in LineNo, ThreadReturns(n) PROVE IInv'
  <2>1. /\ UNCHANGED <<ready, task, cancelled, tasks, req, phase, Created, Unfinished>>
        /\ threads' \subseteq threads
    BY <1>9 DEF ThreadReturns, Created, Unfinished
  <2>2. QueueInv'
    BY <1>0, <2>1 DEF QueueInv, PhaseFits, StepsFit
  <2> QED BY <1>0, <2>1, <2>2, TasksUntouched DEF TypeOK
<1> QED BY <1>2, <1>3, <1>4, <1>5, <1>6, <1>7, <1>8, <1>9

-----------------------------------------------------------------------------
(* A task takes a step.                                                    *)

\* What it does to the tasks and to the queue, whatever else it does.
LEMMA Handled ==
  ASSUME IInv, NEW n \in DOMAIN task,
         In(ready, Step(n)), ~In(Tail(ready), Step(n)),
         NEW st \in {"running", "cleaning", "done"}, st # "done" => task[n].kind = "request",
         NEW a \in {"pending", "ok", "error", "cancelled"}, st # "done" => a = "pending",
         task' = [task EXCEPT ![n].state = st, ![n].answer = a],
         ready' \in Seq(Event), QueueFits(ready', Created \ {n}),
         \A x : In(ready', x) =>
           \/ In(ready, x) /\ x # Step(n)
           \/ \E m \in LineNo : x = Callback(m)
           \/ \E m \in Unfinished \ {n} : x = Step(m),
         cancelled' \subseteq DOMAIN task, threads' \subseteq DOMAIN task,
         UNCHANGED <<tasks, req, phase>>
  PROVE  TypeOK' /\ QueueInv' /\ TableIsExact' /\ TasksFit'
<1>0. TypeOK /\ PhaseFits /\ StepsFit /\ TableIsExact /\ TasksFit /\ n \in Unfinished
  BY Facts DEF IInv, QueueInv, TaskInv, StepsFit
<1>1. /\ task' \in Seq(Task) /\ Len(task') = Len(task) /\ DOMAIN task' = DOMAIN task
      /\ \A m \in DOMAIN task : /\ task'[m].kind = task[m].kind
                                /\ task'[m].id = task[m].id
      /\ \A m \in DOMAIN task \ {n} : task'[m] = task[m]
      /\ task'[n].state = st /\ task'[n].answer = a
  BY <1>0, Moved
<1>2. TypeOK'
  BY <1>0, <1>1 DEF TypeOK
<1>3. Created' = Created \ {n} /\ Unfinished \ {n} \subseteq Unfinished'
  BY <1>1 DEF Created, Unfinished
<1>4. PhaseFits'
  BY <1>0, <1>3 DEF PhaseFits, Main, Stop, Step, Callback
<1>5. StepsFit'
  <2> SUFFICES ASSUME NEW m \in LineNo, In(ready', Step(m)) PROVE m \in Unfinished'
    BY DEF StepsFit
  <2>1. m \in Unfinished \ {n}
    BY <1>0 DEF StepsFit, Step, Callback
  <2> QED BY <1>3, <2>1
<1>6. TableIsExact'
  BY <1>0, <1>1, Facts DEF TableIsExact, TypeOK
<1>7. TasksFit'
  BY <1>0, <1>1 DEF TasksFit
<1> QED BY <1>2, <1>3, <1>4, <1>5, <1>6, <1>7 DEF QueueInv

\* The task at the head of the queue, and the queue without it.
LEMMA HeadStep ==
  ASSUME IInv, NEW n \in DOMAIN task, AtHead(Step(n))
  PROVE  /\ n \in Unfinished /\ In(ready, Step(n)) /\ ~In(Tail(ready), Step(n))
         /\ Tail(ready) \in Seq(Event) /\ QueueFits(Tail(ready), Created \ {n})
         /\ \A x : In(Tail(ready), x) => In(ready, x) /\ x # Step(n)
<1>0. TypeOK /\ QueueFits(ready, Created) /\ StepsFit /\ ready \in Seq(Event)
      /\ Created \in SUBSET LineNo /\ n \in LineNo /\ Single(Step(n))
  BY Facts DEF IInv, QueueInv, TypeOK
<1>1. In(ready, Step(n)) /\ n \in Unfinished
  BY <1>0, Facts DEF StepsFit
<1>2. \A m \in Created \ {n} : Step(n) # Step(m)
  BY DEF Step
<1>3. ready # <<>> /\ Head(ready) = Step(n) /\ Created \ {n} \in SUBSET Created
  BY DEF AtHead
<1> QED BY <1>0, <1>1, <1>2, <1>3, Popped

Named(n) == \/ phase \in {"draining", "exited"}
            \/ /\ task[n].kind = "request"
               /\ \E m \in DOMAIN task : /\ task[m].kind = "cancel"
                                         /\ task[m].target = task[n].id
                                         /\ task[m].answer = "ok"

\* A cancelled task stays one that was named.
LEMMA StaysNamed ==
  ASSUME TypeOK, OnlyNamedAreCancelled, NEW n \in cancelled,
         phase' = phase, DOMAIN task' = DOMAIN task,
         \A m \in DOMAIN task : /\ task'[m].kind = task[m].kind
                                /\ task'[m].id = task[m].id
                                /\ task'[m].target = task[m].target
                                /\ task[m].answer = "ok" => task'[m].answer = "ok"
  PROVE  Named(n)'
<1>1. n \in DOMAIN task
  BY DEF TypeOK
<1>2. CASE phase \in {"draining", "exited"}
  BY <1>2 DEF Named
<1>3. CASE phase \notin {"draining", "exited"}
  <2>1. PICK m \in DOMAIN task : /\ task[m].kind = "cancel"
                                 /\ task[m].target = task[n].id
                                 /\ task[m].answer = "ok"
    BY <1>3 DEF OnlyNamedAreCancelled
  <2>2. task[n].kind = "request"
    BY <1>3 DEF OnlyNamedAreCancelled
  <2>3. m \in DOMAIN task' /\ task'[m].kind = "cancel" /\ task'[m].answer = "ok"
    BY <2>1
  <2>4. task'[m].target = task'[n].id /\ task'[n].kind = "request"
    BY <1>1, <2>1, <2>2
  <2> QED BY <2>3, <2>4 DEF Named
<1> QED BY <1>2, <1>3

\* Only named requests are cancelled if that is so of each of them.
LEMMA AllNamed ==
  ASSUME \A n \in cancelled' : Named(n)'
  PROVE  OnlyNamedAreCancelled'
BY DEF OnlyNamedAreCancelled, Named

\* A step that cancels nobody.
LEMMA Stepped ==
  ASSUME IInv, NEW n \in DOMAIN task, AtHead(Step(n)),
         NEW st \in {"running", "cleaning", "done"}, st # "done" => task[n].kind = "request",
         NEW a \in {"pending", "ok", "error", "cancelled"}, st # "done" => a = "pending",
         n \in cancelled => a \in {"pending", "cancelled"},
         task' = [task EXCEPT ![n].state = st, ![n].answer = a],
         ready' = Tail(ready) \/ ready' = Append(Tail(ready), Callback(n)),
         threads' \subseteq DOMAIN task, UNCHANGED <<cancelled, tasks, req, phase>>
  PROVE  IInv'
<1>0. /\ TypeOK /\ TasksFit /\ OnlyRequests /\ OnlyNamedAreCancelled /\ CancelIsFinal
      /\ n \in LineNo /\ Created \ {n} \in SUBSET LineNo
  BY Facts DEF IInv, TaskInv
<1>1. /\ n \in Unfinished /\ In(ready, Step(n)) /\ ~In(Tail(ready), Step(n))
      /\ Tail(ready) \in Seq(Event) /\ QueueFits(Tail(ready), Created \ {n})
      /\ \A x : In(Tail(ready), x) => In(ready, x) /\ x # Step(n)
  BY HeadStep
<1>2. /\ ready' \in Seq(Event) /\ QueueFits(ready', Created \ {n})
      /\ \A x : In(ready', x) => (In(ready, x) /\ x # Step(n)) \/ x = Callback(n)
  <2>1. CASE ready' = Tail(ready)
    BY <1>1, <2>1
  <2>2. CASE ready' = Append(Tail(ready), Callback(n))
    <3>1. Callback(n) \in Event /\ ~Single(Callback(n))
      BY <1>0, Facts
    <3> QED BY <1>0, <1>1, <2>2, <3>1, Pushed
  <2> QED BY <2>1, <2>2
<1>3. TypeOK' /\ QueueInv' /\ TableIsExact' /\ TasksFit'
  BY <1>0, <1>1, <1>2, Handled DEF TypeOK
<1>4. /\ DOMAIN task' = DOMAIN task
      /\ \A m \in DOMAIN task : /\ task'[m].kind = task[m].kind
                                /\ task'[m].id = task[m].id
                                /\ task'[m].target = task[m].target
      /\ \A m \in DOMAIN task \ {n} : task'[m] = task[m]
      /\ task'[n].answer = a
  BY <1>0, Moved
<1>5. OnlyRequests' /\ CancelIsFinal'
  BY <1>0, <1>4 DEF TypeOK, OnlyRequests, CancelIsFinal
<1>6. OnlyNamedAreCancelled'
  <2>1. task[n].answer = "pending"
    BY <1>0, <1>1 DEF TasksFit, Unfinished
  <2>2. \A m \in DOMAIN task : task[m].answer = "ok" => task'[m].answer = "ok"
    BY <1>4, <2>1
  <2>3. \A k \in cancelled : Named(k)'
    <3>1. \A m \in DOMAIN task : /\ task'[m].kind = task[m].kind
                                 /\ task'[m].id = task[m].id
                                 /\ task'[m].target = task[m].target
                                 /\ task[m].answer = "ok" => task'[m].answer = "ok"
      BY <1>4, <2>2
    <3> QED BY <1>0, <1>4, <3>1, StaysNamed
  <2>4. cancelled' = cancelled
    OBVIOUS
  <2> QED BY <2>3, <2>4, AllNamed
<1> QED BY <1>3, <1>5, <1>6 DEF IInv, TaskInv

\* Steps of a task that cancel no other keep the invariant.
LEMMA PlainSteps ==
  ASSUME IInv, NEW n \in LineNo,
         \/ Suspend(n) \/ Respond(n) \/ BeginCleanup(n)
         \/ DeliverCancel(n) \/ ReportError(n)
  PROVE  IInv'
<1>0. /\ TypeOK /\ TasksFit /\ OnlyRequests /\ \A m \in DOMAIN task : task[m] \in Task
      /\ threads \subseteq DOMAIN task
  BY Facts DEF IInv, TaskInv, TypeOK
<1>1. CASE Suspend(n)
  <2>1. task[n].answer = "pending"
    BY <1>0, <1>1 DEF Suspend, TasksFit
  <2>2. task' = [task EXCEPT ![n].state = "running", ![n].answer = "pending"]
    BY <1>0, <1>1, <2>1 DEF Suspend, Task
  <2>3. n \in DOMAIN task /\ threads' \subseteq DOMAIN task
    BY <1>0, <1>1 DEF Suspend
  <2> QED BY <1>1, <2>2, <2>3, Stepped DEF Suspend
<1>2. CASE Respond(n)
  <2>1. PICK a \in Outcomes(n) : Finish(n, a)
    BY <1>2 DEF Respond
  <2>2. a \in {"pending", "ok", "error", "cancelled"}
    BY <2>1 DEF Outcomes
  <2> QED BY <1>0, <1>2, <2>1, <2>2, Stepped DEF Respond, Finish
<1>3. CASE DeliverCancel(n)
  <2> DEFINE a == IF task[n].state = "created" THEN "pending" ELSE CancelAnswer(n)
  <2>1. a \in {"pending", "cancelled"} /\ Finish(n, a)
    BY <1>3 DEF DeliverCancel, CancelAnswer
  <2> HIDE DEF a
  <2> QED BY <1>0, <1>3, <2>1, Stepped DEF DeliverCancel, Finish
<1>4. CASE ReportError(n)
  <2>1. n \notin cancelled
    BY <1>0, <1>4 DEF ReportError, OnlyRequests
  <2> QED BY <1>0, <1>4, <2>1, Stepped DEF ReportError, Finish
<1>5. CASE BeginCleanup(n)
  <2>1. task[n].answer = "pending"
    BY <1>0, <1>5 DEF BeginCleanup, TasksFit
  <2>2. task' = [task EXCEPT ![n].state = "cleaning", ![n].answer = "pending"]
    BY <1>0, <1>5, <2>1 DEF BeginCleanup, Task
  <2> QED BY <1>0, <1>5, <2>2, Stepped DEF BeginCleanup
<1> QED BY <1>1, <1>2, <1>3, <1>4, <1>5

\* The step of a cancel line.
LEMMA CancelStep == ASSUME IInv, NEW m \in LineNo, HandleCancel(m) PROVE IInv'
<1>0. /\ TypeOK /\ TasksFit /\ TableIsExact /\ OnlyRequests
      /\ OnlyNamedAreCancelled /\ CancelIsFinal
      /\ m \in DOMAIN task /\ AtHead(Step(m)) /\ Created \ {m} \in SUBSET LineNo
  BY Facts DEF IInv, TaskInv, HandleCancel
<1>1. CASE ~CanCancel(Target(m))
  <2>1. m \notin cancelled
    BY <1>0 DEF HandleCancel, OnlyRequests
  <2> QED BY <1>0, <1>1, <2>1, Stepped DEF HandleCancel, Finish, TypeOK
<1>2. CASE CanCancel(Target(m))
  <2>0. PICK n : n = Target(m)
    OBVIOUS
  <2>1. /\ n \in DOMAIN task /\ n \in Unfinished /\ n # m
        /\ task[n].kind = "request" /\ task[n].id = task[m].target
        /\ task[n].answer = "pending"
    <3>1. task[m] \in Task /\ task[m].kind = "cancel" /\ task[m].target # NoId
      BY <1>0, Facts DEF HandleCancel
    <3>2. task[m].target \in Ids
      BY <3>1 DEF Task
    <3>3. n \in DOMAIN task
      BY <1>0, <1>2, <2>0, <3>2, Facts DEF Target, CanCancel, TypeOK
    <3> QED BY <1>0, <1>2, <2>0, <3>1, <3>2, <3>3
          DEF Target, CanCancel, TableIsExact, TasksFit, Unfinished
  <2>2. /\ In(ready, Step(m)) /\ ~In(Tail(ready), Step(m)) /\ m \in Unfinished
        /\ Tail(ready) \in Seq(Event) /\ QueueFits(Tail(ready), Created \ {m})
        /\ \A x : In(Tail(ready), x) => In(ready, x) /\ x # Step(m)
    BY <1>0, HeadStep
  <2>3. /\ ready' \in Seq(Event) /\ QueueFits(ready', Created \ {m})
        /\ \A x : In(ready', x) => (In(ready, x) /\ x # Step(m)) \/ x = Step(n)
    <3>1. ready' = WakeToCancel(Tail(ready), n)
      BY <1>2, <2>0 DEF HandleCancel
    <3>2. CASE In(Tail(ready), Step(n))
      BY <2>2, <3>1, <3>2 DEF WakeToCancel, In
    <3>3. CASE ~In(Tail(ready), Step(n))
      <4>1. ready' = Append(Tail(ready), Step(n))
        BY <3>1, <3>3 DEF WakeToCancel, In
      <4>2. Step(n) \in Event
        BY <1>0, <2>1, Facts
      <4> QED BY <1>0, <2>2, <3>3, <4>1, <4>2, Pushed
    <3> QED BY <3>2, <3>3
  <2>4. cancelled' = cancelled \cup {n} /\ cancelled' \subseteq DOMAIN task
    BY <1>0, <1>2, <2>0, <2>1 DEF HandleCancel, TypeOK
  <2>5. task' = [task EXCEPT ![m].state = "done", ![m].answer = "ok"]
    BY DEF HandleCancel, Finish
  <2>6. TypeOK' /\ QueueInv' /\ TableIsExact' /\ TasksFit'
    <3>1. UNCHANGED <<tasks, req, phase>> /\ threads' \subseteq DOMAIN task
      BY <1>0 DEF HandleCancel, TypeOK
    <3>2. \A x : In(ready', x) => \/ In(ready, x) /\ x # Step(m)
                                  \/ \E k \in Unfinished \ {m} : x = Step(k)
      BY <2>1, <2>3
    <3> QED BY <1>0, <2>2, <2>3, <2>4, <2>5, <3>1, <3>2, Handled
  <2>7. /\ DOMAIN task' = DOMAIN task
        /\ \A k \in DOMAIN task : /\ task'[k].kind = task[k].kind
                                  /\ task'[k].id = task[k].id
                                  /\ task'[k].target = task[k].target
        /\ \A k \in DOMAIN task \ {m} : task'[k] = task[k]
        /\ task'[m].answer = "ok"
    BY <1>0, <2>5, Moved
  <2>8. OnlyRequests' /\ CancelIsFinal'
    <3>1. m \notin cancelled'
      BY <1>0, <2>1, <2>4 DEF HandleCancel, OnlyRequests
    <3> QED BY <1>0, <2>1, <2>4, <2>7, <3>1 DEF OnlyRequests, CancelIsFinal
  <2>9. OnlyNamedAreCancelled'
    <3>1. task'[m].kind = "cancel" /\ task'[m].target = task'[n].id /\ task'[n].kind = "request"
      BY <1>0, <2>1, <2>7 DEF HandleCancel
    <3>2. \A k \in cancelled : Named(k)'
      <4>1. phase' = phase
        BY DEF HandleCancel
      <4>2. \A k \in DOMAIN task : task[k].answer = "ok" => task'[k].answer = "ok"
        BY <2>7
      <4> QED BY <1>0, <2>7, <4>1, <4>2, StaysNamed
    <3>3. Named(n)'
      <4>1. m \in DOMAIN task' /\ n \in DOMAIN task' /\ task'[m].answer = "ok"
        BY <1>0, <2>1, <2>7
      <4> QED BY <3>1, <4>1 DEF Named
    <3> QED BY <2>4, <3>2, <3>3, AllNamed
  <2> QED BY <2>6, <2>8, <2>9 DEF IInv, TaskInv
<1> QED BY <1>1, <1>2

-----------------------------------------------------------------------------
(* The end of the process, and the invariant.                              *)

\* Whoever is left has started, and so is a request.
LEMMA LeftStarted ==
  ASSUME TypeOK, QueueInv, TasksFit, phase \notin {"reading", "stopping"},
         NEW n \in Unfinished
  PROVE  /\ n \in DOMAIN task /\ task[n].state # "created"
         /\ task[n].kind = "request" /\ task[n].answer = "pending"
<1>1. n \in DOMAIN task /\ task[n].state # "done" /\ task[n] \in Task
  BY Facts DEF Unfinished
<1>2. task[n].state # "created"
  BY <1>1 DEF QueueInv, PhaseFits, Created
<1>3. task[n].state \in {"running", "cleaning"}
  BY <1>1, <1>2 DEF Task
<1> QED BY <1>1, <1>3 DEF TasksFit

\* Cancelling what run() left behind keeps the invariant: it is all started.
LEMMA CancelAllPreserves == ASSUME IInv, CancelAll PROVE IInv'
<1> DEFINE I == {Step(n) : n \in ToWake}
           N == Cardinality(ToWake)
<1>0. /\ TypeOK /\ QueueInv /\ TaskInv /\ TasksFit /\ CancelIsFinal
      /\ ready \in Seq(Event) /\ QueueFits(ready, Created)
      /\ Created \in SUBSET LineNo /\ ToWake \subseteq DOMAIN task
  BY Facts DEF IInv, QueueInv, TaskInv, TypeOK, ToWake, Unfinished
<1>1. PICK q \in [1..N -> I] : /\ \A n \in ToWake : \E i \in DOMAIN q : q[i] = Step(n)
                               /\ ready' = ready \o q
  BY DEF CancelAll
<1>2. N \in Nat /\ IsFiniteSet(ToWake)
  <2>1. IsFiniteSet(1..Len(task))
    BY <1>0, FS_Interval, Facts
  <2> QED BY <1>0, <2>1, FS_Subset, FS_CardinalityType, Facts
<1>3. Cardinality(I) = N
  <2> DEFINE f == [n \in ToWake |-> Step(n)]
  <2>1. f \in Bijection(ToWake, I)
    <3>1. f \in [ToWake -> I] /\ \A t \in I : \E n \in ToWake : f[n] = t
      OBVIOUS
    <3>2. \A a, b \in ToWake : f[a] = f[b] => a = b
      BY DEF Step
    <3> QED BY <3>1, <3>2 DEF Bijection, Injection, Surjection, IsInjective
  <2> QED BY <1>2, <2>1, FS_Bijection DEF ExistsBijection
<1>4. \A i, j \in 1..N : q[i] = q[j] => i = j
  <2>1. IsFiniteSet(1..N) /\ Cardinality(1..N) = N
    BY <1>2, FS_Interval
  <2>2. q \in Surjection(1..N, I)
    BY <1>1 DEF Surjection
  <2>3. q \in Injection(1..N, I)
    BY <1>3, <2>1, <2>2, FS_SurjSameCardinalityImpliesInj
  <2> QED BY <2>3 DEF Injection, IsInjective
<1>5. q \in Seq(Event) /\ DOMAIN q = 1..N
  <2>1. I \subseteq Event
    BY <1>0, Facts
  <2>2. DOMAIN q = 1..N /\ \A i \in 1..N : q[i] \in Event
    BY <1>1, <2>1
  <2> HIDE DEF I, N
  <2>3. q = [i \in 1..N |-> q[i]]
    BY <1>1
  <2>4. [i \in 1..N |-> q[i]] \in Seq(Event)
    BY <1>2, <2>2, SeqDef
  <2> QED BY <2>2, <2>3, <2>4
<1>6. \A i \in DOMAIN q : \E n \in ToWake : q[i] = Step(n)
  BY <1>1, <1>5
<1> HIDE DEF I, N
<1>7. /\ ready' \in Seq(Event) /\ QueueFits(ready', Created)
      /\ \A e : In(ready', e) <=> In(ready, e) \/ In(q, e)
  <2>1. Once(q)
    BY <1>4, <1>5 DEF Once
  <2>2. \A i \in DOMAIN q : ~In(ready, q[i])
    BY <1>0, <1>6, Facts DEF ToWake
  <2> QED BY <1>0, <1>1, <1>5, <2>1, <2>2, Joined
<1>8. UNCHANGED <<task, tasks, req, threads, Created, Unfinished>> /\ phase = "stopped" /\ phase' = "draining"
  BY DEF CancelAll, Created, Unfinished
<1>9. \A e : In(q, e) => \E n \in ToWake : e = Step(n)
  BY <1>6 DEF In
<1>10. QueueInv'
  <2>1. PhaseFits'
    BY <1>0, <1>7, <1>8, <1>9 DEF QueueInv, PhaseFits, Main, Stop, Step
  <2>2. StepsFit'
    BY <1>0, <1>7, <1>8, <1>9 DEF QueueInv, StepsFit, Step, ToWake
  <2> QED BY <1>7, <1>8, <2>1, <2>2 DEF QueueInv
<1>11. \A n \in Unfinished : /\ n \in DOMAIN task /\ task[n].kind = "request"
                             /\ task[n].answer = "pending"
  BY <1>0, <1>8, LeftStarted
<1>12. cancelled' = cancelled \cup Unfinished
  BY DEF CancelAll
<1>13. TypeOK'
  BY <1>0, <1>7, <1>8, <1>11, <1>12 DEF TypeOK
<1>14. TaskInv' /\ CancelIsFinal'
  BY <1>0, <1>8, <1>11, <1>12 DEF TaskInv, TableIsExact, TasksFit, OnlyRequests, CancelIsFinal
<1>15. OnlyNamedAreCancelled'
  BY <1>8 DEF OnlyNamedAreCancelled
<1> QED BY <1>10, <1>13, <1>14, <1>15 DEF IInv

\* The server starts with run() in the queue and nothing else.
LEMMA Initially == Init => IInv
<1> SUFFICES ASSUME Init PROVE IInv
  OBVIOUS
<1>1. /\ DOMAIN ready = {1} /\ ready[1] = Main /\ ready \in Seq(Event)
      /\ DOMAIN task = {} /\ task = <<>> /\ phase = "reading" /\ cancelled = {}
  BY ServerAssumption DEF Init, Main, Event
<1>2. TypeOK
  BY <1>1, ServerAssumption DEF Init, TypeOK
<1>3. Created = {} /\ \A e : In(ready, e) <=> e = Main
  BY <1>1 DEF Created, In
<1>4. QueueInv
  BY <1>1, <1>3 DEF QueueInv, QueueFits, Ordered, Once, PhaseFits, StepsFit, Main, Stop, Step
<1>5. TaskInv
  BY <1>1 DEF Init, TaskInv, TableIsExact, TasksFit, OnlyRequests
<1> QED BY <1>1, <1>2, <1>4, <1>5 DEF IInv, OnlyNamedAreCancelled, CancelIsFinal

\* What does not change stays true.
LEMMA Stuttering == ASSUME IInv, UNCHANGED vars PROVE IInv'
BY DEF vars, IInv, TypeOK, QueueInv, QueueFits, Ordered, Once, In, PhaseFits, StepsFit, Created,
       Unfinished, TaskInv, TableIsExact, TasksFit, OnlyRequests, OnlyNamedAreCancelled,
       CancelIsFinal

\* The invariant is inductive.
LEMMA NextPreserves == ASSUME IInv, [Next]_vars PROVE IInv'
BY ReadsPreserve, QueueTurns, PlainSteps, CancelStep, CancelAllPreserves, Stuttering
   DEF Next, LoopTurn, Exited

\* In every reachable state the event loop's queue fits the tasks, the table
\* fits the ids, and cancel has hit only what it may (server.py 54-179).
THEOREM Invariance == Spec => []IInv
<1>1. IInv /\ [Next]_vars => IInv'
  BY NextPreserves
<1> QED BY Initially, <1>1, PTL DEF Spec

\* For any number of lines and any ids the state of the server has its type.
THEOREM TypeCorrect == Spec => []TypeOK
BY Invariance, PTL DEF IInv

\* _handle_cancel only ever hits requests whose id some cancel line named.
THEOREM NoBystanderIsCancelled == Spec => []OnlyNamedAreCancelled
BY Invariance, PTL DEF IInv

\* A request whose cancellation took effect is never given another answer.
THEOREM CancellationIsFinal == Spec => []CancelIsFinal
BY Invariance, PTL DEF IInv

-----------------------------------------------------------------------------
(* A client that does not reuse ids, and results that encode.              *)

\* A cancel line comes after the request it names.
NamedLater == \A m, n \in DOMAIN task :
                task[m].kind = "cancel" /\ task[n].kind = "request"
                /\ task[m].target = task[n].id => n < m
CancelledStarted == \A n \in cancelled : task[n].state # "created"
FInv == NamedLater /\ CancelledStarted /\ DoneIsAnswered

\* A line read from a client that does not reuse ids keeps cancels behind
\* their requests.
LEMMA FreshReads == ASSUME FreshIds, IInv, FInv, Reads PROVE FInv'
<1>0. TypeOK /\ NamedLater /\ CancelledStarted /\ DoneIsAnswered /\ NoId \notin Ids
      /\ cancelled \subseteq DOMAIN task /\ DOMAIN task = 1..Len(task) /\ Len(task) \in Nat
  BY Facts, ServerAssumption DEF IInv, FInv, TypeOK
<1>1. ASSUME NEW k \in Kind, NEW i \in Ids \cup {NoId}, NEW t \in Ids \cup {NoId},
             CreateTask(k, i, t), UNCHANGED cancelled,
             k = "request" => t = NoId /\ i \in Ids /\ MayUse(i),
             k = "cancel" => i # t
      PROVE  FInv'
  <2>0. /\ DOMAIN task' = DOMAIN task \cup {Len(task) + 1}
        /\ \A n \in DOMAIN task : task'[n] = task[n]
        /\ task'[Len(task) + 1] = NewTask(k, i, t)
    BY <1>0, <1>1, Appended DEF TypeOK
  <2>a. \A n \in DOMAIN task : n < Len(task) + 1
    BY <1>0
  <2>b. PICK new : new = Len(task) + 1
    OBVIOUS
  <2>1. /\ DOMAIN task' = DOMAIN task \cup {new}
        /\ \A n \in DOMAIN task : task'[n] = task[n] /\ n < new
        /\ task'[new] = [kind |-> k, id |-> i, target |-> t,
                         state |-> "created", answer |-> "pending"]
    BY <2>0, <2>a, <2>b DEF NewTask
  <2>2. k = "request" => \A m \in DOMAIN task : task[m].target # i
    BY <1>1 DEF MayUse
  <2>3. NamedLater'
    BY <1>0, <1>1, <2>1, <2>2 DEF NamedLater
  <2>4. CancelledStarted' /\ DoneIsAnswered'
    BY <1>0, <1>1, <2>1 DEF CancelledStarted, DoneIsAnswered
  <2> QED BY <2>3, <2>4 DEF FInv
<1>2. ASSUME NEW i \in Ids, ReadRequest(i) PROVE FInv'
  BY <1>1, <1>2 DEF ReadRequest, Kind
<1>3. ASSUME NEW i \in Ids, NEW t \in Ids \cup {NoId}, ReadCancel(i, t) PROVE FInv'
  BY <1>1, <1>3 DEF ReadCancel, Kind
<1>4. ASSUME ReadBadLine PROVE FInv'
  BY <1>1, <1>4 DEF ReadBadLine, Kind
<1> QED BY <1>2, <1>3, <1>4 DEF Reads

\* A step of task n, after which it has an answer if it is done.
LEMMA FreshStep ==
  ASSUME IInv, FInv, NEW n \in DOMAIN task,
         NEW st \in {"running", "cleaning", "done"}, NEW a \in {"pending", "ok", "error", "cancelled"},
         st = "done" => a # "pending",
         task' = [task EXCEPT ![n].state = st, ![n].answer = a],
         \A k \in cancelled' : k \in cancelled \/ (k \in DOMAIN task /\ task[k].state # "created")
  PROVE  FInv'
<1>0. TypeOK /\ NamedLater /\ CancelledStarted /\ DoneIsAnswered
      /\ cancelled \subseteq DOMAIN task
  BY DEF IInv, FInv, TypeOK
<1>1. /\ DOMAIN task' = DOMAIN task
      /\ \A m \in DOMAIN task : /\ task'[m].kind = task[m].kind
                               /\ task'[m].id = task[m].id
                               /\ task'[m].target = task[m].target
      /\ \A m \in DOMAIN task \ {n} : task'[m] = task[m]
      /\ task'[n].state = st /\ task'[n].answer = a
  BY <1>0, Moved
<1>2. NamedLater'
  BY <1>0, <1>1 DEF NamedLater
<1>3. CancelledStarted' /\ DoneIsAnswered'
  BY <1>0, <1>1 DEF CancelledStarted, DoneIsAnswered
<1> QED BY <1>2, <1>3 DEF FInv

\* The first step of what a cancel line names comes before its own.
LEMMA TargetStarted ==
  ASSUME IInv, FInv, NEW m \in LineNo, HandleCancel(m), CanCancel(Target(m))
  PROVE  Target(m) \in Unfinished /\ task[Target(m)].state # "created"
<1>0. /\ TypeOK /\ QueueFits(ready, Created) /\ TableIsExact /\ NamedLater
      /\ m \in DOMAIN task /\ AtHead(Step(m)) /\ task[m].kind = "cancel"
      /\ task[m].target \in Ids
  BY Facts DEF IInv, QueueInv, TaskInv, FInv, HandleCancel, Task
<1>1. PICK n : n = Target(m)
  OBVIOUS
<1>2. /\ n \in DOMAIN task /\ task[n].state # "done" /\ task[n] \in Task
      /\ task[n].kind = "request" /\ task[n].id = task[m].target
  BY <1>0, <1>1, Facts DEF Target, CanCancel, TypeOK, TableIsExact
<1>3. n < m
  BY <1>0, <1>2 DEF NamedLater
<1>4. task[n].state # "created"
  <2> SUFFICES ASSUME task[n].state = "created" PROVE FALSE
    OBVIOUS
  <2>1. n \in Created /\ Late(Step(m), n)
    BY <1>2, <1>3 DEF Created, Late
  <2>2. 1 \in DOMAIN ready /\ ready[1] = Step(m)
    BY <1>0, LenProperties, EmptySeq DEF AtHead, TypeOK
  <2>3. \E j \in 1..(1 - 1) : ready[j] = Step(n)
    BY <1>0, <2>1, <2>2 DEF QueueFits, Ordered
  <2> QED BY <2>3
<1> QED BY <1>1, <1>2, <1>4 DEF Unfinished

\* The same for a step that cancels nobody.
LEMMA FreshQuietStep ==
  ASSUME IInv, FInv, NEW n \in DOMAIN task, UNCHANGED cancelled,
         NEW st \in {"running", "cleaning", "done"}, NEW a \in {"pending", "ok", "error", "cancelled"},
         st = "done" => a # "pending",
         task' = [task EXCEPT ![n].state = st, ![n].answer = a]
  PROVE  FInv'
<1>1. \A k \in cancelled' : k \in cancelled \/ (k \in DOMAIN task /\ task[k].state # "created")
  OBVIOUS
<1> QED BY <1>1, FreshStep

\* With fresh ids and results that encode, FInv is inductive beside IInv.
LEMMA FreshNext ==
  ASSUME FreshIds, ~Unencodable, IInv, FInv, [Next]_vars
  PROVE  FInv'
<1>0. TypeOK /\ TasksFit /\ \A m \in DOMAIN task : task[m] \in Task
  BY Facts DEF IInv, TaskInv
<1>1. CASE Reads
  BY <1>1, FreshReads
<1>2. ASSUME UNCHANGED <<task, cancelled>> PROVE FInv'
  BY <1>2 DEF FInv, NamedLater, CancelledStarted, DoneIsAnswered
<1>3. CASE AwaitLine \/ DataArrives \/ EndOfInput \/ StopLoop \/ Exit \/ UNCHANGED vars
  BY <1>2, <1>3 DEF AwaitLine, DataArrives, EndOfInput, StopLoop, Exit, vars
<1>4. ASSUME NEW n \in LineNo, \/ IoCompletes(n) \/ CleanupCompletes(n)
                                \/ ThreadReturns(n) \/ RunDoneCallback(n)
      PROVE  FInv'
  BY <1>2, <1>4 DEF IoCompletes, CleanupCompletes, ThreadReturns, RunDoneCallback
<1>5. ASSUME NEW n \in LineNo, Suspend(n) PROVE FInv'
  <2>1. task[n].answer = "pending"
    BY <1>0, <1>5 DEF Suspend, TasksFit
  <2>2. task' = [task EXCEPT ![n].state = "running", ![n].answer = "pending"]
    BY <1>0, <1>5, <2>1 DEF Suspend, Task
  <2> QED BY <1>5, <2>2, FreshQuietStep DEF Suspend
<1>6. ASSUME NEW n \in LineNo, Respond(n) PROVE FInv'
  <2>1. PICK a \in {"ok", "error"} : Finish(n, a)
    BY <1>6 DEF Respond, Outcomes
  <2> QED BY <1>6, <2>1, FreshQuietStep DEF Respond, Finish
<1>7. ASSUME NEW n \in LineNo, DeliverCancel(n) PROVE FInv'
  <2>1. task[n].state # "created"
    BY <1>7 DEF DeliverCancel, FInv, CancelledStarted
  <2>2. Finish(n, "cancelled")
    BY <1>7, <2>1 DEF DeliverCancel, CancelAnswer
  <2> QED BY <1>7, <2>2, FreshQuietStep DEF DeliverCancel, Finish
<1>8. ASSUME NEW n \in LineNo, ReportError(n) PROVE FInv'
  BY <1>8, FreshQuietStep DEF ReportError, Finish
<1>9. ASSUME NEW m \in LineNo, HandleCancel(m) PROVE FInv'
  <2>1. \A k \in cancelled' : k \in cancelled \/ (k \in DOMAIN task /\ task[k].state # "created")
    BY <1>9, TargetStarted DEF HandleCancel, Unfinished
  <2> QED BY <1>9, <2>1, FreshStep DEF HandleCancel, Finish
<1>10. CASE CancelAll
  <2>1. \A n \in Unfinished : task[n].state # "created"
    BY <1>10, LeftStarted DEF IInv, TaskInv, CancelAll
  <2> QED BY <1>10, <2>1 DEF CancelAll, FInv, NamedLater, CancelledStarted, DoneIsAnswered
<1>11. ASSUME NEW n \in LineNo, BeginCleanup(n) PROVE FInv'
  <2>1. task[n].answer = "pending"
    BY <1>0, <1>11 DEF BeginCleanup, TasksFit
  <2>2. task' = [task EXCEPT ![n].state = "cleaning", ![n].answer = "pending"]
    BY <1>0, <1>11, <2>1 DEF BeginCleanup, Task
  <2> QED BY <1>11, <2>2, FreshQuietStep DEF BeginCleanup
<1> QED BY <1>1, <1>3, <1>4, <1>5, <1>6, <1>7, <1>8, <1>9, <1>10, <1>11
        DEF Next, LoopTurn, Exited

\* With no line read there is nothing to show.
LEMMA FreshInitially == Init => FInv
BY DEF Init, FInv, NamedLater, CancelledStarted, DoneIsAnswered

\* IInv and FInv hold together in every reachable state.
LEMMA FreshInvariance == ASSUME FreshIds, ~Unencodable PROVE Spec => [](IInv /\ FInv)
<1>1. IInv /\ FInv /\ [Next]_vars => (IInv /\ FInv)'
  BY NextPreserves, FreshNext
<1>2. Init => IInv /\ FInv
  BY Initially, FreshInitially
<1> QED BY <1>1, <1>2, PTL DEF Spec

\* With ids that are not reused and results that encode, no request vanishes:
\* a task that has ended has written its response (server.py 134-172).
THEOREM EveryEndIsAnswered == FreshIds /\ ~Unencodable => (Spec => []DoneIsAnswered)
<1>1. CASE FreshIds /\ ~Unencodable
  <2>1. FreshIds /\ ~Unencodable
    BY <1>1
  <2>2. Spec => [](IInv /\ FInv)
    BY <2>1, FreshInvariance
  <2>3. IInv /\ FInv => DoneIsAnswered
    BY DEF FInv
  <2> QED BY <2>2, <2>3, PTL
<1> QED BY <1>1

-----------------------------------------------------------------------------
(* The server implements RequestService.                                   *)

Answers == [n \in DOMAIN task |-> task[n].answer]

\* A task that gets an answer changes that one answer.
LEMMA AnswerSet ==
  ASSUME TypeOK, NEW n \in DOMAIN task,
         NEW st \in {"running", "cleaning", "done"}, NEW a \in {"pending", "ok", "error", "cancelled"},
         task' = [task EXCEPT ![n].state = st, ![n].answer = a]
  PROVE  Answers' = [Answers EXCEPT ![n] = a]
<1>1. /\ DOMAIN task' = DOMAIN task /\ task'[n].answer = a
      /\ \A m \in DOMAIN task \ {n} : task'[m] = task[m]
  BY Moved
<1> QED BY <1>1 DEF Answers

\* A new task is one more pending answer.
LEMMA AnswerAdded ==
  ASSUME TypeOK, NEW k \in Kind, NEW i \in Ids \cup {NoId}, NEW t \in Ids \cup {NoId},
         CreateTask(k, i, t)
  PROVE  Answers' = Append(Answers, "pending")
<1> DEFINE S == {"pending", "ok", "error", "cancelled"}
<1>1. /\ Len(task) \in Nat /\ DOMAIN task = 1..Len(task)
      /\ \A n \in DOMAIN task : task[n].answer \in S
  BY Facts DEF Task
<1>2. PICK s : s = Answers
  OBVIOUS
<1>3. s \in Seq(S) /\ DOMAIN s = 1..Len(task)
  BY <1>1, <1>2, SeqDef DEF Answers
<1>4. Len(s) = Len(task)
  BY <1>1, <1>3, LenProperties
<1>5. PICK r : r = Append(s, "pending")
  OBVIOUS
<1>6. /\ r \in Seq(S) /\ Len(r) = Len(task) + 1
      /\ \A j \in 1..Len(task) : r[j] = s[j]
      /\ r[Len(task) + 1] = "pending"
  BY <1>3, <1>4, <1>5, AppendProperties
<1>7. r = [j \in 1..(Len(task) + 1) |-> r[j]]
  BY <1>6, LenProperties
<1>8. /\ DOMAIN task' = DOMAIN task \cup {Len(task) + 1}
      /\ \A n \in DOMAIN task : task'[n] = task[n]
      /\ task'[Len(task) + 1].answer = "pending"
  <2>1. /\ DOMAIN task' = DOMAIN task \cup {Len(task) + 1}
        /\ \A n \in DOMAIN task : task'[n] = task[n]
        /\ task'[Len(task) + 1] = NewTask(k, i, t)
    BY Appended
  <2> QED BY <2>1 DEF NewTask
<1>9. DOMAIN task' = 1..(Len(task) + 1)
  BY <1>1, <1>8
<1>10. \A j \in 1..(Len(task) + 1) : r[j] = task'[j].answer
  BY <1>1, <1>2, <1>6, <1>8 DEF Answers
<1> QED BY <1>2, <1>5, <1>7, <1>9, <1>10 DEF Answers

\* What the client sees as pending are the unfinished tasks.
LEMMA PendingIsUnfinished ==
  ASSUME IInv, FInv PROVE Service!Pending = Unfinished
BY DEF IInv, TaskInv, TasksFit, FInv, DoneIsAnswered, Service!Pending, Unfinished

\* A task that ends with an answer is a reply the client may expect.
LEMMA Replies ==
  ASSUME IInv, FInv, NEW n \in Unfinished, NEW a \in {"ok", "error", "cancelled"},
         a = "cancelled" <=> n \in cancelled, Finish(n, a)
  PROVE  Service!Reply(n, a)
<1>1. n \in DOMAIN task /\ n \in Service!Pending
  BY PendingIsUnfinished DEF Unfinished
<1>2. Answers' = [Answers EXCEPT ![n] = a]
  <2>1. TypeOK /\ task' = [task EXCEPT ![n].state = "done", ![n].answer = a]
    BY DEF Finish, IInv
  <2>2. "done" \in {"running", "cleaning", "done"} /\ a \in {"pending", "ok", "error", "cancelled"}
    OBVIOUS
  <2> QED BY <1>1, <2>1, <2>2, AnswerSet
<1> QED BY <1>1, <1>2 DEF Service!Reply, Service!Answer, Answers

\* The client sees only answers, cancellations and the phase.
LEMMA Unseen ==
  ASSUME UNCHANGED <<Answers, cancelled, AbstractPhase>>
  PROVE  UNCHANGED Service!svars
BY DEF Service!svars, Answers

\* Each step of the server is one of RequestService's, or invisible.
LEMMA Implements ==
  ASSUME FreshIds, ~Unencodable, IInv, FInv, [Next]_vars
  PROVE  [Service!SNext]_Service!svars
<1>0. /\ TypeOK /\ TasksFit /\ OnlyRequests /\ PhaseFits
      /\ \A e : AtHead(e) => In(ready, e)
  BY Facts DEF IInv, QueueInv, TaskInv
<1>1. ASSUME NEW k \in Kind, NEW i \in Ids \cup {NoId}, NEW t \in Ids \cup {NoId},
             CreateTask(k, i, t), UNCHANGED <<cancelled, phase>>
      PROVE  Service!Accept
  <2>1. phase = "reading"
    BY <1>0, <1>1 DEF CreateTask, PhaseFits
  <2>2. Answers' = Append(Answers, "pending")
    BY <1>0, <1>1, AnswerAdded
  <2> QED BY <1>1, <2>1, <2>2 DEF Service!Accept, AbstractPhase, Answers
<1>2. CASE Reads
  BY <1>1, <1>2 DEF Reads, ReadRequest, ReadCancel, ReadBadLine, Kind, Service!SNext
<1>3. CASE AwaitLine \/ DataArrives \/ UNCHANGED vars
  BY <1>3, Unseen DEF AwaitLine, DataArrives, vars, Answers, AbstractPhase
<1>4. ASSUME NEW n \in LineNo, \/ IoCompletes(n) \/ CleanupCompletes(n)
                                \/ ThreadReturns(n) \/ RunDoneCallback(n)
      PROVE  UNCHANGED Service!svars
  BY <1>4, Unseen
     DEF IoCompletes, CleanupCompletes, ThreadReturns, RunDoneCallback, Answers, AbstractPhase
<1>5. CASE StopLoop
  <2>1. phase = "stopping"
    BY <1>0, <1>5 DEF StopLoop, PhaseFits
  <2> QED BY <1>5, <2>1, Unseen DEF StopLoop, Answers, AbstractPhase
<1>6. CASE EndOfInput
  <2>1. phase = "reading"
    BY <1>0, <1>6 DEF EndOfInput, PhaseFits
  <2> QED BY <1>6, <2>1 DEF EndOfInput, AbstractPhase, Service!EndOfInput, Service!SNext
<1>7. CASE CancelAll
  BY <1>7, PendingIsUnfinished
     DEF CancelAll, AbstractPhase, Service!CancelRest, Service!SNext
<1>8. CASE Exit
  BY <1>8, PendingIsUnfinished DEF Exit, AbstractPhase, Service!Close, Service!SNext
<1>9. ASSUME NEW n \in LineNo, Suspend(n) \/ BeginCleanup(n) PROVE UNCHANGED Service!svars
  <2>1. n \in DOMAIN task /\ task[n].answer = "pending"
    BY <1>0, <1>9 DEF Suspend, BeginCleanup, TasksFit
  <2>2. PICK st \in {"running", "cleaning"} : task' = [task EXCEPT ![n].state = st]
    BY <1>9 DEF Suspend, BeginCleanup
  <2>3. task' = [task EXCEPT ![n].state = st, ![n].answer = "pending"]
    BY <2>1, <2>2, Facts, <1>0 DEF Task
  <2>4. Answers' = [Answers EXCEPT ![n] = "pending"]
    BY <1>0, <2>1, <2>3, AnswerSet
  <2>5. Answers' = Answers
    BY <2>1, <2>4 DEF Answers
  <2> QED BY <1>9, <2>5, Unseen DEF Suspend, BeginCleanup, AbstractPhase
<1>10. ASSUME NEW n \in LineNo, Respond(n) PROVE Service!Respond
  <2>1. PICK a \in {"ok", "error"} : Finish(n, a)
    BY <1>10 DEF Respond, Outcomes
  <2>2. n \in Unfinished /\ n \notin cancelled /\ UNCHANGED <<cancelled, AbstractPhase>>
    BY <1>10 DEF Respond, Unfinished, AbstractPhase
  <2>3. Service!Reply(n, a) /\ n \in Service!Pending
    BY <2>1, <2>2, Replies, PendingIsUnfinished
  <2> QED BY <2>2, <2>3 DEF Service!Respond, Service!Answer
<1>11. ASSUME NEW n \in LineNo, DeliverCancel(n) PROVE Service!Respond
  <2>1. task[n].state # "created"
    BY <1>11 DEF DeliverCancel, FInv, CancelledStarted
  <2>2. Finish(n, "cancelled")
    BY <1>11, <2>1 DEF DeliverCancel, CancelAnswer
  <2>3. n \in Unfinished /\ n \in cancelled /\ UNCHANGED <<cancelled, AbstractPhase>>
    BY <1>11 DEF DeliverCancel, Unfinished, AbstractPhase
  <2>4. Service!Reply(n, "cancelled") /\ n \in Service!Pending
    BY <2>2, <2>3, Replies, PendingIsUnfinished
  <2> QED BY <2>3, <2>4 DEF Service!Respond, Service!Answer
<1>12. ASSUME NEW m \in LineNo, AtHead(Step(m)), m \in DOMAIN task,
              task[m].kind # "request"
       PROVE  m \in Unfinished /\ m \notin cancelled
  BY <1>0, <1>12 DEF IInv, QueueInv, StepsFit, OnlyRequests
<1>13. ASSUME NEW m \in LineNo, ReportError(m) PROVE Service!Respond
  <2>1. m \in Unfinished /\ m \notin cancelled
    BY <1>12, <1>13 DEF ReportError
  <2>2. Service!Reply(m, "error") /\ m \in Service!Pending
    BY <1>13, <2>1, Replies, PendingIsUnfinished DEF ReportError
  <2> QED BY <1>13, <2>2 DEF ReportError, AbstractPhase, Service!Respond, Service!Answer
<1>14. ASSUME NEW m \in LineNo, HandleCancel(m) PROVE Service!Respond \/ Service!Ask
  <2>1. m \in Unfinished /\ m \notin cancelled /\ m \in DOMAIN task
        /\ task[m].kind = "cancel"
    BY <1>12, <1>14 DEF HandleCancel
  <2>2. Service!Reply(m, "ok") /\ m \in Service!Pending
    BY <1>14, <2>1, Replies, PendingIsUnfinished DEF HandleCancel
  <2>3. UNCHANGED AbstractPhase
    BY <1>14 DEF HandleCancel, AbstractPhase
  <2>4. CASE CanCancel(Target(m))
    <3>1. PICK n : n = Target(m)
      OBVIOUS
    <3>2. n \in Unfinished /\ task[n].state # "created"
      BY <1>14, <2>4, <3>1, TargetStarted
    <3>3. n \in Service!Pending /\ m # n
      <4>1. task[n] \in Task /\ task[n].state \in {"running", "cleaning"}
        BY <1>0, <3>2, Facts DEF Unfinished, Task
      <4>2. task[n].kind = "request"
        BY <1>0, <3>2, <4>1 DEF TasksFit, Unfinished
      <4> QED BY <2>1, <3>2, <4>2, PendingIsUnfinished
    <3>4. cancelled' = cancelled \cup {n}
      BY <1>14, <2>4, <3>1 DEF HandleCancel
    <3> QED BY <2>2, <2>3, <3>3, <3>4 DEF Service!Ask
  <2>5. CASE ~CanCancel(Target(m))
    BY <1>14, <2>2, <2>3, <2>5 DEF HandleCancel, Service!Respond, Service!Answer
  <2> QED BY <2>4, <2>5
<1> QED BY <1>2, <1>3, <1>4, <1>5, <1>6, <1>7, <1>8, <1>9, <1>10, <1>11, <1>13, <1>14
        DEF Next, LoopTurn, Exited, Service!SNext

\* Under the same two conditions the server implements RequestService: each of
\* its steps is one a client sees, or none (server.py 90-187).
THEOREM ServerImplementsService ==
  FreshIds /\ ~Unencodable => (Spec => ImplementsService)
<1>1. CASE FreshIds /\ ~Unencodable
  <2>1. Spec => [](IInv /\ FInv)
    BY <1>1, FreshInvariance
  <2>2. Init => Service!SInit
    BY DEF Init, Service!SInit, AbstractPhase
  <2>3. IInv /\ FInv /\ [Next]_vars => [Service!SNext]_Service!svars
    BY <1>1, Implements
  <2> QED BY <2>1, <2>2, <2>3, PTL DEF Spec, ImplementsService, Service!SSpec
<1> QED BY <1>1
=============================================================================
