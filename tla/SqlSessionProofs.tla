-------------------------- MODULE SqlSessionProofs --------------------------
(***************************************************************************)
(* A driver's session, for any number of requests, settings, sessions and  *)
(* cancellations: what the catalog cache holds is never older than a       *)
(* statement that has returned, and settings follow what the user set,     *)
(* through reconnects and LOADs.                                           *)
(***************************************************************************)
EXTENDS SqlSession, FiniteSetTheorems, SequenceTheorems, TLAPS

-----------------------------------------------------------------------------
(* The type of the state.                                                  *)

Values   == UserValues \cup {Default, LoadFormat}
Settings == [Params -> Values]
PC == {"new"} \cup Waiting \cup Answered \cup Reconnect \cup Ended
Job == [pc : PC, op : Op, param : Params \cup {None}, value : Values, on : Nat \ {0},
        again : BOOLEAN, seen : Nat, attached : BOOLEAN, todo : SUBSET Params,
        saved : Settings, known : SUBSET Params, opened : Nat]
Session == [alive : BOOLEAN, settings : Settings]

\* The driver's session is the last one opened.
SessionsTyped == /\ sessions \in Seq(Session) /\ conn = Len(sessions) /\ conn \in Nat \ {0}
                 /\ cache \in Seq(Nat \cup {None}) /\ Len(cache) = conn
OthersTyped == /\ DOMAIN remembered \subseteq Params
               /\ remembered \in [DOMAIN remembered -> Values]
               /\ db \in Nat /\ acked \in Nat /\ overlapped \in BOOLEAN
JobFits(j) == /\ j.on \in 1..conn /\ j.opened <= conn
              /\ j.op = "set" => j.param \in Params
              /\ j.pc = "new" => ~j.again
              /\ j.pc = "replaying" => j.todo \subseteq DOMAIN remembered
JobsTyped == job \in [Requests -> Job] /\ \A r \in Requests : JobFits(job[r])
TypeInv == SessionsTyped /\ OthersTyped /\ JobsTyped

LEMMA InitType == Init => TypeInv
<1> SUFFICES ASSUME Init PROVE TypeInv
  OBVIOUS
<1> USE DEF Init
<1>1. NewSession \in Session
  BY DEF NewSession, Session, Settings, Values
<1>2. NewJob \in Job
  BY DEF NewJob, Job, PC, Op, Settings, Values
<1>3. sessions \in Seq(Session) /\ Len(sessions) = 1
  BY <1>1
<1>4. cache \in Seq(Nat \cup {None}) /\ Len(cache) = 1
  OBVIOUS
<1>5. DOMAIN remembered = {} /\ remembered \in [DOMAIN remembered -> Values]
  OBVIOUS
<1>6. \A r \in Requests : /\ job[r].on \in 1..conn /\ job[r].op # "set" /\ ~job[r].again
                           /\ job[r].pc = "new" /\ job[r].opened <= conn
  BY DEF NewJob
<1>7. conn = Len(sessions) /\ conn \in Nat \ {0} /\ Len(cache) = conn
  BY <1>3, <1>4
<1>8. db \in Nat /\ acked \in Nat /\ overlapped \in BOOLEAN
  OBVIOUS
<1>9. job \in [Requests -> Job]
  BY <1>2
<1>10. DOMAIN remembered \subseteq Params
  BY <1>5
<1> HIDE DEF Init
<1> QED BY <1>3, <1>4, <1>5, <1>6, <1>7, <1>8, <1>9, <1>10
       DEF TypeInv, SessionsTyped, OthersTyped, JobsTyped, JobFits

-----------------------------------------------------------------------------
(* What a step does to the request that takes it, and to the others.       *)

\* Of the others, a step changes at most whether what they fetch is still wanted.
Alike(e, j) == /\ e.pc = j.pc /\ e.op = j.op /\ e.param = j.param /\ e.value = j.value
               /\ e.on = j.on /\ e.again = j.again /\ e.seen = j.seen /\ e.todo = j.todo
               /\ e.saved = j.saved /\ e.opened = j.opened /\ (e.attached => j.attached)
Others(r) == \A q \in Requests \ {r} : Alike(job'[q], job[q])
Becomes(r, e) == job' \in [Requests -> Job] /\ Others(r) /\ job'[r] = e

\* What a request is about, and whether it is a retry, outlives most steps.
Same(r, e) == /\ e.op = job[r].op /\ e.param = job[r].param /\ e.value = job[r].value
              /\ e.again = job[r].again /\ e.opened = job[r].opened

LEMMA DoesBecome ==
  ASSUME TypeInv, NEW r \in Requests, NEW e \in Job, job' = [job EXCEPT ![r] = e]
  PROVE  Becomes(r, e)
<1>1. job' \in [Requests -> Job] /\ job'[r] = e
  BY DEF TypeInv, JobsTyped
<1>2. \A q \in Requests \ {r} : job'[q] = job[q]
  BY DEF TypeInv, JobsTyped
<1> QED BY <1>1, <1>2 DEF Becomes, Others, Alike

\* A request comes to its end.
LEMMA EndedJob ==
  ASSUME NEW pc \in PC
  PROVE  /\ Over(pc) \in Job /\ Over(pc).pc = pc /\ Over(pc).op = "write"
         /\ Over(pc).on = 1 /\ Over(pc).seen = 0 /\ Over(pc).again = FALSE
         /\ Over(pc).opened = 0
<1> DEFINE n == NewJob
<1>1. n \in Job
  BY DEF NewJob, Job, PC, Op, Settings, Values
<1>2. n.op = "write" /\ n.on = 1 /\ n.seen = 0 /\ n.again = FALSE /\ n.opened = 0
  BY DEF NewJob
<1>3. Over(pc) = [n EXCEPT !.pc = pc]
  BY DEF Over
<1> HIDE DEF n
<1> QED BY <1>1, <1>2, <1>3 DEF Job

LEMMA DoesEnd ==
  ASSUME TypeInv, NEW r \in Requests, NEW pc \in PC, End(r, pc)
  PROVE  Becomes(r, Over(pc))
BY EndedJob, DoesBecome DEF End

\* A request goes from one await to the next.
LEMMA DoesGoto ==
  ASSUME TypeInv, NEW r \in Requests, NEW pc \in PC, Goto(r, pc)
  PROVE  \E e \in Job : /\ Becomes(r, e) /\ Same(r, e) /\ e.pc = pc /\ e.on = job[r].on
                        /\ e.seen = job[r].seen /\ e.todo = job[r].todo
                        /\ e.saved = job[r].saved /\ e.attached = job[r].attached
<1> DEFINE e == [job[r] EXCEPT !.pc = pc]
<1>1. job \in [Requests -> Job] /\ job[r] \in Job
  BY DEF TypeInv, JobsTyped
<1>2. /\ e \in Job /\ e.pc = pc /\ Same(r, e) /\ e.on = job[r].on
      /\ e.seen = job[r].seen /\ e.todo = job[r].todo /\ e.saved = job[r].saved
      /\ e.attached = job[r].attached
  BY <1>1 DEF Job, Same
<1>3. job' = [job EXCEPT ![r] = e]
  BY DEF Goto
<1> HIDE DEF e
<1> QED BY <1>2, <1>3, DoesBecome

LEMMA DoesEnter ==
  ASSUME TypeInv, NEW r \in Requests, NEW op \in Op, NEW p \in Params \cup {None},
         NEW v \in Values, Enter(r, op, p, v)
  PROVE  \E e \in Job : /\ Becomes(r, e) /\ e.pc = "calling" /\ e.op = op /\ e.param = p
                        /\ e.value = v /\ e.on = conn /\ ~e.again /\ e.seen = job[r].seen
                        /\ e.opened = job[r].opened
<1> DEFINE e == [job[r] EXCEPT !.op = op, !.param = p, !.value = v, !.on = conn,
                               !.pc = "calling"]
<1>1. job[r] \in Job /\ ~job[r].again /\ conn \in Nat \ {0} /\ "calling" \in PC
  BY DEF TypeInv, JobsTyped, JobFits, SessionsTyped, Enter, At, PC, Waiting
<1>2. /\ e \in Job /\ e.pc = "calling" /\ e.op = op /\ e.param = p /\ e.value = v
      /\ e.on = conn /\ ~e.again /\ e.seen = job[r].seen
      /\ e.opened = job[r].opened
  BY <1>1 DEF Job
<1>3. job' = [job EXCEPT ![r] = e]
  BY DEF Enter
<1> HIDE DEF e
<1> QED BY <1>2, <1>3, DoesBecome

\* A statement or a catalog query has its answer.
LEMMA DoesExecute ==
  ASSUME TypeInv, NEW r \in Requests, Execute(r)
  PROVE  /\ db' \in Nat
         /\ \E e \in Job : /\ Becomes(r, e) /\ Same(r, e)
                           /\ e.pc = IF job[r].op = "query" THEN "fetching" ELSE "executed"
                           /\ e.seen = db' /\ e.on = job[r].on
<1> DEFINE pc == IF job[r].op = "query" THEN "fetching" ELSE "executed"
           e == [job[r] EXCEPT !.pc = pc, !.seen = db']
<1>1. job[r] \in Job /\ db' \in Nat /\ pc \in PC
  BY DEF Execute, Altered, TypeInv, OthersTyped, JobsTyped, PC, Waiting, Answered
<1>2. job' = [job EXCEPT ![r] = e]
  BY DEF Execute
<1> HIDE DEF pc
<1>3. e \in Job /\ e.pc = pc /\ Same(r, e) /\ e.on = job[r].on /\ e.seen = db'
  BY <1>1 DEF Job, Same
<1> HIDE DEF e
<1>4. Becomes(r, e)
  BY <1>2, <1>3, DoesBecome
<1> QED BY <1>1, <1>3, <1>4 DEF pc

LEMMA DoesRead ==
  ASSUME TypeInv, NEW r \in Requests, Read(r)
  PROVE  \E e \in Job : /\ Becomes(r, e) /\ Same(r, e) /\ e.pc = "read" /\ e.seen = db
                        /\ e.on = job[r].on
<1> DEFINE e == [job[r] EXCEPT !.pc = "read", !.seen = db]
<1>1. job[r] \in Job /\ db \in Nat /\ "read" \in PC
  BY DEF Read, TypeInv, OthersTyped, JobsTyped, PC, Answered
<1>2. e \in Job /\ e.pc = "read" /\ Same(r, e) /\ e.on = job[r].on /\ e.seen = db
  BY <1>1 DEF Job, Same
<1>3. job' = [job EXCEPT ![r] = e]
  BY DEF Read
<1> HIDE DEF e
<1> QED BY <1>1, <1>2, <1>3, DoesBecome

\* One of the settings a request still has to see to is set.
LEMMA DoesOne ==
  ASSUME TypeInv, NEW r \in Requests, NEW p \in Params,
         job' = [job EXCEPT ![r].todo = @ \ {p}]
  PROVE  \E e \in Job : /\ Becomes(r, e) /\ Same(r, e) /\ e.pc = job[r].pc
                        /\ e.todo = job[r].todo \ {p}
                        /\ e.on = job[r].on /\ e.seen = job[r].seen
                        /\ e.saved = job[r].saved
<1> DEFINE e == [job[r] EXCEPT !.todo = @ \ {p}]
<1>1. job[r] \in Job
  BY DEF TypeInv, JobsTyped
<1>2. /\ e \in Job /\ e.pc = job[r].pc /\ Same(r, e) /\ e.on = job[r].on
      /\ e.seen = job[r].seen /\ e.todo = job[r].todo \ {p} /\ e.saved = job[r].saved
  BY <1>1 DEF Job, Same
<1>3. job' = [job EXCEPT ![r] = e]
  OBVIOUS
<1> HIDE DEF e
<1> QED BY <1>2, <1>3, DoesBecome

LEMMA DoesMiss ==
  ASSUME TypeInv, NEW r \in Requests, Miss(r)
  PROVE  \E e \in Job : /\ Becomes(r, e) /\ Same(r, e) /\ e.pc = "reading"
                        /\ e.on = job[r].on /\ e.seen = job[r].seen
<1> DEFINE e == [job[r] EXCEPT !.pc = "reading", !.attached = TRUE]
<1>1. job[r] \in Job /\ "reading" \in PC
  BY DEF TypeInv, JobsTyped, PC, Waiting
<1>2. /\ e \in Job /\ e.pc = "reading" /\ Same(r, e) /\ e.on = job[r].on
      /\ e.seen = job[r].seen
  BY <1>1 DEF Job, Same
<1>3. job' = [job EXCEPT ![r] = e]
  BY DEF Miss
<1> HIDE DEF e
<1> QED BY <1>2, <1>3, DoesBecome

LEMMA DoesSave ==
  ASSUME TypeInv, NEW r \in Requests, SaveFormats(r)
  PROVE  \E e \in Job : /\ Becomes(r, e) /\ Same(r, e) /\ e.pc = "applying"
                        /\ e.on = job[r].on /\ e.seen = job[r].seen
                        /\ e.saved = sessions[job[r].on].settings
<1> DEFINE s == sessions[job[r].on].settings
           e == [job[r] EXCEPT !.pc = "applying", !.todo = Params, !.saved = s]
<1>1. job[r] \in Job /\ "applying" \in PC
  BY DEF TypeInv, JobsTyped, PC, Waiting
<1>2. s \in Settings
  <2>1. job[r].on \in 1..Len(sessions) /\ sessions \in Seq(Session)
    BY DEF TypeInv, JobsTyped, JobFits, SessionsTyped
  <2>2. sessions[job[r].on] \in Session
    BY <2>1
  <2> QED BY <2>2 DEF Session
<1>3. /\ e \in Job /\ e.pc = "applying" /\ Same(r, e) /\ e.on = job[r].on
      /\ e.seen = job[r].seen /\ e.saved = s
  <2> HIDE DEF s
  <2> QED BY <1>1, <1>2 DEF Job, Same
<1>4. job' = [job EXCEPT ![r] = e]
  <2> HIDE DEF s
  <2>1. job' = [job EXCEPT ![r].pc = "applying", ![r].todo = Params, ![r].saved = s]
    BY DEF SaveFormats, s
  <2> QED BY <2>1
<1> HIDE DEF e
<1> QED BY <1>3, <1>4, DoesBecome

LEMMA DoesOpen ==
  ASSUME TypeInv, NEW r \in Requests, OpenNew(r), conn' \in Nat
  PROVE  \E e \in Job : /\ Becomes(r, e) /\ e.pc = "replaying"
                        /\ e.op = job[r].op /\ e.param = job[r].param
                        /\ e.again = job[r].again
                        /\ e.todo = DOMAIN remembered /\ e.opened = conn'
                        /\ e.on = job[r].on /\ e.seen = job[r].seen
<1> DEFINE e == [job[r] EXCEPT !.pc = "replaying", !.todo = ToReplay,
                               !.known = DOMAIN remembered, !.opened = conn']
<1>1. job[r] \in Job /\ "replaying" \in PC /\ DOMAIN remembered \in SUBSET Params
  BY DEF TypeInv, JobsTyped, OthersTyped, PC, Reconnect
<1>2. /\ e \in Job /\ e.pc = "replaying" /\ e.todo = DOMAIN remembered
      /\ e.op = job[r].op /\ e.param = job[r].param /\ e.again = job[r].again
      /\ e.on = job[r].on /\ e.seen = job[r].seen /\ e.opened = conn'
  BY <1>1 DEF Job, ToReplay
<1>3. job' = [job EXCEPT ![r] = e]
  BY DEF OpenNew
<1> HIDE DEF e
<1> QED BY <1>2, <1>3, DoesBecome

LEMMA DoesRetry ==
  ASSUME TypeInv, NEW r \in Requests, Retry(r)
  PROVE  \E e \in Job : /\ Becomes(r, e) /\ e.pc = "calling" /\ e.on = conn /\ e.again
                        /\ e.op = job[r].op /\ e.param = job[r].param
                        /\ e.seen = job[r].seen /\ e.opened = job[r].opened
<1> DEFINE e == [job[r] EXCEPT !.pc = "calling", !.on = conn, !.again = TRUE]
<1>1. job[r] \in Job /\ "calling" \in PC /\ conn \in Nat \ {0}
  BY DEF TypeInv, JobsTyped, SessionsTyped, PC, Waiting
<1>2. /\ e \in Job /\ e.pc = "calling" /\ e.on = conn /\ e.again
      /\ e.op = job[r].op /\ e.param = job[r].param /\ e.seen = job[r].seen
      /\ e.opened = job[r].opened
  BY <1>1 DEF Job
<1>3. job' = [job EXCEPT ![r] = e]
  BY DEF Retry
<1> HIDE DEF e
<1> QED BY <1>2, <1>3, DoesBecome

\* invalidate_cache: whoever is fetching on this session fetches in vain.
LEMMA DoesDetach ==
  ASSUME TypeInv, NEW r \in Requests, NEW e \in Job, e.pc \notin {"reading", "read"},
         job' = Detached([job EXCEPT ![r] = e])
  PROVE  /\ Becomes(r, e)
         /\ \A q \in Requests : job'[q].pc = "read" /\ job'[q].attached => job'[q].on # conn
<1> DEFINE js == [job EXCEPT ![r] = e]
<1>1. js \in [Requests -> Job] /\ js[r] = e /\ \A q \in Requests \ {r} : js[q] = job[q]
  BY DEF TypeInv, JobsTyped
<1>2. job' = Detached(js)
  OBVIOUS
<1> HIDE DEF js
<1>3. ASSUME NEW q \in Requests
      PROVE  /\ job'[q] \in Job /\ Alike(job'[q], js[q])
             /\ job'[q].pc = "read" /\ job'[q].attached => job'[q].on # conn
  <2> DEFINE j == js[q]
  <2>1. j \in Job
    BY <1>1
  <2>2. job'[q] = IF j.pc \in {"reading", "read"} /\ j.on = conn
                  THEN [j EXCEPT !.attached = FALSE] ELSE j
    BY <1>2 DEF Detached
  <2> HIDE DEF j
  <2>3. /\ job'[q] \in Job /\ Alike(job'[q], j)
        /\ job'[q].pc = "read" /\ job'[q].attached => job'[q].on # conn
    <3>1. [j EXCEPT !.attached = FALSE] \in Job /\ Alike([j EXCEPT !.attached = FALSE], j)
          /\ [j EXCEPT !.attached = FALSE].attached = FALSE
      BY <2>1 DEF Job, Alike
    <3>2. Alike(j, j)
      BY DEF Alike
    <3>3. CASE j.pc \in {"reading", "read"} /\ j.on = conn
      BY <2>2, <3>1, <3>3
    <3>4. CASE ~(j.pc \in {"reading", "read"} /\ j.on = conn)
      BY <2>1, <2>2, <3>2, <3>4
    <3> QED BY <3>3, <3>4
  <2> QED BY <2>3 DEF j
<1>4. job'[r] = e
  BY <1>1, <1>2 DEF Detached
<1>5. job' \in [Requests -> Job]
  <2>1. job' = [q \in Requests |-> job'[q]]
    BY <1>2 DEF Detached
  <2> QED BY <1>3, <2>1
<1>6. \A q \in Requests \ {r} : Alike(job'[q], job[q])
  BY <1>1, <1>3
<1> QED BY <1>3, <1>4, <1>5, <1>6 DEF Becomes, Others

\* A LOAD stops sending rows, at its end or because it is cancelled.
Restoring(r) == [job[r] EXCEPT !.pc = "restoring", !.todo = ToRestore]
LEMMA RestoringJob ==
  ASSUME TypeInv, NEW r \in Requests
  PROVE  /\ Restoring(r) \in Job /\ Same(r, Restoring(r)) /\ Restoring(r).pc = "restoring"
         /\ Restoring(r).todo = Params /\ Restoring(r).on = job[r].on
         /\ Restoring(r).seen = job[r].seen /\ Restoring(r).saved = job[r].saved
<1>1. job[r] \in Job /\ "restoring" \in PC
  BY DEF TypeInv, JobsTyped, PC, Waiting
<1> QED BY <1>1 DEF Restoring, Job, Same, ToRestore

LEMMA DoesSend ==
  ASSUME TypeInv, NEW r \in Requests, SendRows(r)
  PROVE  /\ Becomes(r, Restoring(r))
         /\ cache' = cache \/ cache' = [cache EXCEPT ![conn] = None]
<1> DEFINE js == [job EXCEPT ![r].pc = "restoring", ![r].todo = ToRestore]
<1>1. js = [job EXCEPT ![r] = Restoring(r)]
  BY DEF Restoring
<1>2. \/ cache' = [cache EXCEPT ![conn] = None] /\ job' = Detached(js)
      \/ job' = js /\ cache' = cache
  BY DEF SendRows, Invalidate
<1> HIDE DEF js
<1>3. \/ cache' = [cache EXCEPT ![conn] = None]
         /\ job' = Detached([job EXCEPT ![r] = Restoring(r)])
      \/ job' = [job EXCEPT ![r] = Restoring(r)] /\ cache' = cache
  BY <1>1, <1>2
<1> QED BY <1>3, RestoringJob, DoesBecome, DoesDetach

LEMMA DoesCancel ==
  ASSUME TypeInv, NEW r \in Requests, Cancel(r)
  PROVE  \E e \in Job :
           /\ Becomes(r, e)
           /\ \/ At(r, {"loading"}) /\ e = Restoring(r)
              \/ e = Over("cut")
              \/ ~At(r, {"loading", "replaying"}) /\ ~Changes(job[r]) /\ e = Over("done")
<1> DEFINE e == AfterCancel(r)
<1>1. job' = [job EXCEPT ![r] = e]
  BY DEF Cancel
<1>2. \/ At(r, {"loading"}) /\ e = Restoring(r)
      \/ e = Over("cut")
      \/ ~At(r, {"loading", "replaying"}) /\ ~Changes(job[r]) /\ e = Over("done")
  BY DEF AfterCancel, Restoring, At
<1>3. e \in Job
  BY <1>2, RestoringJob, EndedJob DEF PC, Ended
<1> HIDE DEF e
<1> QED BY <1>1, <1>2, <1>3, DoesBecome

-----------------------------------------------------------------------------
(* What a step does to the sessions.                                       *)

LEMMA ReplacesOne ==
  ASSUME TypeInv, NEW i \in 1..conn, NEW n \in Session, sessions' = [sessions EXCEPT ![i] = n]
  PROVE  /\ sessions' \in Seq(Session) /\ Len(sessions') = conn /\ sessions'[i] = n
         /\ \A k \in 1..conn \ {i} : sessions'[k] = sessions[k]
<1>1. i \in 1..Len(sessions) /\ conn = Len(sessions) /\ sessions \in Seq(Session)
  BY DEF TypeInv, SessionsTyped
<1> QED BY <1>1

LEMMA SetsOne ==
  ASSUME TypeInv, NEW i \in 1..conn, NEW p \in Params, NEW v \in Values,
         sessions' = [sessions EXCEPT ![i].settings[p] = v]
  PROVE  /\ sessions' \in Seq(Session) /\ Len(sessions') = conn
         /\ \A k \in 1..conn : sessions'[k].alive = sessions[k].alive
         /\ \A k \in 1..conn \ {i} : sessions'[k] = sessions[k]
         /\ \A q \in Params : sessions'[i].settings[q] =
                               IF q = p THEN v ELSE sessions[i].settings[q]
<1> DEFINE s == sessions[i]
           t == [s.settings EXCEPT ![p] = v]
           n == [s EXCEPT !.settings = t]
<1>1. i \in DOMAIN sessions /\ conn = Len(sessions) /\ sessions \in Seq(Session) /\ s \in Session
  BY DEF TypeInv, SessionsTyped
<1>2. t \in Settings /\ \A q \in Params : t[q] = IF q = p THEN v ELSE s.settings[q]
  BY <1>1 DEF Session, Settings
<1>3. n \in Session /\ n.settings = t /\ n.alive = s.alive
  <2> HIDE DEF s, t
  <2> QED BY <1>1, <1>2 DEF Session
<1>4. sessions' = [sessions EXCEPT ![i] = n]
  OBVIOUS
<1> HIDE DEF n, t
<1>5. /\ sessions' \in Seq(Session) /\ Len(sessions') = conn /\ sessions'[i] = n
      /\ \A k \in 1..conn \ {i} : sessions'[k] = sessions[k]
  BY <1>3, <1>4, ReplacesOne
<1> QED BY <1>2, <1>3, <1>5

LEMMA Closes ==
  ASSUME TypeInv, sessions' = [sessions EXCEPT ![conn].alive = FALSE]
  PROVE  /\ sessions' \in Seq(Session) /\ Len(sessions') = conn
         /\ \A k \in 1..conn \ {conn} : sessions'[k] = sessions[k]
         /\ ~sessions'[conn].alive
<1> DEFINE s == sessions[conn]
           n == [s EXCEPT !.alive = FALSE]
<1>1. /\ conn \in DOMAIN sessions /\ conn \in 1..conn /\ conn = Len(sessions)
      /\ sessions \in Seq(Session) /\ s \in Session
  BY DEF TypeInv, SessionsTyped
<1>2. n \in Session /\ ~n.alive
  <2> HIDE DEF s
  <2> QED BY <1>1 DEF Session
<1>3. sessions' = [sessions EXCEPT ![conn] = n]
  OBVIOUS
<1> HIDE DEF n
<1> QED BY <1>1, <1>2, <1>3, ReplacesOne

LEMMA Opens ==
  ASSUME TypeInv, sessions' = Append(sessions, NewSession)
  PROVE  /\ sessions' \in Seq(Session) /\ Len(sessions') = conn + 1
         /\ \A k \in 1..conn : sessions'[k] = sessions[k]
         /\ \A p \in Params : sessions'[conn + 1].settings[p] = Default
<1>1. NewSession \in Session /\ \A p \in Params : NewSession.settings[p] = Default
  BY DEF NewSession, Session, Settings, Values
<1>2. sessions \in Seq(Session) /\ conn = Len(sessions) /\ conn \in Nat
  BY DEF TypeInv, SessionsTyped
<1> QED BY <1>1, <1>2

-----------------------------------------------------------------------------
(* Every step keeps the type.                                              *)

LEMMA JobsStayTyped ==
  ASSUME TypeInv, NEW r \in Requests, NEW e, Becomes(r, e),
         conn' \in Nat, conn' >= conn, DOMAIN remembered \subseteq DOMAIN remembered',
         JobFits(e)'
  PROVE  JobsTyped'
<1>1. \A q \in Requests \ {r} : JobFits(job[q]) /\ Alike(job'[q], job[q])
  BY DEF TypeInv, JobsTyped, Becomes, Others
<1>2. \A q \in Requests : job[q].opened \in Nat /\ conn \in Nat
  BY DEF TypeInv, SessionsTyped, JobsTyped, Job
<1>3. \A q \in Requests \ {r} : JobFits(job[q])'
  BY <1>1, <1>2 DEF JobFits, Alike
<1> QED BY <1>3 DEF Becomes, JobsTyped, JobFits

LEMMA WatchTyped == TypeInv /\ Watch => overlapped' \in BOOLEAN
BY DEF TypeInv, OthersTyped, Watch

\* A step of a request that opens no session and changes nothing the driver keeps.
LEMMA QuietStaysTyped ==
  ASSUME TypeInv, NEW r \in Requests, NEW e, Becomes(r, e), JobFits(e), Watch,
         UNCHANGED <<sessions, conn, remembered, db, cache, acked>>
  PROVE  TypeInv'
<1>1. /\ conn' \in Nat /\ conn' >= conn /\ JobFits(e)'
      /\ DOMAIN remembered \subseteq DOMAIN remembered'
  BY DEF TypeInv, SessionsTyped, JobFits
<1> QED BY <1>1, JobsStayTyped, WatchTyped DEF TypeInv, SessionsTyped, OthersTyped

LEMMA EndFits ==
  ASSUME TypeInv, NEW pc \in Ended
  PROVE  JobFits(Over(pc))
<1> DEFINE e == Over(pc)
<1>1. /\ e.on = 1 /\ e.op = "write" /\ e.again = FALSE /\ e.pc # "replaying"
      /\ e.opened = 0
  BY EndedJob DEF Ended, PC
<1>2. conn \in Nat \ {0}
  BY DEF TypeInv, SessionsTyped
<1> HIDE DEF e
<1>3. JobFits(e)
  BY <1>1, <1>2 DEF JobFits
<1> QED BY <1>3 DEF e

LEMMA EndStaysTyped ==
  ASSUME TypeInv, NEW r \in Requests, NEW pc \in Ended, End(r, pc), Watch,
         UNCHANGED <<sessions, conn, remembered, db, cache, acked>>
  PROVE  TypeInv'
<1>1. pc \in PC
  BY DEF Ended, PC
<1> QED BY <1>1, EndFits, DoesEnd, QuietStaysTyped

LEMMA GotoStaysTyped ==
  ASSUME TypeInv, NEW r \in Requests, NEW pc \in PC \ {"new", "replaying"}, Goto(r, pc),
         Watch,
         UNCHANGED <<sessions, conn, remembered, db, cache, acked>>
  PROVE  TypeInv'
<1>1. PICK e \in Job : Becomes(r, e) /\ Same(r, e) /\ e.pc = pc /\ e.on = job[r].on
  BY DoesGoto
<1>2. JobFits(e)
  BY <1>1 DEF JobFits, Same, TypeInv, JobsTyped
<1> QED BY <1>1, <1>2, QuietStaysTyped

LEMMA SetStaysTyped ==
  ASSUME TypeInv, NEW r \in Requests, NEW i \in 1..conn, NEW p \in Params, NEW v \in Values,
         sessions' = [sessions EXCEPT ![i].settings[p] = v],
         NEW e, Becomes(r, e), JobFits(e), Watch,
         UNCHANGED <<conn, remembered, db, cache, acked>>
  PROVE  TypeInv'
<1>1. /\ conn' \in Nat /\ conn' >= conn /\ JobFits(e)'
      /\ DOMAIN remembered \subseteq DOMAIN remembered'
  BY DEF TypeInv, SessionsTyped, JobFits
<1>2. sessions' \in Seq(Session) /\ Len(sessions') = conn
  BY SetsOne
<1> QED BY <1>1, <1>2, JobsStayTyped, WatchTyped DEF TypeInv, SessionsTyped, OthersTyped

\* One of the session's formats is set, by a LOAD or by the replay.
LEMMA TodoSetStaysTyped ==
  ASSUME TypeInv, NEW r \in Requests, job[r].pc # "new", NEW i \in 1..conn, NEW p \in Params,
         NEW v \in Values, sessions' = [sessions EXCEPT ![i].settings[p] = v],
         job' = [job EXCEPT ![r].todo = @ \ {p}], Watch,
         UNCHANGED <<conn, remembered, db, cache, acked>>
  PROVE  TypeInv'
<1>1. PICK e \in Job : /\ Becomes(r, e) /\ Same(r, e) /\ e.pc = job[r].pc
                       /\ e.todo = job[r].todo \ {p}
                       /\ e.on = job[r].on /\ e.seen = job[r].seen
                       /\ e.saved = job[r].saved
  BY DoesOne
<1>2. JobFits(e)
  BY <1>1 DEF JobFits, Same, TypeInv, JobsTyped
<1> QED BY <1>1, <1>2, SetStaysTyped

LEMMA TypeStatement ==
  ASSUME TypeInv, NEW r \in Requests, Start(r) \/ Statement(r)
  PROVE  TypeInv'
<1>1. ASSUME NEW op \in Op, NEW p \in Params \cup {None}, NEW v \in Values,
             Enter(r, op, p, v), op = "set" => p \in Params
      PROVE  TypeInv'
  <2>1. PICK e \in Job : /\ Becomes(r, e) /\ e.pc = "calling" /\ e.op = op /\ e.param = p
                         /\ e.on = conn /\ ~e.again /\ e.opened = job[r].opened
    BY <1>1, DoesEnter
  <2>2. JobFits(e)
    BY <1>1, <2>1 DEF JobFits, TypeInv, SessionsTyped, JobsTyped
  <2> QED BY <1>1, <2>1, <2>2, QuietStaysTyped DEF Enter, OnlyJob
<1>2. CASE Start(r)
  BY <1>1, <1>2 DEF Start, Op, Values
<1>3. CASE Execute(r)
  <2>1. db' \in Nat
    BY <1>3, DoesExecute
  <2>2. PICK e \in Job : /\ Becomes(r, e) /\ Same(r, e) /\ e.on = job[r].on
                         /\ e.pc \in {"executed", "fetching"}
    BY <1>3, DoesExecute
  <2>3. JobFits(e) /\ JobFits(e)'
    BY <1>3, <2>2 DEF Execute, JobFits, Same, TypeInv, JobsTyped
  <2>4. CASE UNCHANGED sessions
    <3>1. JobsTyped'
      BY <1>3, <2>2, <2>3, JobsStayTyped DEF Execute, TypeInv, SessionsTyped
    <3>2. SessionsTyped'
      BY <1>3, <2>4 DEF Execute, TypeInv, SessionsTyped
    <3> QED BY <1>3, <2>1, <3>1, <3>2, WatchTyped DEF Execute, TypeInv, OthersTyped
  <2>5. CASE /\ job[r].op = "set" /\ UNCHANGED db
             /\ sessions' = [sessions EXCEPT ![job[r].on].settings[job[r].param] = job[r].value]
    <3>1. job[r].on \in 1..conn /\ job[r].param \in Params /\ job[r].value \in Values
      BY <2>5 DEF TypeInv, JobsTyped, JobFits, Job
    <3> QED BY <1>3, <2>2, <2>3, <2>5, <3>1, SetStaysTyped DEF Execute
  <2> QED BY <1>3, <2>4, <2>5 DEF Execute
<1>4. CASE FetchRows(r) \/ Rejected(r)
  BY <1>4, EndStaysTyped DEF FetchRows, Rejected, OnlyJob, Ended
<1>5. CASE Complete(r)
  <2>1. /\ job' = Detached([job EXCEPT ![r] = Over("done")])
        /\ cache' = [cache EXCEPT ![conn] = None] /\ UNCHANGED <<sessions, conn, db>>
        /\ remembered' = IF IsSet(r) THEN Remember(r) ELSE remembered
        /\ acked' = (IF job[r].seen > acked THEN job[r].seen ELSE acked) /\ Watch
    BY <1>5 DEF Complete, Invalidate
  <2>2. Becomes(r, Over("done"))
    BY <2>1, EndedJob, DoesDetach DEF PC, Ended
  <2>3. JobFits(Over("done"))'
    BY <2>1, EndFits, EndedJob DEF JobFits, Ended, PC
  <2>4. JobsTyped'
    <3>1. DOMAIN remembered \subseteq DOMAIN remembered'
      BY <2>1 DEF Remember
    <3> QED BY <2>1, <2>2, <2>3, <3>1, JobsStayTyped DEF TypeInv, SessionsTyped
  <2>5. SessionsTyped'
    BY <2>1 DEF TypeInv, SessionsTyped
  <2>6. DOMAIN remembered' \subseteq Params /\ remembered' \in [DOMAIN remembered' -> Values]
    <3>1. CASE ~IsSet(r)
      BY <2>1, <3>1 DEF TypeInv, OthersTyped
    <3>2. CASE IsSet(r)
      <4>1. job[r].param \in Params /\ job[r].value \in Values
        BY <3>2 DEF IsSet, TypeInv, JobsTyped, JobFits, Job
      <4> QED BY <2>1, <3>2, <4>1 DEF Remember, TypeInv, OthersTyped
    <3> QED BY <3>1, <3>2
  <2>7. acked' \in Nat
    BY <2>1 DEF TypeInv, OthersTyped, JobsTyped, Job
  <2> QED BY <2>1, <2>4, <2>5, <2>6, <2>7, WatchTyped DEF TypeInv, OthersTyped
<1> QED BY <1>2, <1>3, <1>4, <1>5 DEF Statement

LEMMA TypeExplore ==
  ASSUME TypeInv, NEW r \in Requests, Explore(r)
  PROVE  TypeInv'
<1>1. CASE Hit(r)
  BY <1>1, EndStaysTyped DEF Hit, OnlyJob, Ended
<1>2. CASE Miss(r)
  <2>1. PICK e \in Job : Becomes(r, e) /\ Same(r, e) /\ e.pc = "reading" /\ e.on = job[r].on
    BY <1>2, DoesMiss
  <2>2. JobFits(e)
    BY <2>1 DEF JobFits, Same, TypeInv, JobsTyped
  <2> QED BY <1>2, <2>1, <2>2, QuietStaysTyped DEF Miss, OnlyJob
<1>3. CASE Read(r)
  <2>1. PICK e \in Job : Becomes(r, e) /\ Same(r, e) /\ e.pc = "read" /\ e.on = job[r].on
    BY <1>3, DoesRead
  <2>2. JobFits(e)
    BY <2>1 DEF JobFits, Same, TypeInv, JobsTyped
  <2> QED BY <1>3, <2>1, <2>2, QuietStaysTyped DEF Read, OnlyJob
<1>4. CASE Store(r)
  <2>1. Becomes(r, Over("done"))
    BY <1>4, DoesEnd DEF Store, PC, Ended
  <2>2. JobFits(Over("done"))'
    BY <1>4, EndFits DEF JobFits, Ended, Store
  <2>3. JobsTyped'
    BY <1>4, <2>1, <2>2, JobsStayTyped DEF Store, TypeInv, SessionsTyped
  <2>4. job[r].seen \in Nat /\ job[r].on \in 1..Len(cache) /\ cache \in Seq(Nat \cup {None})
    BY DEF TypeInv, SessionsTyped, JobsTyped, JobFits, Job
  <2>5. cache' \in Seq(Nat \cup {None}) /\ Len(cache') = Len(cache)
    BY <1>4, <2>4 DEF Store
  <2>6. SessionsTyped'
    BY <1>4, <2>5 DEF Store, TypeInv, SessionsTyped
  <2> QED BY <1>4, <2>3, <2>6, WatchTyped DEF Store, TypeInv, OthersTyped
<1> QED BY <1>1, <1>2, <1>3, <1>4 DEF Explore

LEMMA TypeLoad ==
  ASSUME TypeInv, NEW r \in Requests, Load(r)
  PROVE  TypeInv'
<1>1. CASE StartLoad(r)
  BY <1>1, GotoStaysTyped DEF StartLoad, OnlyJob, PC, Waiting
<1>2. CASE SaveFormats(r)
  <2>1. PICK e \in Job : Becomes(r, e) /\ Same(r, e) /\ e.pc = "applying" /\ e.on = job[r].on
    BY <1>2, DoesSave
  <2>2. JobFits(e)
    BY <2>1 DEF JobFits, Same, TypeInv, JobsTyped
  <2> QED BY <1>2, <2>1, <2>2, QuietStaysTyped DEF SaveFormats, OnlyJob
<1>3. job[r].on \in 1..conn /\ \A p \in Params : job[r].saved[p] \in Values
  BY DEF TypeInv, JobsTyped, JobFits, Job, Settings
<1>4. CASE ApplyFormat(r)
  <2>1. PICK p \in Params : SetFormat(r, p, LoadFormat)
    BY <1>4 DEF ApplyFormat
  <2>2. job[r].pc # "new" /\ LoadFormat \in Values
    BY <1>4 DEF ApplyFormat, At, Values
  <2> QED BY <1>3, <1>4, <2>1, <2>2, TodoSetStaysTyped DEF ApplyFormat, SetFormat
<1>5. CASE ApplyFails(r)
  BY <1>5, EndStaysTyped DEF ApplyFails, OnlyJob, Ended
<1>6. CASE FormatsApplied(r)
  BY <1>6, GotoStaysTyped DEF FormatsApplied, OnlyJob, PC, Waiting
<1>7. CASE SendRows(r)
  <2>1. PICK e : e = Restoring(r)
    OBVIOUS
  <2>2. JobsTyped'
    <3>1. JobFits(e)'
      BY <1>7, <2>1, RestoringJob DEF SendRows, JobFits, Same, TypeInv, JobsTyped
    <3> QED BY <1>7, <2>1, <3>1, DoesSend, JobsStayTyped DEF SendRows, TypeInv, SessionsTyped
  <2>3. SessionsTyped'
    BY <1>7, DoesSend DEF SendRows, TypeInv, SessionsTyped
  <2> QED BY <1>7, <2>2, <2>3, WatchTyped DEF SendRows, TypeInv, OthersTyped
<1>8. CASE RestoreFormat(r)
  <2>1. PICK p \in Params : SetFormat(r, p, job[r].saved[p])
    BY <1>8 DEF RestoreFormat
  <2>2. job[r].pc # "new"
    BY <1>8 DEF RestoreFormat, At
  <2> QED BY <1>3, <1>8, <2>1, <2>2, TodoSetStaysTyped DEF RestoreFormat, SetFormat
<1>9. CASE Restored(r)
  BY <1>9, EndStaysTyped DEF Restored, OnlyJob, Ended
<1> QED BY <1>1, <1>2, <1>4, <1>5, <1>6, <1>7, <1>8, <1>9 DEF Load

LEMMA TypeReconnecting ==
  ASSUME TypeInv, NEW r \in Requests, Reconnecting(r)
  PROVE  TypeInv'
<1>1. CASE Lost(r)
  BY <1>1, EndStaysTyped, GotoStaysTyped DEF Lost, OnlyJob, PC, Reconnect, Ended
<1>2. CASE CloseOld(r)
  <2>1. PICK e \in Job : /\ Becomes(r, e) /\ Same(r, e) /\ e.pc = "opening"
                         /\ e.on = job[r].on
    BY <1>2, DoesGoto DEF CloseOld, PC, Reconnect
  <2>2. JobFits(e)'
    BY <1>2, <2>1 DEF CloseOld, JobFits, Same, TypeInv, JobsTyped
  <2>3. JobsTyped'
    BY <1>2, <2>1, <2>2, JobsStayTyped DEF CloseOld, TypeInv, SessionsTyped
  <2>4. SessionsTyped'
    BY <1>2, Closes DEF CloseOld, TypeInv, SessionsTyped
  <2> QED BY <1>2, <2>3, <2>4, WatchTyped DEF CloseOld, TypeInv, OthersTyped
<1>3. CASE OpenNew(r)
  <2>1. /\ sessions' \in Seq(Session) /\ Len(sessions') = conn + 1
        /\ conn' = Len(sessions') /\ conn' \in Nat
    BY <1>3, Opens DEF OpenNew, TypeInv, SessionsTyped
  <2>2. PICK e \in Job : /\ Becomes(r, e) /\ e.pc = "replaying"
                         /\ e.op = job[r].op /\ e.param = job[r].param
                         /\ e.todo = DOMAIN remembered /\ e.on = job[r].on
                         /\ e.opened = conn'
    BY <1>3, <2>1, DoesOpen
  <2>3. cache' \in Seq(Nat \cup {None}) /\ Len(cache') = conn + 1
    <3>1. cache \in Seq(Nat \cup {None}) /\ Len(cache) = conn /\ cache' = Append(cache, None)
      BY <1>3 DEF OpenNew, TypeInv, SessionsTyped
    <3> QED BY <3>1
  <2>4. conn \in Nat \ {0}
    BY DEF TypeInv, SessionsTyped
  <2>5. JobFits(e)'
    BY <1>3, <2>2, <2>1, <2>4 DEF OpenNew, JobFits, TypeInv, JobsTyped
  <2>6. JobsTyped'
    BY <1>3, <2>2, <2>1, <2>4, <2>5, JobsStayTyped DEF OpenNew
  <2>7. SessionsTyped'
    BY <2>1, <2>3, <2>4 DEF SessionsTyped
  <2> QED BY <1>3, <2>6, <2>7, WatchTyped DEF OpenNew, TypeInv, OthersTyped
<1>4. CASE OpenFails(r)
  BY <1>4, EndStaysTyped DEF OpenFails, OnlyJob, Ended
<1>5. CASE Replay(r)
  <2>1. PICK p \in job[r].todo :
          /\ sessions' = [sessions EXCEPT ![conn].settings[p] = remembered[p]]
          /\ job' = [job EXCEPT ![r].todo = @ \ {p}]
    BY <1>5 DEF Replay
  <2>2. p \in Params /\ conn \in 1..conn
    BY DEF TypeInv, JobsTyped, SessionsTyped, Job
  <2>3. remembered[p] \in Values
    BY <1>5 DEF Replay, At, TypeInv, OthersTyped, JobsTyped, JobFits
  <2> QED BY <1>5, <2>1, <2>2, <2>3, TodoSetStaysTyped DEF Replay, At
<1>6. CASE ReplayFails(r)
  BY <1>6, EndStaysTyped DEF ReplayFails, OnlyJob, Ended
<1>7. CASE Retry(r)
  <2>1. PICK e \in Job : /\ Becomes(r, e) /\ e.pc = "calling" /\ e.on = conn
                         /\ e.op = job[r].op /\ e.param = job[r].param
                         /\ e.opened = job[r].opened
    BY <1>7, DoesRetry
  <2>2. JobFits(e)
    BY <2>1 DEF JobFits, TypeInv, JobsTyped, SessionsTyped
  <2> QED BY <1>7, <2>1, <2>2, QuietStaysTyped DEF Retry, OnlyJob
<1> QED BY <1>1, <1>2, <1>3, <1>4, <1>5, <1>6, <1>7 DEF Reconnecting

LEMMA TypeNext == TypeInv /\ [Next]_vars => TypeInv'
<1> SUFFICES ASSUME TypeInv, [Next]_vars PROVE TypeInv'
  OBVIOUS
<1>1. ASSUME NEW r \in Requests, Cancel(r) PROVE TypeInv'
  <2>1. PICK e \in Job : /\ Becomes(r, e)
                         /\ e = Restoring(r) \/ e = Over("cut") \/ e = Over("done")
    BY <1>1, DoesCancel
  <2>2. JobFits(e)
    BY <2>1, RestoringJob, EndFits DEF JobFits, Same, TypeInv, JobsTyped, Ended
  <2> QED BY <1>1, <2>1, <2>2, QuietStaysTyped DEF Cancel
<1>2. CASE Drop
  <2>1. SessionsTyped'
    BY <1>2, Closes DEF Drop, TypeInv, SessionsTyped
  <2> QED BY <1>2, <2>1, WatchTyped DEF Drop, TypeInv, OthersTyped, JobsTyped, JobFits
<1>3. CASE UNCHANGED vars
  BY <1>3 DEF vars, TypeInv, SessionsTyped, OthersTyped, JobsTyped, JobFits
<1> QED BY <1>1, <1>2, <1>3, TypeStatement, TypeExplore, TypeLoad, TypeReconnecting DEF Next

\* Every session, job, setting and cache entry has its type, a request uses a
\* session that was opened, and a replay only sets what is remembered.
THEOREM TypeCorrect == Spec => []TypeInv
BY InitType, TypeNext, PTL DEF Spec

-----------------------------------------------------------------------------
(* The catalog cache.                                                      *)

\* What a fetch under way will store, if the cache it looked into is still the
\* connection's, is as new as every statement that has returned.
FetchIsCurrent(j) == j.pc = "read" /\ j.attached /\ j.on = conn => j.seen >= acked
CatalogInv == /\ acked <= db
              /\ \A r \in Requests : job[r].seen <= db /\ FetchIsCurrent(job[r])
              /\ CatalogIsCurrent

LEMMA CatalogInit == Init => CatalogInv
BY DEF Init, CatalogInv, FetchIsCurrent, CatalogIsCurrent, NewJob

\* A step that leaves the catalog and its cache alone.
LEMMA QuietKeepsCatalog ==
  ASSUME TypeInv, CatalogInv, NEW r \in Requests, NEW e, Becomes(r, e),
         e.seen <= db, FetchIsCurrent(e), UNCHANGED <<conn, db, cache, acked>>
  PROVE  CatalogInv'
<1>1. \A q \in Requests \ {r} : job'[q].seen <= db /\ FetchIsCurrent(job'[q])
  BY DEF CatalogInv, Becomes, Others, Alike, FetchIsCurrent
<1>2. \A q \in Requests : job'[q].seen <= db /\ FetchIsCurrent(job'[q])
  BY <1>1 DEF Becomes
<1>3. \A q \in Requests : (job[q].seen <= db /\ FetchIsCurrent(job[q]))'
  BY <1>2 DEF FetchIsCurrent
<1> QED BY <1>3 DEF CatalogInv, CatalogIsCurrent

LEMMA EndKeepsCatalog ==
  ASSUME TypeInv, CatalogInv, NEW r \in Requests, NEW pc \in Ended, End(r, pc),
         UNCHANGED <<conn, db, cache, acked>>
  PROVE  CatalogInv'
<1> DEFINE e == Over(pc)
<1>1. Becomes(r, e) /\ e.pc # "read" /\ e.seen = 0 /\ db \in Nat
  BY EndedJob, DoesEnd DEF Ended, PC, TypeInv, OthersTyped
<1> HIDE DEF e
<1>2. e.seen <= db /\ FetchIsCurrent(e)
  BY <1>1 DEF FetchIsCurrent
<1> QED BY <1>1, <1>2, QuietKeepsCatalog

\* A request that goes on to something else than storing what it has fetched.
LEMMA MoveKeepsCatalog ==
  ASSUME TypeInv, CatalogInv, NEW r \in Requests, NEW e, Becomes(r, e),
         e.seen = job[r].seen, e.pc # "read", UNCHANGED <<conn, db, cache, acked>>
  PROVE  CatalogInv'
<1>1. e.seen <= db /\ FetchIsCurrent(e)
  BY DEF CatalogInv, FetchIsCurrent
<1> QED BY <1>1, QuietKeepsCatalog

\* A statement has returned: the cache is empty and no fetch will fill it.
LEMMA CompleteKeepsCatalog ==
  ASSUME TypeInv, CatalogInv, NEW r \in Requests, Complete(r)
  PROVE  CatalogInv'
<1> DEFINE e == Over("done")
<1>1. "done" \in PC /\ e \in Job /\ e.pc = "done" /\ e.seen = 0
  BY EndedJob DEF PC, Ended
<1>2. job' = Detached([job EXCEPT ![r] = e]) /\ UNCHANGED <<conn, db>>
      /\ cache' = [cache EXCEPT ![conn] = None]
  BY DEF Complete, Invalidate
<1>3. acked' = IF job[r].seen > acked THEN job[r].seen ELSE acked
  BY DEF Complete
<1> HIDE DEF e
<1>4. /\ Becomes(r, e)
      /\ \A q \in Requests : job'[q].pc = "read" /\ job'[q].attached => job'[q].on # conn
  BY <1>1, <1>2, DoesDetach
<1>5. acked' <= db'
  BY <1>2, <1>3 DEF CatalogInv
<1>6. \A q \in Requests : job'[q].seen <= db'
  <2>1. job'[r].seen = 0 /\ db' = db /\ db \in Nat
    BY <1>1, <1>2, <1>4 DEF Becomes, TypeInv, OthersTyped
  <2>2. \A q \in Requests \ {r} : job'[q].seen = job[q].seen /\ job[q].seen <= db
    BY <1>4 DEF CatalogInv, Becomes, Others, Alike
  <2> QED BY <2>1, <2>2
<1>7. \A q \in Requests : FetchIsCurrent(job[q])'
  BY <1>2, <1>4 DEF FetchIsCurrent
<1>8. CatalogIsCurrent'
  BY <1>2 DEF CatalogIsCurrent, TypeInv, SessionsTyped
<1> QED BY <1>5, <1>6, <1>7, <1>8 DEF CatalogInv

LEMMA ExecuteKeepsCatalog ==
  ASSUME TypeInv, CatalogInv, NEW r \in Requests, Execute(r)
  PROVE  CatalogInv'
<1>1. PICK e \in Job : Becomes(r, e) /\ e.pc # "read" /\ e.seen = db'
  BY DoesExecute
<1>2. UNCHANGED <<conn, cache, acked>> /\ db' >= db /\ db' \in Nat /\ db \in Nat
  BY DEF Execute, Altered, TypeInv, OthersTyped
<1>3. acked \in Nat /\ \A q \in Requests : job[q].seen \in Nat
  BY DEF TypeInv, OthersTyped, JobsTyped, Job
<1>4. acked' <= db'
  BY <1>2, <1>3 DEF CatalogInv
<1>5. \A q \in Requests : job'[q].seen <= db' /\ FetchIsCurrent(job'[q])
  BY <1>1, <1>2, <1>3 DEF CatalogInv, Becomes, Others, Alike, FetchIsCurrent
<1>6. \A q \in Requests : (job[q].seen <= db /\ FetchIsCurrent(job[q]))'
  BY <1>2, <1>5 DEF FetchIsCurrent
<1> QED BY <1>2, <1>4, <1>6 DEF CatalogInv, CatalogIsCurrent

\* A fetch stores: into its own session's cache, and only what is current there.
LEMMA StoreKeepsCatalog ==
  ASSUME TypeInv, CatalogInv, NEW r \in Requests, Store(r)
  PROVE  CatalogInv'
<1> DEFINE e == Over("done")
<1>1. Becomes(r, e) /\ e.pc = "done" /\ e.seen = 0
  BY DoesEnd, EndedJob DEF PC, Ended, Store
<1> HIDE DEF e
<1>2. /\ UNCHANGED <<conn, db, acked>> /\ job[r].pc = "read"
      /\ cache' = IF job[r].attached THEN [cache EXCEPT ![job[r].on] = job[r].seen] ELSE cache
  BY DEF Store, At
<1>3. \A q \in Requests : (job[q].seen <= db /\ FetchIsCurrent(job[q]))'
  BY <1>1, <1>2 DEF CatalogInv, Becomes, Others, Alike, FetchIsCurrent, TypeInv, OthersTyped
<1>4. CatalogIsCurrent'
  <2>1. cache'[conn] = IF job[r].attached /\ job[r].on = conn THEN job[r].seen ELSE cache[conn]
    BY <1>2 DEF TypeInv, SessionsTyped
  <2> QED BY <1>2, <2>1 DEF CatalogInv, CatalogIsCurrent, FetchIsCurrent
<1> QED BY <1>2, <1>3, <1>4 DEF CatalogInv

\* A new session has cached nothing, and nobody is fetching on it yet.
LEMMA OpenKeepsCatalog ==
  ASSUME TypeInv, CatalogInv, NEW r \in Requests, OpenNew(r)
  PROVE  CatalogInv'
<1>1. /\ UNCHANGED <<db, acked>> /\ cache' = Append(cache, None)
      /\ sessions' = Append(sessions, NewSession) /\ conn' = Len(sessions')
  BY DEF OpenNew
<1>2. Len(sessions') = conn + 1 /\ conn' \in Nat
  BY <1>1, Opens DEF TypeInv, SessionsTyped
<1>3. PICK e \in Job : Becomes(r, e) /\ e.pc = "replaying" /\ e.seen = job[r].seen
  BY <1>2, DoesOpen
<1>4. cache'[conn'] = None
  BY <1>1, <1>2 DEF TypeInv, SessionsTyped
<1>5. \A q \in Requests : job[q].on \in 1..conn /\ conn \in Nat
  BY DEF TypeInv, JobsTyped, JobFits, SessionsTyped
<1>6. \A q \in Requests : job'[q].pc = "read" => job'[q].on # conn'
  BY <1>3, <1>1, <1>2, <1>5 DEF Becomes, Others, Alike
<1>7. \A q \in Requests : job'[q].seen <= db'
  BY <1>3, <1>1 DEF CatalogInv, Becomes, Others, Alike
<1> QED BY <1>1, <1>4, <1>6, <1>7 DEF CatalogInv, CatalogIsCurrent, FetchIsCurrent

LEMMA SendKeepsCatalog ==
  ASSUME TypeInv, CatalogInv, NEW r \in Requests, SendRows(r)
  PROVE  CatalogInv'
<1>1. PICK e : e = Restoring(r)
  OBVIOUS
<1>2. Becomes(r, e) /\ e.pc = "restoring" /\ e.seen = job[r].seen
  BY <1>1, DoesSend, RestoringJob
<1>3. /\ UNCHANGED <<conn, db, acked>>
      /\ cache' = cache \/ cache' = [cache EXCEPT ![conn] = None]
  BY DoesSend DEF SendRows
<1>4. \A q \in Requests : job'[q].seen <= db /\ FetchIsCurrent(job'[q])
  BY <1>2 DEF CatalogInv, Becomes, Others, Alike, FetchIsCurrent
<1>5. \A q \in Requests : (job[q].seen <= db /\ FetchIsCurrent(job[q]))'
  BY <1>3, <1>4 DEF FetchIsCurrent
<1>6. cache'[conn] = cache[conn] \/ cache'[conn] = None
  BY <1>3 DEF TypeInv, SessionsTyped
<1> QED BY <1>3, <1>5, <1>6 DEF CatalogInv, CatalogIsCurrent

LEMMA CatalogNext == TypeInv /\ CatalogInv /\ [Next]_vars => CatalogInv'
<1> SUFFICES ASSUME TypeInv, CatalogInv, [Next]_vars PROVE CatalogInv'
  OBVIOUS
<1>1. ASSUME NEW r \in Requests, Start(r) PROVE CatalogInv'
  <2>1. PICK op \in Op, p \in Params \cup {None}, v \in Values : Enter(r, op, p, v)
    BY <1>1 DEF Start, Op, Values
  <2>2. PICK e \in Job : Becomes(r, e) /\ e.pc = "calling" /\ e.seen = job[r].seen
    BY <2>1, DoesEnter
  <2> QED BY <2>1, <2>2, MoveKeepsCatalog DEF Enter, OnlyJob
<1>2. ASSUME NEW r \in Requests, Statement(r) PROVE CatalogInv'
  <2>1. CASE FetchRows(r) \/ Rejected(r)
    BY <2>1, EndKeepsCatalog DEF FetchRows, Rejected, OnlyJob, Ended
  <2> QED BY <1>2, <2>1, ExecuteKeepsCatalog, CompleteKeepsCatalog DEF Statement
<1>3. ASSUME NEW r \in Requests, Explore(r) PROVE CatalogInv'
  <2>1. CASE Hit(r)
    BY <2>1, EndKeepsCatalog DEF Hit, OnlyJob, Ended
  <2>2. CASE Miss(r)
    <3>1. PICK e \in Job : Becomes(r, e) /\ e.pc = "reading" /\ e.seen = job[r].seen
      BY <2>2, DoesMiss
    <3> QED BY <2>2, <3>1, MoveKeepsCatalog DEF Miss, OnlyJob
  <2>3. CASE Read(r)
    <3>1. PICK e \in Job : Becomes(r, e) /\ e.seen = db
      BY <2>3, DoesRead
    <3>2. e.seen <= db /\ FetchIsCurrent(e)
      BY <3>1 DEF FetchIsCurrent, CatalogInv, TypeInv, OthersTyped
    <3> QED BY <2>3, <3>1, <3>2, QuietKeepsCatalog DEF Read, OnlyJob
  <2> QED BY <1>3, <2>1, <2>2, <2>3, StoreKeepsCatalog DEF Explore
<1>4. ASSUME NEW r \in Requests, Load(r) PROVE CatalogInv'
  <2>1. CASE StartLoad(r) \/ FormatsApplied(r)
    <3>1. PICK pc \in PC : Goto(r, pc) /\ pc # "read"
      BY <2>1 DEF StartLoad, FormatsApplied, PC, Waiting
    <3>2. PICK e \in Job : Becomes(r, e) /\ e.pc = pc /\ e.seen = job[r].seen
      BY <3>1, DoesGoto
    <3> QED BY <2>1, <3>1, <3>2, MoveKeepsCatalog DEF StartLoad, FormatsApplied, OnlyJob
  <2>2. CASE SaveFormats(r)
    <3>1. PICK e \in Job : Becomes(r, e) /\ e.pc = "applying" /\ e.seen = job[r].seen
      BY <2>2, DoesSave
    <3> QED BY <2>2, <3>1, MoveKeepsCatalog DEF SaveFormats, OnlyJob
  <2>3. CASE ApplyFormat(r) \/ RestoreFormat(r)
    <3>1. PICK p, v : p \in Params /\ SetFormat(r, p, v)
      BY <2>3 DEF ApplyFormat, RestoreFormat
    <3>2. PICK e \in Job : Becomes(r, e) /\ e.pc = job[r].pc /\ e.seen = job[r].seen
      BY <3>1, DoesOne DEF SetFormat
    <3>3. job[r].pc # "read"
      BY <2>3 DEF ApplyFormat, RestoreFormat, At
    <3> QED BY <2>3, <3>2, <3>3, MoveKeepsCatalog DEF ApplyFormat, RestoreFormat
  <2>4. CASE ApplyFails(r) \/ Restored(r)
    BY <2>4, EndKeepsCatalog DEF ApplyFails, Restored, OnlyJob, Ended
  <2> QED BY <1>4, <2>1, <2>2, <2>3, <2>4, SendKeepsCatalog DEF Load
<1>5. ASSUME NEW r \in Requests, Reconnecting(r) PROVE CatalogInv'
  <2>1. ASSUME NEW pc \in PC \ {"read"}, Goto(r, pc), UNCHANGED <<conn, db, cache, acked>>
        PROVE  CatalogInv'
    <3>1. PICK e \in Job : Becomes(r, e) /\ e.pc = pc /\ e.seen = job[r].seen
      BY <2>1, DoesGoto
    <3> QED BY <2>1, <3>1, MoveKeepsCatalog
  <2>2. CASE Lost(r) \/ CloseOld(r)
    BY <2>1, <2>2, EndKeepsCatalog DEF Lost, CloseOld, OnlyJob, PC, Reconnect, Ended
  <2>3. CASE OpenFails(r) \/ ReplayFails(r)
    BY <2>3, EndKeepsCatalog DEF OpenFails, ReplayFails, OnlyJob, Ended
  <2>4. CASE Replay(r)
    <3>1. PICK p \in job[r].todo : job' = [job EXCEPT ![r].todo = @ \ {p}]
      BY <2>4 DEF Replay
    <3>2. p \in Params
      BY DEF TypeInv, JobsTyped, Job
    <3>3. PICK e \in Job : Becomes(r, e) /\ e.pc = job[r].pc /\ e.seen = job[r].seen
      BY <3>1, <3>2, DoesOne
    <3> QED BY <2>4, <3>3, MoveKeepsCatalog DEF Replay, At
  <2>5. CASE Retry(r)
    <3>1. PICK e \in Job : Becomes(r, e) /\ e.pc = "calling" /\ e.seen = job[r].seen
      BY <2>5, DoesRetry
    <3> QED BY <2>5, <3>1, MoveKeepsCatalog DEF Retry, OnlyJob
  <2> QED BY <1>5, <2>2, <2>3, <2>4, <2>5, OpenKeepsCatalog DEF Reconnecting
<1>6. ASSUME NEW r \in Requests, Cancel(r) PROVE CatalogInv'
  <2>1. PICK e \in Job : /\ Becomes(r, e)
                         /\ e = Restoring(r) \/ e = Over("cut") \/ e = Over("done")
    BY <1>6, DoesCancel
  <2>2. Becomes(r, e) /\ UNCHANGED <<conn, db, cache, acked>>
    BY <1>6, <2>1 DEF Cancel
  <2>3. e.pc # "read" /\ (e.seen = job[r].seen \/ e.seen = 0)
    <3>1. CASE e = Restoring(r)
      BY <3>1, RestoringJob
    <3>2. CASE e = Over("cut") \/ e = Over("done")
      BY <3>2, EndedJob DEF PC, Ended
    <3> QED BY <2>1, <3>1, <3>2
  <2>4. e.seen <= db /\ FetchIsCurrent(e)
    BY <2>3 DEF CatalogInv, FetchIsCurrent, TypeInv, OthersTyped
  <2> QED BY <2>2, <2>4, QuietKeepsCatalog
<1>7. CASE Drop \/ UNCHANGED vars
  BY <1>7 DEF Drop, vars, CatalogInv, CatalogIsCurrent, FetchIsCurrent
<1> QED BY <1>1, <1>2, <1>3, <1>4, <1>5, <1>6, <1>7 DEF Next

\* However statements, catalog queries, LOADs, cancellations and reconnects
\* interleave, the driver's session never holds a catalog older than a
\* statement that has returned: what a later catalog query is answered from
\* the cache shows every change that was made before it.
THEOREM CatalogFollows == Spec => []CatalogIsCurrent
<1>1. CatalogInv => CatalogIsCurrent
  BY DEF CatalogInv
<1> QED BY <1>1, InitType, TypeNext, CatalogInit, CatalogNext, PTL DEF Spec

-----------------------------------------------------------------------------
(* The session's settings.                                                 *)

Live  == sessions[conn].alive
Has(p) == sessions[conn].settings[p]
Clean == ~overlapped /\ \A r \in Requests : ~At(r, {"cut"})
Alone == ~Clash(job)

\* A reconnect, as long as nobody changes settings meanwhile: what it has not
\* yet replayed is all that the session it opened is without.
Replayed(j) ==
  /\ j.pc = "replaying" /\ j.opened = conn =>
       \A p \in DOMAIN remembered \ j.todo : Has(p) = remembered[p]
  /\ j.pc = "calling" /\ j.again /\ j.on = j.opened => Configured(j.on)

\* The setting p of the driver's session is still to be put right by j.
Pends(j, p) ==
  \/ j.pc = "replaying" /\ j.opened = conn /\ p \in j.todo
  \/ j.pc = "executed" /\ j.op = "set" /\ p = j.param
  \/ j.pc \in {"applying", "loading"} /\ j.on = conn
  \/ j.pc = "restoring" /\ j.on = conn /\ p \in j.todo
Settled == Live => \A p \in Params :
             Has(p) = Wanted[p] \/ \E r \in Requests : Pends(job[r], p)

\* A change of settings, which meets no other and no reconnect.
Owned(j) ==
  /\ j.pc \in {"calling", "executed"} /\ j.op = "set" => j.on = conn
  /\ j.pc = "executed" /\ j.op = "set" /\ Live => Has(j.param) = j.value
  /\ j.pc \in {"applying", "loading", "restoring"} /\ j.on = conn =>
       \A p \in Params : j.saved[p] = Wanted[p]

SettingsInv ==
  /\ ~overlapped => Alone /\ \A r \in Requests : Replayed(job[r])
  /\ Clean => Settled /\ \A r \in Requests : Owned(job[r])

LEMMA SettingsInit == Init => SettingsInv
<1> SUFFICES ASSUME Init PROVE SettingsInv
  OBVIOUS
<1>1. \A r \in Requests : /\ job[r].pc = "new"
                          /\ ~Changes(job[r]) /\ ~Reconnects(job[r])
  BY DEF Init, NewJob, Changes, Reconnects, Reconnect
<1>2. conn = 1 /\ sessions = <<NewSession>> /\ DOMAIN remembered = {}
  BY DEF Init
<1>3. \A p \in Params : Has(p) = Default
  BY <1>2 DEF Has, NewSession
<1>4. \A p \in Params : Wanted[p] = Default
  BY <1>2 DEF Wanted
<1>5. Settled /\ Alone
  BY <1>1, <1>3, <1>4 DEF Settled, Alone, Clash
<1>6. \A r \in Requests : Replayed(job[r]) /\ Owned(job[r])
  BY <1>1 DEF Replayed, Owned
<1> QED BY <1>5, <1>6 DEF SettingsInv

LEMMA WatchSees ==
  ASSUME TypeInv, Watch, ~overlapped'
  PROVE  ~overlapped /\ Alone'
BY DEF Watch, TypeInv, OthersTyped, Alone

\* Alone, a request that changes settings meets nobody who works on them.
LEMMA NobodyElse ==
  ASSUME Alone, NEW r \in Requests, NEW q \in Requests \ {r}
  PROVE  /\ Changes(job[r]) => ~Changes(job[q]) /\ ~Reconnects(job[q])
         /\ Reconnects(job[r]) => ~Changes(job[q])
BY DEF Alone, Clash

LEMMA AlikeWorks ==
  ASSUME NEW k, NEW j, Alike(k, j)
  PROVE  /\ Changes(k) <=> Changes(j)
         /\ Reconnects(k) <=> Reconnects(j)
         /\ Replayed(k)' <=> Replayed(j)'
         /\ Owned(k)' <=> Owned(j)'
         /\ \A p : Pends(k, p)' <=> Pends(j, p)'
BY DEF Alike, Changes, Reconnects, Replayed, Owned, Pends

\* Whoever is not at work on the settings has nothing to be right about.
LEMMA IdleHolds ==
  ASSUME NEW j
  PROVE  /\ ~Reconnects(j) => Replayed(j) /\ Replayed(j)'
         /\ ~Changes(j) => Owned(j) /\ Owned(j)'
         /\ ~Changes(j) /\ ~Reconnects(j) => \A p : ~Pends(j, p)
BY DEF Changes, Reconnects, Reconnect, Replayed, Owned, Pends

\* Where neither the sessions nor what is remembered change, no claim does.
LEMMA QuietHolds ==
  ASSUME UNCHANGED <<sessions, conn, remembered>>
  PROVE  /\ Live' <=> Live
         /\ \A p : Has(p)' = Has(p) /\ Wanted'[p] = Wanted[p]
         /\ \A j : /\ Replayed(j)' <=> Replayed(j)
                   /\ Owned(j)' <=> Owned(j)
                   /\ \A p : Pends(j, p)' <=> Pends(j, p)
BY DEF Live, Has, Wanted, Replayed, Owned, Pends, Configured

\* A request takes a step: what it leaves behind holds for itself, and for the
\* others if it touches what their claims are about.
LEMMA StepKeepsSettings ==
  ASSUME TypeInv, SettingsInv, Watch, NEW r \in Requests, job[r].pc # "cut",
         NEW e, Becomes(r, e),
         ~overlapped => Replayed(e)',
         Clean /\ e.pc # "cut" => Owned(e)',
         \/ UNCHANGED <<sessions, conn, remembered>>
         \/ Changes(job[r])
         \/ Reconnects(job[r]) /\ \A j \in Job : JobFits(j) /\ Replayed(j) => Replayed(j)',
         Clean /\ e.pc # "cut" /\ Live' =>
           \A p \in Params : \/ Has(p)' = Wanted'[p]
                             \/ Pends(e, p)'
                             \/ /\ conn' = conn /\ Live /\ ~Pends(job[r], p)
                                /\ Has(p)' = Has(p) /\ Wanted'[p] = Wanted[p]
  PROVE  SettingsInv'
<1>1. job'[r] = e /\ \A q \in Requests \ {r} : Alike(job'[q], job[q])
  BY DEF Becomes, Others
<1>2. ~overlapped' => ~overlapped /\ Alone'
  BY WatchSees
<1>3. Clean' => Clean /\ e.pc # "cut"
  BY <1>1, <1>2 DEF Clean, At, Alike
<1>4. ASSUME ~overlapped, NEW q \in Requests \ {r}
      PROVE  Replayed(job[q])'
  <2>1. PICK k : k = job'[q]
    OBVIOUS
  <2>2. PICK j \in Job : j = job[q] /\ JobFits(j) /\ Replayed(j) /\ Alike(k, j)
    BY <1>1, <1>4, <2>1 DEF TypeInv, JobsTyped, SettingsInv
  <2>3. Replayed(j)'
    <3>1. CASE Changes(job[r])
      BY <1>4, <2>2, <3>1, NobodyElse, IdleHolds DEF SettingsInv
    <3> QED BY <2>2, <3>1, QuietHolds
  <2>4. Replayed(k)'
    BY <2>2, <2>3, AlikeWorks
  <2> QED BY <2>1, <2>4 DEF Replayed
<1>5. ASSUME ~overlapped PROVE Replayed(job[r])'
  BY <1>1, <1>5 DEF Replayed
<1>6. ASSUME Clean, NEW q \in Requests \ {r}
      PROVE  Owned(job[q])'
  <2>1. PICK k : k = job'[q]
    OBVIOUS
  <2>2. PICK j : j = job[q] /\ Owned(j) /\ Alike(k, j)
    BY <1>1, <1>6, <2>1 DEF SettingsInv
  <2>3. Owned(j)'
    <3>1. CASE Changes(job[r]) \/ Reconnects(job[r])
      BY <1>6, <2>2, <3>1, NobodyElse, IdleHolds DEF SettingsInv, Clean
    <3> QED BY <2>2, <3>1, QuietHolds
  <2>4. Owned(k)'
    BY <2>2, <2>3, AlikeWorks
  <2> QED BY <2>1, <2>4 DEF Owned
<1>7. ASSUME Clean' PROVE Owned(job[r])'
  BY <1>1, <1>3, <1>7 DEF Owned
<1>8. ASSUME Clean', Live', NEW p \in Params
      PROVE  Has(p)' = Wanted'[p] \/ \E q \in Requests : Pends(job[q], p)'
  <2>1. CASE Has(p)' = Wanted'[p]
    BY <2>1
  <2>2. CASE Pends(e, p)'
    BY <1>1, <2>2 DEF Pends
  <2>3. CASE /\ conn' = conn /\ Live /\ ~Pends(job[r], p)
             /\ Has(p)' = Has(p) /\ Wanted'[p] = Wanted[p]
    <3>1. Has(p) = Wanted[p] \/ \E q \in Requests \ {r} : Pends(job[q], p)
      BY <1>3, <1>8, <2>3 DEF SettingsInv, Settled
    <3>2. ASSUME NEW q \in Requests \ {r}, Pends(job[q], p) PROVE Pends(job[q], p)'
      BY <1>1, <2>3, <3>2 DEF Pends, Alike
    <3> QED BY <2>3, <3>1, <3>2
  <2> QED BY <1>3, <1>8, <2>1, <2>2, <2>3
<1>9. Clean' => Settled'
  BY <1>8 DEF Settled
<1>10. ~overlapped' => Alone' /\ \A q \in Requests : Replayed(job[q])'
  BY <1>2, <1>4, <1>5
<1>11. Clean' => \A q \in Requests : Owned(job[q])'
  BY <1>3, <1>6, <1>7
<1> QED BY <1>9, <1>10, <1>11 DEF SettingsInv

\* A step that changes no session and nothing that is remembered.
LEMMA QuietKeepsSettings ==
  ASSUME TypeInv, SettingsInv, Watch, NEW r \in Requests, job[r].pc # "cut",
         NEW e, Becomes(r, e), UNCHANGED <<sessions, conn, remembered>>,
         ~overlapped => Replayed(e),
         Clean /\ e.pc # "cut" => Owned(e),
         Clean /\ e.pc # "cut" /\ Live =>
           \A p \in Params : Has(p) = Wanted[p] \/ Pends(e, p) \/ ~Pends(job[r], p)
  PROVE  SettingsInv'
<1>1. /\ Live' <=> Live
      /\ \A p : Has(p)' = Has(p) /\ Wanted'[p] = Wanted[p] /\ (Pends(e, p)' <=> Pends(e, p))
      /\ Replayed(e)' <=> Replayed(e)
      /\ Owned(e)' <=> Owned(e)
  BY QuietHolds
<1> QED BY <1>1, StepKeepsSettings

\* A request comes to its end, and leaves nothing to be put right.
LEMMA EndKeepsSettings ==
  ASSUME TypeInv, SettingsInv, Watch, NEW r \in Requests, job[r].pc # "cut",
         NEW pc \in Ended, End(r, pc), UNCHANGED <<sessions, conn, remembered>>,
         Clean /\ pc # "cut" /\ Live => \A p \in Params : ~Pends(job[r], p)
  PROVE  SettingsInv'
<1> DEFINE e == Over(pc)
<1>1. Becomes(r, e) /\ e.pc = pc /\ ~e.again /\ e.op = "write"
  BY DoesEnd, EndedJob DEF Ended, PC
<1> HIDE DEF e
<1>2. Replayed(e) /\ Owned(e)
  BY <1>1, IdleHolds DEF Changes, Reconnects, Reconnect, Ended
<1> QED BY <1>1, <1>2, QuietKeepsSettings

\* A request whose place is one where it has nothing to be right about.
Unclaimed == {"new", "fetching", "reading", "read", "saving", "lost", "opening"}

LEMMA MoveKeepsSettings ==
  ASSUME TypeInv, SettingsInv, Watch, NEW r \in Requests, job[r].pc # "cut",
         NEW e, Becomes(r, e), UNCHANGED <<sessions, conn, remembered>>,
         e.pc \in Unclaimed,
         Clean /\ Live => \A p \in Params : ~Pends(job[r], p)
  PROVE  SettingsInv'
BY QuietKeepsSettings DEF Unclaimed, Replayed, Owned

\* One setting of the session i changes.
LEMMA SetsHas ==
  ASSUME TypeInv, NEW i \in 1..conn, NEW p \in Params, NEW v \in Values,
         sessions' = [sessions EXCEPT ![i].settings[p] = v], UNCHANGED <<conn, remembered>>
  PROVE  /\ Live' <=> Live
         /\ \A q : Wanted'[q] = Wanted[q]
         /\ i = conn => Has(p)' = v
         /\ \A q \in Params : i # conn \/ q # p => Has(q)' = Has(q)
         /\ \A k \in 1..conn, q \in Params :
              k # i \/ q # p => sessions'[k].settings[q] = sessions[k].settings[q]
<1>1. /\ \A k \in 1..conn : sessions'[k].alive = sessions[k].alive
      /\ \A k \in 1..conn \ {i} : sessions'[k] = sessions[k]
      /\ \A q \in Params : sessions'[i].settings[q] =
                            IF q = p THEN v ELSE sessions[i].settings[q]
  BY SetsOne
<1>2. conn \in 1..conn /\ conn' = conn
  BY DEF TypeInv, SessionsTyped
<1>3. /\ sessions'[i].settings[p] = v
      /\ \A k \in 1..conn, q \in Params :
           k # i \/ q # p => sessions'[k].settings[q] = sessions[k].settings[q]
  BY <1>1
<1>4. Live' <=> Live
  BY <1>1, <1>2 DEF Live
<1>5. \A q : Wanted'[q] = Wanted[q]
  BY DEF Wanted
<1>6. /\ i = conn => Has(p)' = v
      /\ \A q \in Params : i # conn \/ q # p => Has(q)' = Has(q)
  BY <1>2, <1>3 DEF Has
<1> QED BY <1>3, <1>4, <1>5, <1>6

LEMMA SettingsStart ==
  ASSUME TypeInv, SettingsInv, NEW r \in Requests, Start(r)
  PROVE  SettingsInv'
<1>1. PICK op \in Op, p \in Params \cup {None}, v \in Values : Enter(r, op, p, v)
  BY DEF Start, Op, Values
<1>2. PICK e \in Job : Becomes(r, e) /\ e.pc = "calling" /\ e.on = conn /\ ~e.again
  BY <1>1, DoesEnter
<1>3. job[r].pc = "new" /\ Watch /\ UNCHANGED <<sessions, conn, remembered>>
  BY <1>1 DEF Enter, At, OnlyJob
<1>4. Replayed(e) /\ Owned(e) /\ \A q : ~Pends(job[r], q)
  BY <1>2, <1>3 DEF Replayed, Owned, Pends
<1> QED BY <1>2, <1>3, <1>4, QuietKeepsSettings

LEMMA SettingsExecute ==
  ASSUME TypeInv, SettingsInv, NEW r \in Requests, Execute(r)
  PROVE  SettingsInv'
<1>1. PICK e \in Job : /\ Becomes(r, e) /\ Same(r, e) /\ e.on = job[r].on
                       /\ e.pc = IF job[r].op = "query" THEN "fetching" ELSE "executed"
  BY DoesExecute
<1>2. /\ job[r].pc = "calling" /\ Watch /\ UNCHANGED <<conn, remembered>>
      /\ \/ /\ job[r].op = "set"
            /\ sessions' = [sessions EXCEPT ![job[r].on].settings[job[r].param] = job[r].value]
         \/ job[r].op # "set" /\ UNCHANGED sessions
  BY DEF Execute, At
<1>3. Replayed(e) /\ Replayed(e)' /\ \A q : ~Pends(job[r], q)
  BY <1>1, <1>2 DEF Replayed, Pends
<1>4. CASE job[r].op # "set" /\ UNCHANGED sessions
  <2>1. Owned(e)
    BY <1>1, <1>4 DEF Owned, Same
  <2> QED BY <1>1, <1>2, <1>3, <1>4, <2>1, QuietKeepsSettings
<1>5. CASE /\ job[r].op = "set"
           /\ sessions' = [sessions EXCEPT ![job[r].on].settings[job[r].param] = job[r].value]
  <2>1. Changes(job[r])
    BY <1>2, <1>5 DEF Changes
  <2>2. PICK i \in 1..conn, p \in Params, v \in Values :
          /\ i = job[r].on /\ p = job[r].param /\ v = job[r].value
          /\ i = e.on /\ p = e.param /\ v = e.value
    BY <1>1, <1>5 DEF TypeInv, JobsTyped, JobFits, Job, Same
  <2>3. /\ Live' <=> Live
        /\ \A q : Wanted'[q] = Wanted[q]
        /\ i = conn => Has(p)' = v
        /\ \A q \in Params : i # conn \/ q # p => Has(q)' = Has(q)
    <3>1. sessions' = [sessions EXCEPT ![i].settings[p] = v] /\ UNCHANGED <<conn, remembered>>
      BY <1>2, <1>5, <2>2
    <3> QED BY <3>1, SetsHas
  <2>4. Clean => i = conn
    BY <1>2, <1>5, <2>2 DEF SettingsInv, Owned
  <2>5. Clean => Owned(e)'
    BY <1>1, <1>2, <1>5, <2>2, <2>3, <2>4 DEF Owned, Same
  <2>6. \A q \in Params : Pends(e, q)' \/ Has(q)' = Has(q)
    BY <1>1, <1>5, <2>2, <2>3 DEF Pends, Same
  <2> QED BY <1>1, <1>2, <1>3, <2>1, <2>3, <2>5, <2>6, StepKeepsSettings
<1> QED BY <1>2, <1>4, <1>5

LEMMA SettingsComplete ==
  ASSUME TypeInv, SettingsInv, NEW r \in Requests, Complete(r)
  PROVE  SettingsInv'
<1> DEFINE e == Over("done")
<1>1. e \in Job /\ e.pc = "done"
  BY EndedJob DEF PC, Ended
<1>2. /\ job' = Detached([job EXCEPT ![r] = e]) /\ job[r].pc = "executed" /\ Watch
      /\ UNCHANGED <<sessions, conn>>
      /\ remembered' = IF IsSet(r) THEN Remember(r) ELSE remembered
  BY DEF Complete, Invalidate, At
<1> HIDE DEF e
<1>3. Becomes(r, e)
  BY <1>1, <1>2, DoesDetach
<1>4. Replayed(e) /\ Owned(e) /\ Replayed(e)' /\ Owned(e)'
  BY <1>1 DEF Replayed, Owned
<1>5. CASE ~IsSet(r)
  <2>1. \A p : ~Pends(job[r], p)
    BY <1>2, <1>5 DEF Pends, IsSet
  <2> QED BY <1>2, <1>3, <1>4, <1>5, <2>1, QuietKeepsSettings
<1>6. CASE IsSet(r)
  <2>1. Changes(job[r])
    BY <1>2, <1>6 DEF Changes, IsSet
  <2>2. Clean /\ Live => Has(job[r].param) = job[r].value
    BY <1>2, <1>6 DEF SettingsInv, Owned, IsSet
  <2>3. \A p \in Params : Wanted'[p] = IF p = job[r].param THEN job[r].value ELSE Wanted[p]
    BY <1>2, <1>6 DEF Wanted, Remember
  <2>4. (Live' <=> Live) /\ \A p \in Params : Has(p)' = Has(p)
    BY <1>2 DEF Live, Has
  <2>5. \A p : Pends(job[r], p) => p = job[r].param
    BY <1>2 DEF Pends
  <2> QED BY <1>2, <1>3, <1>4, <2>1, <2>2, <2>3, <2>4, <2>5, StepKeepsSettings
<1> QED BY <1>5, <1>6

LEMMA SettingsExplore ==
  ASSUME TypeInv, SettingsInv, NEW r \in Requests, Explore(r)
  PROVE  SettingsInv'
<1>1. /\ Watch /\ UNCHANGED <<sessions, conn, remembered>>
      /\ job[r].pc \in {"calling", "reading", "read"}
  BY DEF Explore, Hit, Miss, Read, Store, OnlyJob, At
<1>2. \A p : ~Pends(job[r], p)
  BY <1>1 DEF Pends
<1>3. CASE Hit(r) \/ Store(r)
  BY <1>1, <1>2, <1>3, EndKeepsSettings DEF Hit, Store, Ended
<1>4. CASE Miss(r) \/ Read(r)
  <2>1. PICK e \in Job : Becomes(r, e) /\ e.pc \in {"reading", "read"}
    BY <1>4, DoesMiss, DoesRead
  <2> QED BY <1>1, <1>2, <2>1, MoveKeepsSettings DEF Unclaimed
<1> QED BY <1>3, <1>4 DEF Explore

\* Before it changes a format a LOAD takes those the session has, to put them
\* back: nobody else is at work on them.
LEMMA SettingsBegin ==
  ASSUME TypeInv, SettingsInv, NEW r \in Requests, StartLoad(r) \/ SaveFormats(r)
  PROVE  SettingsInv'
<1>1. /\ Watch /\ UNCHANGED <<sessions, conn, remembered>>
      /\ job[r].pc \in {"calling", "saving"} /\ \A p : ~Pends(job[r], p)
  BY DEF StartLoad, SaveFormats, OnlyJob, At, Pends
<1>2. CASE StartLoad(r)
  <2>1. PICK e \in Job : Becomes(r, e) /\ e.pc = "saving"
    BY <1>2, DoesGoto DEF StartLoad, PC, Waiting
  <2> QED BY <1>1, <2>1, MoveKeepsSettings DEF Unclaimed
<1>3. CASE SaveFormats(r)
  <2>1. job[r].pc = "saving" /\ Alive(r) /\ Changes(job[r])
    BY <1>3 DEF SaveFormats, At, Changes
  <2>2. PICK e \in Job : /\ Becomes(r, e) /\ e.pc = "applying" /\ e.on = job[r].on
                         /\ e.saved = sessions[job[r].on].settings
    BY <1>3, DoesSave
  <2>3. ASSUME Clean, job[r].on = conn, NEW p \in Params PROVE Has(p) = Wanted[p]
    <3>1. \A q \in Requests : ~Pends(job[q], p)
      BY <1>1, <2>1, <2>3, NobodyElse, IdleHolds DEF SettingsInv, Clean
    <3> QED BY <2>1, <2>3, <3>1 DEF SettingsInv, Settled, Live, Alive
  <2>4. Replayed(e) /\ (Clean => Owned(e))
    BY <2>2, <2>3 DEF Replayed, Owned, Has
  <2> QED BY <1>1, <2>2, <2>4, QuietKeepsSettings
<1> QED BY <1>2, <1>3

LEMMA SettingsApply ==
  ASSUME TypeInv, SettingsInv, NEW r \in Requests,
         ApplyFormat(r) \/ ApplyFails(r) \/ FormatsApplied(r)
  PROVE  SettingsInv'
<1>1. /\ Watch /\ UNCHANGED <<conn, remembered>> /\ (~ApplyFormat(r) => UNCHANGED sessions)
      /\ job[r].pc \in {"saving", "applying"} /\ Changes(job[r])
  BY DEF ApplyFormat, ApplyFails, FormatsApplied, OnlyJob, At, Changes
<1>2. Clean => Owned(job[r])
  BY DEF SettingsInv
<1>3. CASE ApplyFormat(r)
  <2>1. PICK p \in Params : SetFormat(r, p, LoadFormat)
    BY <1>3 DEF ApplyFormat
  <2>2. job[r].pc = "applying" /\ job[r].on \in 1..conn /\ LoadFormat \in Values
    BY <1>3 DEF ApplyFormat, At, TypeInv, JobsTyped, JobFits, Values
  <2>3. PICK e \in Job : /\ Becomes(r, e) /\ e.pc = job[r].pc /\ e.on = job[r].on
                         /\ e.saved = job[r].saved
    BY <2>1, DoesOne DEF SetFormat
  <2>4. /\ Live' <=> Live
        /\ \A q : Wanted'[q] = Wanted[q]
        /\ job[r].on # conn => \A q \in Params : Has(q)' = Has(q)
    <3>1. sessions' = [sessions EXCEPT ![job[r].on].settings[p] = LoadFormat]
      BY <2>1 DEF SetFormat
    <3>2. UNCHANGED <<conn, remembered>> /\ p \in Params
      BY <1>1
    <3> QED BY <2>2, <3>1, <3>2, SetsHas
  <2>5. Replayed(e)' /\ (Clean => Owned(e)')
    BY <1>1, <1>2, <2>2, <2>3, <2>4 DEF Replayed, Owned
  <2>6. \A q : /\ job[r].on = conn => Pends(e, q)'
               /\ job[r].on # conn => ~Pends(job[r], q)
    BY <1>1, <2>2, <2>3 DEF Pends
  <2> QED BY <1>1, <2>3, <2>4, <2>5, <2>6, StepKeepsSettings
<1>4. CASE ApplyFails(r)
  BY <1>1, <1>4, EndKeepsSettings DEF ApplyFails, OnlyJob, Ended
<1>5. CASE FormatsApplied(r)
  <2>1. job[r].pc = "applying" /\ Goto(r, "loading") /\ UNCHANGED sessions
    BY <1>5 DEF FormatsApplied, At, OnlyJob
  <2>2. PICK e \in Job : /\ Becomes(r, e) /\ e.pc = "loading" /\ e.on = job[r].on
                         /\ e.saved = job[r].saved
    BY <2>1, DoesGoto DEF PC, Waiting
  <2>3. /\ Replayed(e) /\ (Clean => Owned(e))
        /\ \A q : Pends(job[r], q) => Pends(e, q)
    BY <1>2, <2>1, <2>2 DEF Replayed, Owned, Pends
  <2> QED BY <1>1, <2>1, <2>2, <2>3, QuietKeepsSettings
<1> QED BY <1>3, <1>4, <1>5

\* The rows are sent, or the request is cancelled meanwhile: all is to be restored.
LEMMA RestoringKeepsSettings ==
  ASSUME TypeInv, SettingsInv, Watch, NEW r \in Requests, At(r, {"loading"}),
         Becomes(r, Restoring(r)), UNCHANGED <<sessions, conn, remembered>>
  PROVE  SettingsInv'
<1>1. PICK e : e = Restoring(r)
  OBVIOUS
<1>2. /\ e.pc = "restoring" /\ e.on = job[r].on /\ e.todo = Params
      /\ e.saved = job[r].saved
  BY <1>1, RestoringJob
<1>3. job[r].pc = "loading" /\ (Clean => Owned(job[r]))
  BY DEF At, SettingsInv
<1>4. /\ Replayed(e) /\ (Clean => Owned(e))
      /\ \A p \in Params : Pends(job[r], p) => Pends(e, p)
  BY <1>2, <1>3 DEF Replayed, Owned, Pends
<1> QED BY <1>1, <1>3, <1>4, QuietKeepsSettings

LEMMA SettingsRestore ==
  ASSUME TypeInv, SettingsInv, NEW r \in Requests,
         SendRows(r) \/ RestoreFormat(r) \/ Restored(r)
  PROVE  SettingsInv'
<1>1. Watch /\ UNCHANGED <<conn, remembered>> /\ (Clean => Owned(job[r]))
  BY DEF SendRows, RestoreFormat, Restored, OnlyJob, SettingsInv
<1>2. CASE SendRows(r)
  BY <1>1, <1>2, DoesSend, RestoringKeepsSettings DEF SendRows
<1>3. CASE RestoreFormat(r)
  <2>1. PICK p \in Params : SetFormat(r, p, job[r].saved[p])
    BY <1>3 DEF RestoreFormat
  <2>2. PICK v : v = job[r].saved[p]
    OBVIOUS
  <2>3. job[r].pc = "restoring" /\ job[r].on \in 1..conn /\ v \in Values /\ Changes(job[r])
    BY <1>3, <2>2 DEF RestoreFormat, At, TypeInv, JobsTyped, JobFits, Job, Settings, Changes
  <2>4. PICK e \in Job : /\ Becomes(r, e) /\ e.pc = job[r].pc /\ e.on = job[r].on
                         /\ e.saved = job[r].saved /\ e.todo = job[r].todo \ {p}
    BY <2>1, DoesOne DEF SetFormat
  <2>5. /\ Live' <=> Live
        /\ \A q : Wanted'[q] = Wanted[q]
        /\ job[r].on = conn => Has(p)' = v
        /\ \A q \in Params : job[r].on # conn \/ q # p => Has(q)' = Has(q)
    <3>1. sessions' = [sessions EXCEPT ![job[r].on].settings[p] = v]
      BY <2>1, <2>2 DEF SetFormat
    <3>2. UNCHANGED <<conn, remembered>> /\ p \in Params
      BY <1>1
    <3> QED BY <2>3, <3>1, <3>2, SetsHas
  <2>6. Replayed(e)' /\ (Clean => Owned(e)')
    BY <1>1, <2>3, <2>4, <2>5 DEF Replayed, Owned
  <2>7. Clean /\ job[r].on = conn => v = Wanted[p]
    BY <1>1, <2>2, <2>3 DEF Owned
  <2>8. \A q : Pends(job[r], q) => job[r].on = conn /\ (q = p \/ Pends(e, q)')
    BY <1>1, <2>3, <2>4 DEF Pends
  <2> QED BY <1>1, <2>3, <2>4, <2>5, <2>6, <2>7, <2>8, StepKeepsSettings
<1>4. CASE Restored(r)
  <2>1. /\ job[r].pc = "restoring" /\ (job[r].todo = {} \/ ~Alive(r))
        /\ End(r, "done") /\ UNCHANGED sessions
    BY <1>4 DEF Restored, OnlyJob, At
  <2>2. Live => \A p \in Params : ~Pends(job[r], p)
    BY <1>4, <2>1 DEF Restored, At, Pends, Live, Alive
  <2>3. job[r].pc # "cut"
    BY <1>4 DEF Restored, At
  <2> QED BY <1>1, <2>1, <2>2, <2>3, EndKeepsSettings DEF Ended
<1> QED BY <1>2, <1>3, <1>4

LEMMA SettingsReconnect ==
  ASSUME TypeInv, SettingsInv, NEW r \in Requests,
         Lost(r) \/ CloseOld(r) \/ OpenNew(r) \/ OpenFails(r)
  PROVE  SettingsInv'
<1>1. Watch
  BY DEF Lost, CloseOld, OpenNew, OpenFails, OnlyJob
<1>2. CASE Lost(r)
  <2>1. /\ job[r].pc \in {"calling", "fetching", "reading", "loading"} /\ ~Alive(r)
        /\ UNCHANGED <<sessions, conn, remembered>>
        /\ End(r, "done") \/ Goto(r, "lost")
    BY <1>2 DEF Lost, At, OnlyJob
  <2>2. Live => \A p : ~Pends(job[r], p)
    BY <2>1 DEF Pends, Live, Alive
  <2>3. CASE End(r, "done")
    BY <1>1, <2>1, <2>2, <2>3, EndKeepsSettings DEF Ended
  <2>4. CASE Goto(r, "lost")
    <3>1. PICK e \in Job : Becomes(r, e) /\ e.pc = "lost"
      BY <2>4, DoesGoto DEF PC, Reconnect
    <3> QED BY <1>1, <2>1, <2>2, <3>1, MoveKeepsSettings DEF Unclaimed
  <2> QED BY <2>1, <2>3, <2>4
<1>3. CASE CloseOld(r)
  <2>1. /\ job[r].pc = "lost" /\ Goto(r, "opening") /\ UNCHANGED <<conn, remembered>>
        /\ sessions' = [sessions EXCEPT ![conn].alive = FALSE]
    BY <1>3 DEF CloseOld, At
  <2>2. PICK e \in Job : Becomes(r, e) /\ e.pc = "opening"
    BY <2>1, DoesGoto DEF PC, Reconnect
  <2>3. ~Live' /\ \A k \in 1..conn : sessions'[k].settings = sessions[k].settings
    BY <2>1, Closes DEF Live
  <2>4. Reconnects(job[r]) /\ Replayed(e)' /\ Owned(e)'
    BY <2>1, <2>2 DEF Reconnects, Reconnect, Replayed, Owned
  <2>5. ASSUME NEW j \in Job, JobFits(j), Replayed(j) PROVE Replayed(j)'
    BY <2>1, <2>3, <2>5 DEF Replayed, JobFits, Has, Configured, TypeInv, SessionsTyped
  <2> QED BY <1>1, <2>1, <2>2, <2>3, <2>4, <2>5, StepKeepsSettings
<1>4. CASE OpenNew(r)
  <2>1. /\ job[r].pc = "opening" /\ sessions' = Append(sessions, NewSession)
        /\ conn' = Len(sessions') /\ UNCHANGED remembered
    BY <1>4 DEF OpenNew, At
  <2>2. /\ conn' = conn + 1 /\ conn \in Nat \ {0}
        /\ \A k \in 1..conn : sessions'[k] = sessions[k]
        /\ \A p \in Params : Has(p)' = Default
    BY <2>1, Opens DEF Has, TypeInv, SessionsTyped
  <2>3. PICK e \in Job : /\ Becomes(r, e) /\ e.pc = "replaying"
                         /\ e.todo = DOMAIN remembered /\ e.opened = conn'
    BY <1>4, <2>2, DoesOpen
  <2>4. Reconnects(job[r]) /\ Replayed(e)' /\ Owned(e)'
    BY <2>1, <2>3 DEF Reconnects, Reconnect, Replayed, Owned
  <2>5. ASSUME NEW j \in Job, JobFits(j), Replayed(j) PROVE Replayed(j)'
    <3>1. j.opened # conn'
      BY <2>2, <2>5 DEF JobFits, Job
    <3>2. \A k \in 1..conn : Configured(k) => Configured(k)'
      BY <2>1, <2>2 DEF Configured
    <3>3. j.on \in 1..conn
      BY <2>5 DEF JobFits
    <3> QED BY <2>5, <3>1, <3>2, <3>3 DEF Replayed
  <2>6. \A p \in Params : Has(p)' = Wanted'[p] \/ Pends(e, p)'
    BY <2>1, <2>2, <2>3 DEF Wanted, Pends
  <2> QED BY <1>1, <2>1, <2>3, <2>4, <2>5, <2>6, StepKeepsSettings
<1>5. CASE OpenFails(r)
  <2>1. /\ job[r].pc = "opening" /\ End(r, "done")
        /\ UNCHANGED <<sessions, conn, remembered>>
    BY <1>5 DEF OpenFails, At, OnlyJob
  <2>2. \A p : ~Pends(job[r], p)
    BY <2>1 DEF Pends
  <2> QED BY <1>1, <2>1, <2>2, EndKeepsSettings DEF Ended
<1> QED BY <1>2, <1>3, <1>4, <1>5

\* A replay goes to the session the driver has by then, whoever has opened it,
\* and sets there what is remembered.
LEMMA SettingsReplay ==
  ASSUME TypeInv, SettingsInv, NEW r \in Requests, Replay(r) \/ ReplayFails(r) \/ Retry(r)
  PROVE  SettingsInv'
<1>1. /\ Watch /\ UNCHANGED <<conn, remembered>> /\ job[r].pc = "replaying"
      /\ (~overlapped => Replayed(job[r])) /\ Reconnects(job[r])
  BY DEF Replay, ReplayFails, Retry, OnlyJob, At, SettingsInv, Reconnects, Reconnect
<1>2. CASE Replay(r)
  <2>1. PICK p \in job[r].todo :
          /\ sessions' = [sessions EXCEPT ![conn].settings[p] = remembered[p]]
          /\ job' = [job EXCEPT ![r].todo = @ \ {p}]
    BY <1>2 DEF Replay
  <2>2. PICK v : v = remembered[p]
    OBVIOUS
  <2>3. /\ p \in Params /\ p \in DOMAIN remembered /\ v \in Values
        /\ v = Wanted[p] /\ conn \in 1..conn /\ DOMAIN remembered \subseteq Params
    BY <1>1, <2>2 DEF TypeInv, JobsTyped, JobFits, Job, OthersTyped, SessionsTyped, Wanted
  <2>4. PICK e \in Job : /\ Becomes(r, e) /\ Same(r, e) /\ e.pc = "replaying"
                         /\ e.todo = job[r].todo \ {p}
    <3>1. PICK e \in Job : /\ Becomes(r, e) /\ Same(r, e) /\ e.pc = job[r].pc
                           /\ e.todo = job[r].todo \ {p}
      BY <2>1, <2>3, DoesOne
    <3> QED BY <1>1, <3>1
  <2>5. /\ Live' <=> Live
        /\ \A q : Wanted'[q] = Wanted[q]
        /\ Has(p)' = v /\ \A q \in Params : q # p => Has(q)' = Has(q)
        /\ \A k \in 1..conn, q \in Params :
             k # conn \/ q # p => sessions'[k].settings[q] = sessions[k].settings[q]
    <3>1. sessions' = [sessions EXCEPT ![conn].settings[p] = v]
      BY <2>1, <2>2
    <3>2. UNCHANGED <<conn, remembered>>
      BY <1>1
    <3> QED BY <2>3, <3>1, <3>2, SetsHas
  <2>6. ASSUME NEW j \in Job, JobFits(j), Replayed(j) PROVE Replayed(j)'
    <3>1. \A k \in 1..conn : Configured(k) => Configured(k)'
      BY <1>1, <2>2, <2>3, <2>5 DEF Configured, Has
    <3>2. \A q \in DOMAIN remembered : Has(q) = remembered[q] => Has(q)' = remembered'[q]
      BY <1>1, <2>2, <2>3, <2>5
    <3>3. j.on \in 1..conn
      BY <2>6 DEF JobFits
    <3> QED BY <1>1, <2>6, <3>1, <3>2, <3>3 DEF Replayed
  <2>7. ~overlapped => Replayed(e)'
    BY <1>1, <2>2, <2>3, <2>4, <2>5 DEF Replayed, Same
  <2>8. Owned(e)'
    BY <2>4 DEF Owned
  <2>9. \A q \in Params : Pends(job[r], q) => q = p \/ Pends(e, q)'
    BY <1>1, <2>4 DEF Pends, Same
  <2> QED BY <1>1, <2>3, <2>4, <2>5, <2>6, <2>7, <2>8, <2>9, StepKeepsSettings
<1>3. CASE ReplayFails(r)
  BY <1>1, <1>3, EndKeepsSettings DEF ReplayFails, OnlyJob, Ended
<1>4. CASE Retry(r)
  <2>1. job[r].todo = {} /\ UNCHANGED sessions
    BY <1>4 DEF Retry, OnlyJob
  <2>2. PICK e \in Job : /\ Becomes(r, e) /\ e.pc = "calling" /\ e.on = conn /\ e.again
                         /\ e.opened = job[r].opened
    BY <1>4, DoesRetry
  <2>3. ~overlapped => Replayed(e)
    BY <1>1, <2>1, <2>2 DEF Replayed, Has, Configured
  <2>4. Owned(e) /\ \A p : ~Pends(job[r], p)
    BY <1>1, <2>1, <2>2 DEF Owned, Pends
  <2> QED BY <1>1, <2>1, <2>2, <2>3, <2>4, QuietKeepsSettings
<1> QED BY <1>2, <1>3, <1>4

LEMMA SettingsCancel ==
  ASSUME TypeInv, SettingsInv, NEW r \in Requests, Cancel(r)
  PROVE  SettingsInv'
<1>1. /\ Watch /\ UNCHANGED <<sessions, conn, remembered>> /\ job[r].pc # "cut"
  BY DEF Cancel, Active, At, Ended
<1>2. PICK e \in Job :
        /\ Becomes(r, e)
        /\ \/ At(r, {"loading"}) /\ e = Restoring(r)
           \/ e = Over("cut")
           \/ ~At(r, {"loading", "replaying"}) /\ ~Changes(job[r]) /\ e = Over("done")
  BY DoesCancel
<1>3. CASE At(r, {"loading"}) /\ e = Restoring(r)
  BY <1>1, <1>2, <1>3, RestoringKeepsSettings
<1>4. CASE e = Over("cut")
  <2>1. e.pc = "cut" /\ Replayed(e)
    BY <1>4, EndedJob DEF PC, Ended, Replayed
  <2> QED BY <1>1, <1>2, <2>1, QuietKeepsSettings
<1>5. CASE ~At(r, {"loading", "replaying"}) /\ ~Changes(job[r]) /\ e = Over("done")
  <2>1. e.pc = "done" /\ Replayed(e) /\ Owned(e)
    BY <1>5, EndedJob DEF PC, Ended, Replayed, Owned
  <2>2. \A p : ~Pends(job[r], p)
    BY <1>5 DEF At, Changes, Pends
  <2> QED BY <1>1, <1>2, <2>1, <2>2, QuietKeepsSettings
<1> QED BY <1>2, <1>3, <1>4, <1>5

\* The backend drops the session: there is nothing to be right about any more.
LEMMA SettingsDrop ==
  ASSUME TypeInv, SettingsInv, Drop
  PROVE  SettingsInv'
<1>1. /\ UNCHANGED <<conn, remembered, job>> /\ Watch
      /\ sessions' = [sessions EXCEPT ![conn].alive = FALSE]
  BY DEF Drop
<1>2. ~Live' /\ \A k \in 1..conn : sessions'[k].settings = sessions[k].settings
  BY <1>1, Closes DEF Live
<1>3. ~overlapped' => ~overlapped /\ Alone'
  BY <1>1, WatchSees
<1>4. Clean' => Clean
  BY <1>1, <1>3 DEF Clean, At
<1>5. \A r \in Requests : /\ Replayed(job[r]) => Replayed(job[r])'
                          /\ Owned(job[r]) => Owned(job[r])'
  BY <1>1, <1>2 DEF Replayed, Owned, Wanted, Has, Configured, TypeInv, SessionsTyped,
                    JobsTyped, JobFits
<1> QED BY <1>2, <1>3, <1>4, <1>5 DEF SettingsInv, Settled

LEMMA SettingsNext == TypeInv /\ SettingsInv /\ [Next]_vars => SettingsInv'
<1> SUFFICES ASSUME TypeInv, SettingsInv, [Next]_vars PROVE SettingsInv'
  OBVIOUS
<1>1. ASSUME NEW r \in Requests, Statement(r) PROVE SettingsInv'
  <2>1. CASE FetchRows(r) \/ Rejected(r)
    <3>1. /\ job[r].pc \in {"calling", "fetching"} /\ End(r, "done") /\ Watch
          /\ UNCHANGED <<sessions, conn, remembered>>
      BY <2>1 DEF FetchRows, Rejected, At, OnlyJob
    <3>2. \A p : ~Pends(job[r], p)
      BY <3>1 DEF Pends
    <3> QED BY <3>1, <3>2, EndKeepsSettings DEF Ended
  <2> QED BY <1>1, <2>1, SettingsExecute, SettingsComplete DEF Statement
<1>2. ASSUME NEW r \in Requests, Load(r) PROVE SettingsInv'
  BY <1>2, SettingsBegin, SettingsApply, SettingsRestore DEF Load
<1>3. ASSUME NEW r \in Requests, Reconnecting(r) PROVE SettingsInv'
  BY <1>3, SettingsReconnect, SettingsReplay DEF Reconnecting
<1>4. CASE UNCHANGED vars
  <2>1. UNCHANGED <<sessions, conn, remembered, job, overlapped>>
    BY <1>4 DEF vars
  <2> QED BY <2>1 DEF SettingsInv, Alone, Clash, Clean, Settled, Live, Has, Wanted, Replayed,
                      Owned, Pends, Configured, At
<1> QED BY <1>1, <1>2, <1>3, <1>4, SettingsStart, SettingsExplore, SettingsCancel, SettingsDrop
        DEF Next

LEMMA SettingsHold == Spec => [](TypeInv /\ SettingsInv)
BY InitType, TypeNext, SettingsInit, SettingsNext, PTL DEF Spec

\* However many requests find their session lost and reconnect, one across the
\* other, an idle connection's session has what the user last set, and nothing
\* else, whatever was loaded, lost and opened again in between: as long as none
\* was cut short in changing settings, and none changed them while another one
\* did, or reconnected.
THEOREM SettingsAreFollowed == Spec => []SettingsFollow
<1>1. TypeInv /\ SettingsInv => SettingsFollow
  <2> SUFFICES ASSUME TypeInv, SettingsInv, Clean, Active = {}, Live
               PROVE  sessions[conn].settings = Wanted
    BY DEF SettingsFollow, SettingsKept, Clean, Live
  <2>1. \A r \in Requests : \A p : ~Pends(job[r], p)
    BY DEF Active, Pends, At, Ended
  <2>2. \A p \in Params : sessions[conn].settings[p] = Wanted[p]
    BY <2>1 DEF SettingsInv, Settled, Has
  <2>3. conn \in 1..Len(sessions) /\ sessions \in Seq(Session)
    BY DEF TypeInv, SessionsTyped
  <2>4. sessions[conn] \in Session
    BY <2>3
  <2>5. sessions[conn].settings \in [Params -> Values]
    BY <2>4 DEF Session, Settings
  <2>6. Wanted = [p \in Params |-> Wanted[p]]
    BY DEF Wanted
  <2> QED BY <2>2, <2>5, <2>6
<1> QED BY <1>1, SettingsHold, PTL

\* A statement that a reconnect runs again on the session it has opened runs
\* under every setting that is remembered, however many other reconnects run
\* across it, as long as no request has changed settings while another one did,
\* or reconnected.
THEOREM RetryRunsConfigured == Spec => RetryIsConfigured
<1> DEFINE Safe == \A r \in Requests :
                     RunsAgain(r) /\ ~overlapped /\ job[r].on = job[r].opened
                     => Configured(job[r].on)
<1>1. TypeInv /\ SettingsInv => Safe
  BY DEF SettingsInv, Replayed, RunsAgain, At
<1> QED BY <1>1, SettingsHold, PTL DEF RetryIsConfigured

=============================================================================
