----------------------------- MODULE SqlSession -----------------------------
(***************************************************************************)
(* A driver over one database session, drivers/oracle/driver.py, and the   *)
(* same in drivers/postgres/driver.py except for LOAD: the session's       *)
(* settings, which a reconnect replays and a LOAD borrows, and the catalog *)
(* cache that statements invalidate (queries.py).                          *)
(*                                                                         *)
(* Requests run as the dispatcher runs them: up to MaxConcurrency at once, *)
(* once more after a reconnect when the session was lost.  A round trip to *)
(* the database is one step, what the driver does with its answer another. *)
(***************************************************************************)
EXTENDS Naturals, Sequences, FiniteSets

CONSTANTS Requests,        \* the requests made on the connection
          MaxConcurrency,  \* requests it runs at once
          Params,          \* session parameters, all of which a LOAD changes
          UserValues,      \* what the user sets them to
          Default,         \* what a new session has
          LoadFormat,      \* what a LOAD sets
          None,            \* nothing cached, no parameter
          Rejects,         \* may the database reject a statement?
          MaxCancels,      \* bound on the requests the client cancels
          MaxSessions,     \* bound on the sessions opened
          MaxVersion       \* bound on the changes made to the catalog

ASSUME SessionAssumption ==
  /\ IsFiniteSet(Requests)
  /\ {MaxConcurrency, MaxSessions} \subseteq Nat \ {0}
  /\ {MaxCancels, MaxVersion} \subseteq Nat
  /\ Rejects \in BOOLEAN
  /\ None \notin Nat

VARIABLES sessions,    \* the backend sessions opened: alive, their settings
          conn,        \* self._conn: which of them is the driver's
          remembered,  \* self._session_statements: parameter -> value
          db,          \* the catalog's version in the database
          cache,       \* the catalog cache of each session's connection object
          acked,       \* the version the last statement that returned had made
          job,         \* the requests
          cancels,     \* how many were cancelled
          overlapped   \* history: did a request change settings while another
                       \* one changed them too, or reconnected?

vars == <<sessions, conn, remembered, db, cache, acked, job, cancels, overlapped>>

Op == {"set", "write", "query", "explore", "load"}
Waiting  == {"calling", "fetching", "reading", "saving", "applying", "loading",
             "restoring"}
Answered == {"executed", "read"}
Reconnect == {"lost", "opening", "replaying"}
Ended    == {"done", "cut"}

\* on: the session it uses; again: is this the retry?; attached: is the cache
\* it will store in still the connection's?; todo: parameters still to be set;
\* saved: the settings a LOAD will put back; known: what a replay started with;
\* opened: the session its reconnect opened, 0 for none.
NewJob == [pc |-> "new", op |-> "write", param |-> None, value |-> Default,
           on |-> 1, again |-> FALSE, seen |-> 0, attached |-> TRUE, todo |-> {},
           saved |-> [p \in Params |-> Default], known |-> {}, opened |-> 0]

NewSession == [alive |-> TRUE, settings |-> [p \in Params |-> Default]]

Init == /\ sessions = <<NewSession>>
        /\ conn = 1
        /\ remembered = [p \in {} |-> Default]
        /\ db = 0 /\ acked = 0
        /\ cache = <<None>>
        /\ job = [r \in Requests |-> NewJob]
        /\ cancels = 0
        /\ overlapped = FALSE

At(r, pcs)  == job[r].pc \in pcs
Active      == {r \in Requests : ~At(r, {"new"} \cup Ended)}
Alive(r)    == sessions[job[r].on].alive
Goto(r, pc) == job' = [job EXCEPT ![r].pc = pc]
Over(pc)    == [NewJob EXCEPT !.pc = pc]
End(r, pc)  == job' = [job EXCEPT ![r] = Over(pc)]

\* From its first to its last change of a setting a request changes settings; a
\* reconnect replays them, and the request it is for runs under what it replayed.
Changes(j)    == \/ j.pc \in {"saving", "applying", "loading", "restoring"}
                 \/ j.op = "set" /\ j.pc \in {"calling", "executed"}
Reconnects(j) == j.pc \in Reconnect \/ (j.again /\ j.pc = "calling")
Clash(js) == \E r \in Requests : \E q \in Requests \ {r} :
               Changes(js[r]) /\ (Changes(js[q]) \/ Reconnects(js[q]))
Watch     == overlapped' = (overlapped \/ Clash(job'))
OnlyJob == UNCHANGED <<sessions, conn, remembered, db, cache, acked, cancels>> /\ Watch

-----------------------------------------------------------------------------
(* A request starts, on the session the driver has at that moment.         *)

Enter(r, op, p, v) ==
  /\ At(r, {"new"}) /\ Cardinality(Active) < MaxConcurrency
  /\ op = "write" => db < MaxVersion
  /\ job' = [job EXCEPT ![r] = [@ EXCEPT !.op = op, !.param = p, !.value = v,
                                         !.on = conn, !.pc = "calling"]]
  /\ OnlyJob

-----------------------------------------------------------------------------
(* execute: a setting, a statement that returns no rows, or one that does,  *)
(* which may change the catalog as well (INSERT ... RETURNING, a function).  *)

Altered == db < MaxVersion /\ db' = db + 1
Execute(r) ==
  /\ At(r, {"calling"}) /\ Alive(r)
  /\ \/ /\ job[r].op = "set"
        /\ sessions' = [sessions EXCEPT
             ![job[r].on].settings[job[r].param] = job[r].value]
        /\ UNCHANGED db
     \/ job[r].op = "write" /\ Altered /\ UNCHANGED sessions
     \/ job[r].op = "query" /\ (Altered \/ UNCHANGED db) /\ UNCHANGED sessions
  /\ job' = [job EXCEPT ![r].pc = IF job[r].op = "query" THEN "fetching" ELSE "executed",
                        ![r].seen = db']
  /\ UNCHANGED <<conn, remembered, cache, acked, cancels>> /\ Watch

\* The rows are read, or reading them fails; nothing is invalidated either way.
FetchRows(r) == /\ At(r, {"fetching"})
                /\ End(r, "done")
                /\ OnlyJob

Rejected(r) == /\ Rejects
               /\ At(r, {"calling"}) /\ job[r].op \in {"set", "write", "query"} /\ Alive(r)
               /\ End(r, "done")
               /\ OnlyJob

\* invalidate_cache(self._conn): the dict is dropped, so a fetch that has taken
\* hold of it stores where nobody will look.
StoredAnyway(js) == js                         \* faulty variant: looked up again
Detached(js) == [r \in Requests |->
                   IF js[r].pc \in {"reading", "read"} /\ js[r].on = conn
                   THEN [js[r] EXCEPT !.attached = FALSE] ELSE js[r]]
Invalidate(js) == /\ cache' = [cache EXCEPT ![conn] = None]
                  /\ job' = Detached(js)

IsSet(r) == job[r].op = "set"
Remember(r) == [p \in DOMAIN remembered \cup {job[r].param} |->
                  IF p = job[r].param THEN job[r].value ELSE remembered[p]]
Complete(r) ==
  /\ At(r, {"executed"})
  /\ remembered' = IF IsSet(r) THEN Remember(r) ELSE remembered
  /\ acked' = IF job[r].seen > acked THEN job[r].seen ELSE acked
  /\ Invalidate([job EXCEPT ![r] = Over("done")])
  /\ UNCHANGED <<sessions, conn, db, cancels>> /\ Watch

-----------------------------------------------------------------------------
(* A catalog query, through _conn_cache.                                   *)

Hit(r) == /\ At(r, {"calling"}) /\ job[r].op = "explore"
          /\ cache[job[r].on] # None
          /\ End(r, "done")
          /\ OnlyJob

Miss(r) == /\ At(r, {"calling"}) /\ job[r].op = "explore"
           /\ cache[job[r].on] = None
           /\ job' = [job EXCEPT ![r].pc = "reading", ![r].attached = TRUE]
           /\ OnlyJob

Read(r) == /\ At(r, {"reading"}) /\ Alive(r)
           /\ job' = [job EXCEPT ![r].pc = "read", ![r].seen = db]
           /\ OnlyJob

Store(r) == /\ At(r, {"read"})
            /\ cache' = IF job[r].attached
                        THEN [cache EXCEPT ![job[r].on] = job[r].seen] ELSE cache
            /\ End(r, "done")
            /\ UNCHANGED <<sessions, conn, remembered, db, acked, cancels>> /\ Watch

-----------------------------------------------------------------------------
(* LOAD: save the formats, apply the load's, send the rows, restore.  Which *)
(* of the parameters goes first is left open.                              *)

StartLoad(r) == /\ At(r, {"calling"}) /\ job[r].op = "load"
                /\ Goto(r, "saving")
                /\ OnlyJob

SaveFormats(r) == /\ At(r, {"saving"}) /\ Alive(r)
                  /\ job' = [job EXCEPT ![r].pc = "applying", ![r].todo = Params,
                                        ![r].saved = sessions[job[r].on].settings]
                  /\ OnlyJob

SetFormat(r, p, v) == /\ p \in job[r].todo
                      /\ sessions' = [sessions EXCEPT ![job[r].on].settings[p] = v]
                      /\ job' = [job EXCEPT ![r].todo = @ \ {p}]

ApplyFormat(r) == /\ At(r, {"applying"}) /\ Alive(r)
                  /\ \E p \in Params : SetFormat(r, p, LoadFormat)
                  /\ UNCHANGED <<conn, remembered, db, cache, acked, cancels>> /\ Watch

\* _apply_load_formats raises before anything is there to restore, and outside
\* what turns a lost session into a retry.
ApplyFails(r) == /\ At(r, {"saving", "applying"})
                 /\ ~Alive(r) \/ (Rejects /\ At(r, {"applying"}) /\ job[r].todo # {})
                 /\ End(r, "cut")
                 /\ OnlyJob

FormatsApplied(r) == /\ At(r, {"applying"}) /\ job[r].todo = {}
                     /\ Goto(r, "loading")
                     /\ OnlyJob

\* The rows are sent, or one is rejected, or the file ends in an error: the
\* finally clause is reached either way, only a full load invalidates.
RestoreNothing == {}               \* faulty variant: no finally clause
ToRestore == Params
SendRows(r) == /\ At(r, {"loading"}) /\ Alive(r)
               /\ LET js == [job EXCEPT ![r].pc = "restoring", ![r].todo = ToRestore] IN
                    Invalidate(js) \/ (job' = js /\ UNCHANGED cache)
               /\ UNCHANGED <<sessions, conn, remembered, db, acked, cancels>> /\ Watch

RestoreFormat(r) == /\ At(r, {"restoring"}) /\ Alive(r)
                    /\ \E p \in Params : SetFormat(r, p, job[r].saved[p])
                    /\ UNCHANGED <<conn, remembered, db, cache, acked, cancels>> /\ Watch

\* _restore_load_formats never raises: on a dead session it does nothing.
Restored(r) == /\ At(r, {"restoring"}) /\ (job[r].todo = {} \/ ~Alive(r))
               /\ End(r, "done")
               /\ OnlyJob

-----------------------------------------------------------------------------
(* _reconnect_and_retry and reconnect.                                     *)

Lost(r) == /\ At(r, {"calling", "fetching", "reading", "loading"}) /\ ~Alive(r)
           /\ (At(r, {"calling"}) => job[r].op \in {"set", "write", "query"})
           /\ IF job[r].again THEN End(r, "done") ELSE Goto(r, "lost")
           /\ OnlyJob

\* Whatever session the driver has by now is closed.
CloseOld(r) == /\ At(r, {"lost"})
               /\ sessions' = [sessions EXCEPT ![conn].alive = FALSE]
               /\ Goto(r, "opening")
               /\ UNCHANGED <<conn, remembered, db, cache, acked, cancels>> /\ Watch

ReplayFew == {p \in DOMAIN remembered : remembered[p] = Default} \* faulty variant
ToReplay == DOMAIN remembered
OpenNew(r) == /\ At(r, {"opening"}) /\ Len(sessions) < MaxSessions
              /\ sessions' = Append(sessions, NewSession)
              /\ cache' = Append(cache, None)
              /\ conn' = Len(sessions')
              /\ job' = [job EXCEPT ![r].pc = "replaying", ![r].todo = ToReplay,
                                    ![r].known = DOMAIN remembered,
                                    ![r].opened = conn']
              /\ UNCHANGED <<remembered, db, acked, cancels>> /\ Watch

OpenFails(r) == /\ At(r, {"opening"})
                /\ End(r, "done")
                /\ OnlyJob

Grown(r) == job[r].known # {} /\ job[r].known # DOMAIN remembered

\* Each statement goes to the session the driver has at that moment.
Replay(r) == /\ At(r, {"replaying"}) /\ ~Grown(r) /\ sessions[conn].alive
             /\ \E p \in job[r].todo :
                  /\ sessions' = [sessions EXCEPT ![conn].settings[p] = remembered[p]]
                  /\ job' = [job EXCEPT ![r].todo = @ \ {p}]
             /\ UNCHANGED <<conn, remembered, db, cache, acked, cancels>> /\ Watch

\* Rejected, lost again, or the dict has grown under its iterator.
ReplayFails(r) ==
  /\ At(r, {"replaying"})
  /\ Grown(r) \/ (job[r].todo # {} /\ (Rejects \/ ~sessions[conn].alive))
  /\ End(r, "cut")
  /\ OnlyJob

Retry(r) == /\ At(r, {"replaying"}) /\ ~Grown(r) /\ job[r].todo = {}
            /\ job' = [job EXCEPT ![r].pc = "calling", ![r].on = conn,
                                  ![r].again = TRUE]
            /\ OnlyJob

-----------------------------------------------------------------------------
(* The client cancels; the backend drops the session.                      *)

\* A LOAD that is sending rows still runs its finally clause.
AfterCancel(r) ==
  CASE At(r, {"loading"}) -> [job[r] EXCEPT !.pc = "restoring", !.todo = ToRestore]
    [] ~At(r, {"loading"}) /\ (Changes(job[r]) \/ At(r, {"replaying"})) -> Over("cut")
    [] OTHER -> Over("done")
Cancel(r) == /\ r \in Active /\ cancels < MaxCancels
             /\ cancels' = cancels + 1
             /\ job' = [job EXCEPT ![r] = AfterCancel(r)]
             /\ UNCHANGED <<sessions, conn, remembered, db, cache, acked>> /\ Watch

Drop == /\ sessions[conn].alive /\ Len(sessions) < MaxSessions
        /\ sessions' = [sessions EXCEPT ![conn].alive = FALSE]
        /\ UNCHANGED <<conn, remembered, db, cache, acked, job, cancels>> /\ Watch

-----------------------------------------------------------------------------
Statement(r) == Execute(r) \/ FetchRows(r) \/ Rejected(r) \/ Complete(r)
Explore(r)   == Hit(r) \/ Miss(r) \/ Read(r) \/ Store(r)
Load(r)      == \/ StartLoad(r) \/ SaveFormats(r) \/ ApplyFormat(r) \/ ApplyFails(r)
                \/ FormatsApplied(r) \/ SendRows(r) \/ RestoreFormat(r) \/ Restored(r)
Reconnecting(r) == \/ Lost(r) \/ CloseOld(r) \/ OpenNew(r) \/ OpenFails(r)
                   \/ Replay(r) \/ ReplayFails(r) \/ Retry(r)

Start(r) == \/ \E p \in Params, v \in UserValues : Enter(r, "set", p, v)
            \/ \E op \in Op \ {"set"} : Enter(r, op, None, Default)

Next == \/ \E r \in Requests : \/ Start(r) \/ Statement(r) \/ Explore(r)
                               \/ Load(r) \/ Reconnecting(r) \/ Cancel(r)
        \/ Drop

Spec == Init /\ [][Next]_vars

-----------------------------------------------------------------------------
Wanted == [p \in Params |-> IF p \in DOMAIN remembered THEN remembered[p] ELSE Default]
SettingsKept == Active = {} /\ sessions[conn].alive
                  => sessions[conn].settings = Wanted

\* A setting is "remembered per-connection and automatically re-applied if the
\* connection is silently reconnected", and a LOAD "sets them for the load and
\* puts the session's back afterwards" (HELP, oracle/driver.py 205-206, 167-170):
\* when nothing is running, the session has what the user last set, however
\* many requests found it lost and reconnected, one across the other.  This is
\* so as long as none was cut short in changing settings (a SET, a LOAD, a
\* replay), and none changed them while another one did, or reconnected.
SettingsFollow == ~overlapped /\ (\A r \in Requests : ~At(r, {"cut"})) => SettingsKept

\* "Call after any DDL or DML so subsequent metadata queries re-hit the
\* database" (queries.py, invalidate_cache): nothing older than a statement
\* without rows that has returned is cached, whatever catalog query was under
\* way then.
CatalogIsCurrent == cache[conn] # None => cache[conn] >= acked

\* Request r is run again, under all the settings that are remembered.
RunsAgain(r)  == /\ job[r].again /\ At(r, {"calling"})
                 /\ job'[r].pc \in {"executed", "fetching"}
Configured(i) == \A p \in DOMAIN remembered : sessions[i].settings[p] = remembered[p]

\* A statement that is run again on the session its own reconnect opened runs
\* under the settings of its connection, all of them, whoever else is
\* reconnecting at the same time: the session may have been closed or replaced
\* and the replays of others have gone to it.  The conditions: that no request
\* has changed settings while another one did, or reconnected, and that the
\* session is its own.  Without the last the code breaks it: a second reconnect
\* publishes its session before it replays (oracle/driver.py 288), and the first
\* request runs again on that one.
RetryIsConfigured ==
  [][\A r \in Requests : RunsAgain(r) /\ ~overlapped /\ job[r].on = job[r].opened
                         => Configured(job[r].on)]_vars
=============================================================================
