------------------------- MODULE ConnectionLifecycle -------------------------
(***************************************************************************)
(* One open connection, dispatcher.py: the semaphore that bounds the       *)
(* requests running on it, the idle watchdog, the retry after a lost       *)
(* backend connection, and disconnect.                                     *)
(*                                                                         *)
(* Every action is what the code does between two awaits.  The requests    *)
(* are those that name this connection; a request that waits for its slot  *)
(* or for the database is suspended, and any of them may go next.          *)
(* asyncio.Semaphore is modelled from how it is used: a FIFO of waiters, a *)
(* freed slot is handed to the first waiter that is still waiting, and     *)
(* nobody overtakes a waiter.                                              *)
(* A request makes one call of the driver; the several describe calls of   *)
(* an explore.diagram, all made under its one slot, are taken as one.      *)
(***************************************************************************)
EXTENDS Naturals, FiniteSets, SequencesExt

CONSTANTS Requests,        \* the requests made on the connection
          MaxConcurrency,  \* --max-concurrency
          IdleTimeout,     \* is an idle timeout set (idle_timeout > 0)?
          MaxCancels       \* bound on the cancellations the client asks for

ASSUME LifecycleAssumption == /\ IsFiniteSet(Requests)
                              /\ MaxConcurrency \in Nat \ {0}
                              /\ IdleTimeout \in BOOLEAN
                              /\ MaxCancels \in Nat

VARIABLES pc,          \* how far each request is
          cancelled,   \* the requests the client has cancelled
          value,       \* the semaphore's counter
          waiters,     \* the semaphore's FIFO of waiting requests
          timer,       \* the idle watchdog's task
          registered,  \* is the connection in the store?
          session,     \* is the driver's backend session up or down?
          closing      \* how far the client's disconnect is

vars == <<pc, cancelled, value, waiters, timer, registered, session, closing>>

PC == {"new", "waiting", "granted", "executing", "reconnecting", "retrying",
       "finished", "rejected"}
Calling  == {"executing", "reconnecting", "retrying"}
Holding  == {"granted"} \cup Calling
InFlight == {"waiting"} \cup Holding

At(S)   == {r \in Requests : pc[r] \in S}
Holders == At(Holding)
Busy    == At(InFlight)

Init == /\ pc = [r \in Requests |-> "new"]
        /\ cancelled = {}
        /\ value = MaxConcurrency
        /\ waiters = <<>>
        /\ timer = IF IdleTimeout THEN "armed" ELSE "off"
        /\ registered = TRUE
        /\ session = "up"
        /\ closing = "no"

-----------------------------------------------------------------------------
(* asyncio.Semaphore.                                                      *)

Position(r) == CHOOSE i \in DOMAIN waiters : waiters[i] = r
InQueue(r)  == \E i \in DOMAIN waiters : waiters[i] = r
KeptInQueue(r) == waiters        \* faulty variant: a leaver stays queued
Without(r)  == RemoveAt(waiters, Position(r))

\* A waiter whose future the cancellation has already cancelled is passed over.
Pending == {r \in Requests : InQueue(r) /\ pc[r] = "waiting" /\ r \notin cancelled}
Locked  == value = 0 \/ \E i \in DOMAIN waiters :
                           pc[waiters[i]] = "waiting" => waiters[i] \notin cancelled

\* Faulty variant: any k of them.
AnyPending(G, k) == G \subseteq Pending /\ Cardinality(G) <= k
\* The first k pending waiters, or all of them if there are fewer.
FirstPending(G, k) ==
  /\ G \subseteq Pending
  /\ Cardinality(G) <= k
  /\ Cardinality(G) < k => G = Pending
  /\ \A g \in G, p \in Pending \ G : Position(g) < Position(p)

\* r moves on to pc `to', v slots are free, and up to k waiters are woken.
Wake(r, to, v, k) ==
  \E G \in SUBSET Requests :
    /\ FirstPending(G, k)
    /\ value' = v - Cardinality(G)
    /\ pc' = [x \in Requests |-> IF x = r THEN to
                                 ELSE IF x \in G THEN "granted" ELSE pc[x]]

-----------------------------------------------------------------------------
(* The idle watchdog.  Cancelling it while it is inside driver.disconnect  *)
(* leaves the session in either state.                                     *)

TimerCancel == /\ timer' = "off"
               /\ session' \in IF timer = "firing" THEN {session, "down"} ELSE {session}

\* Faulty variant: the countdown goes on from where it was.
TimerKept(s) == /\ UNCHANGED timer /\ session' = s
\* Faulty variant: a connection out of the store is left alone.
TimerIfRegistered(s) == /\ timer' = IF IdleTimeout /\ registered THEN "armed" ELSE "off"
                        /\ session' = s
TimerReset(s) == /\ timer' = IF IdleTimeout THEN "armed" ELSE "off"
                 /\ session' \in IF timer = "firing" THEN {s, "down"} ELSE {s}

WatchdogExpires == /\ timer = "armed" /\ timer' = "firing"
                   /\ UNCHANGED <<pc, cancelled, value, waiters, registered,
                                  session, closing>>
\* Faulty variant: only logs the expiry.
WatchdogLogs == /\ timer = "firing" /\ timer' = "off"
                /\ UNCHANGED <<pc, cancelled, value, waiters, registered,
                               session, closing>>
WatchdogDisconnects == /\ timer = "firing" /\ timer' = "off" /\ session' = "down"
                       /\ UNCHANGED <<pc, cancelled, value, waiters,
                                      registered, closing>>

-----------------------------------------------------------------------------
(* A request: _require_conn, `async with conn', the handler.               *)

Reject(r) == /\ pc[r] = "new" /\ ~registered
             /\ pc' = [pc EXCEPT ![r] = "rejected"]
             /\ UNCHANGED <<cancelled, value, waiters, timer, registered,
                            session, closing>>

Enter(r) == /\ pc[r] = "new" /\ registered
            /\ TimerCancel
            /\ \/ /\ Locked
                  /\ waiters' = Append(waiters, r)
                  /\ pc' = [pc EXCEPT ![r] = "waiting"]
                  /\ UNCHANGED value
               \/ /\ ~Locked
                  /\ value' = value - 1
                  /\ pc' = [pc EXCEPT ![r] = "executing"]
                  /\ UNCHANGED waiters
            /\ UNCHANGED <<cancelled, registered, closing>>

\* A waiter that was handed a slot resumes, and wakes others while slots are
\* free: requests that arrived meanwhile had to queue behind it.
Acquired(r) == /\ pc[r] = "granted" /\ r \notin cancelled
               /\ waiters' = Without(r)
               /\ Wake(r, "executing", value, value)
               /\ UNCHANGED <<cancelled, timer, registered, session, closing>>

\* CancelledError in acquire(): a slot already handed over goes back.  The
\* body of `async with' was not entered, so __aexit__ does not run.
Returned(r) == IF pc[r] = "granted" THEN value + 1 ELSE value
\* Faulty variant: acquire() inside a try whose finally releases.
AcquireCancelledReleases(r) ==
  /\ pc[r] \in {"waiting", "granted"} /\ r \in cancelled
  /\ waiters' = Without(r)
  /\ Wake(r, "finished", Returned(r) + 1, Returned(r) + 1)
  /\ UNCHANGED <<cancelled, timer, registered, session, closing>>
AcquireCancelled(r) == /\ pc[r] \in {"waiting", "granted"} /\ r \in cancelled
                       /\ waiters' = Without(r)
                       /\ Wake(r, "finished", Returned(r), Returned(r))
                       /\ UNCHANGED <<cancelled, timer, registered, session, closing>>

\* __aexit__: release, then restart the countdown.  s is the session's state.
Exit(r, s) == /\ Wake(r, "finished", value + 1, 1)
              /\ TimerReset(s)
              /\ UNCHANGED <<cancelled, waiters, registered, closing>>

\* The driver call returns, from the database or the explore cache, or raises:
\* in the retry that may be a second ConnectionLostError, which nobody catches.
Return(r) == /\ pc[r] \in {"executing", "retrying"} /\ r \notin cancelled
             /\ Exit(r, session)

ConnectionLost(r) == /\ pc[r] = "executing" /\ r \notin cancelled
                     /\ session = "down"
                     /\ pc' = [pc EXCEPT ![r] = "reconnecting"]
                     /\ UNCHANGED <<cancelled, value, waiters, timer,
                                    registered, session, closing>>

\* Faulty variant: retries for as long as the connection is lost.
ReconnectedAgain(r) ==
  /\ pc[r] = "reconnecting" /\ r \notin cancelled
  /\ pc' = [pc EXCEPT ![r] = "executing"]
  /\ session' = "up"
  /\ UNCHANGED <<cancelled, value, waiters, timer, registered, closing>>
Reconnected(r) == /\ pc[r] = "reconnecting" /\ r \notin cancelled
                  /\ pc' = [pc EXCEPT ![r] = "retrying"]
                  /\ session' = "up"
                  /\ UNCHANGED <<cancelled, value, waiters, timer, registered, closing>>

\* A reconnect that fails has opened a session if it failed in what follows,
\* the replay of session statements.
ReconnectFails(r) == /\ pc[r] = "reconnecting" /\ r \notin cancelled
                     /\ \E s \in {"up", "down"} : Exit(r, s)

\* Faulty variant: __aexit__'s work done only when no exception passes through.
HandlerCancelledKeeps(r) == /\ pc[r] \in Calling /\ r \in cancelled
                            /\ pc' = [pc EXCEPT ![r] = "finished"]
                            /\ UNCHANGED <<cancelled, value, waiters, timer,
                                           registered, session, closing>>
\* CancelledError in the handler; a reconnect may or may not get to its end.
HandlerCancelled(r) ==
  /\ pc[r] \in Calling /\ r \in cancelled
  /\ \E s \in IF pc[r] = "reconnecting" THEN {"up", "down"} ELSE {session} :
       Exit(r, s)

Cancel(r) == /\ pc[r] \in InFlight /\ r \notin cancelled
             /\ Cardinality(cancelled) < MaxCancels
             /\ cancelled' = cancelled \cup {r}
             /\ UNCHANGED <<pc, value, waiters, timer, registered, session, closing>>

-----------------------------------------------------------------------------
(* disconnect, which takes no slot, and the backend.                       *)

Disconnect == /\ registered /\ registered' = FALSE
              /\ TimerCancel
              /\ closing' = "disconnecting"
              /\ UNCHANGED <<pc, cancelled, value, waiters>>

Disconnected == /\ closing = "disconnecting" /\ closing' = "done"
                /\ session' = "down"
                /\ UNCHANGED <<pc, cancelled, value, waiters, timer, registered>>

\* The client cancels its disconnect request before the driver is done.
DisconnectCancelled == /\ closing = "disconnecting" /\ closing' = "cancelled"
                       /\ Cardinality(cancelled) < MaxCancels
                       /\ session' \in {session, "down"}
                       /\ UNCHANGED <<pc, cancelled, value, waiters, timer, registered>>

BackendDrops == /\ session = "up" /\ session' = "down"
                /\ UNCHANGED <<pc, cancelled, value, waiters, timer,
                               registered, closing>>

-----------------------------------------------------------------------------
RequestStep(r) == \/ Acquired(r) \/ AcquireCancelled(r)
                  \/ Return(r) \/ ConnectionLost(r) \/ Reconnected(r)
                  \/ ReconnectFails(r) \/ HandlerCancelled(r)
Watchdog == WatchdogExpires \/ WatchdogDisconnects
Closing  == Disconnected \/ DisconnectCancelled

Terminated == /\ \A r \in Requests : pc[r] \in {"finished", "rejected"}
              /\ UNCHANGED vars

Next == \/ \E r \in Requests : Reject(r) \/ Enter(r) \/ RequestStep(r) \/ Cancel(r)
        \/ Watchdog \/ Disconnect \/ Closing \/ BackendDrops \/ Terminated

\* Driver calls return, woken tasks run and timers expire; what the client
\* sends and when the backend drops the session is not promised.
Spec == /\ Init /\ [][Next]_vars
        /\ \A r \in Requests : WF_vars(RequestStep(r))
        /\ WF_vars(Watchdog) /\ WF_vars(Closing)

-----------------------------------------------------------------------------
\* The state has its type.
TypeOK == /\ pc \in [Requests -> PC]
          /\ cancelled \subseteq Requests
          /\ value \in 0..MaxConcurrency
          /\ waiters \in Seq(Requests)
          /\ timer \in {"off", "armed", "firing"}
          /\ registered \in BOOLEAN
          /\ session \in {"up", "down"}
          /\ closing \in {"no", "disconnecting", "done", "cancelled"}

\* No slot is lost or made up, whichever way requests leave (a result, an
\* error, a lost connection, a cancellation in the body, in the queue, or
\* between being handed a slot and running): the free slots and the requests
\* that own one always add up to max_concurrency (dispatcher.py 65-74).
SlotAccounting == value + Cardinality(Holders) = MaxConcurrency

\* The queue is exactly the requests that are inside acquire(), each once: a
\* waiter left behind would make the semaphore look locked for ever.
QueueIsExact == /\ \A r \in Requests : InQueue(r) <=> pc[r] \in {"waiting", "granted"}
                /\ \A i, j \in DOMAIN waiters : waiters[i] = waiters[j] => i = j

\* Requests on a connection start in the order they came: a request only gets
\* a slot together with every waiter that is ahead of it.
NoOvertaking ==
  [][\A r \in Requests, w \in Pending :
       /\ pc[r] \notin Holding /\ pc'[r] \in Holding
       /\ ~(InQueue(r) /\ Position(r) <= Position(w))
       => pc'[w] # "waiting"]_vars

\* README 123, "a connection is auto-closed after idle_timeout seconds of
\* inactivity": while a connection is idle and up, its watchdog runs.  Enter
\* stops the watchdog before it has a slot and only Exit starts it again, so
\* this is as far as it goes: with two cancellations, one of a request that
\* waits behind the other, nobody is left to start it.
IdleIsWatched == /\ IdleTimeout /\ registered /\ Busy = {} /\ session = "up"
                 /\ Cardinality(cancelled) <= 1
                 => timer \in {"armed", "firing"}

\* Every request made on the connection comes to its end, and gives its slot
\* back, whatever is cancelled or lost on the way.
EveryRequestFinishes == \A r \in Requests :
                          (pc[r] \in InFlight) ~> (pc[r] = "finished")

\* A connection left alone is closed by its watchdog, as long as it has one:
\* see IdleIsWatched.
IdleCloses == (IdleTimeout /\ registered /\ Busy = {})
                ~> \/ session = "down" \/ Busy # {} \/ ~registered
                   \/ Cardinality(cancelled) > 1

\* With a watchdog, a disconnected connection ends up without a session even
\* when a request that was in flight has reconnected it meanwhile.
DisconnectSticks == IdleTimeout => [](closing = "done" => <>[](session = "down"))
=============================================================================
