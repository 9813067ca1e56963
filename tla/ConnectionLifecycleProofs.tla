---------------------- MODULE ConnectionLifecycleProofs ----------------------
(***************************************************************************)
(* For any number of requests, any max_concurrency and any cancellations,  *)
(* no slot of a connection is lost or made up and nobody is left behind in *)
(* the semaphore's queue.                                                  *)
(*                                                                         *)
(* The three invariants hold together: that a freed slot may be handed to  *)
(* a waiter depends on the queue holding exactly the requests that wait,   *)
(* and that the counter stays within its bounds depends on the accounting. *)
(***************************************************************************)
EXTENDS ConnectionLifecycle, FiniteSetTheorems, SequenceTheorems, TLAPS

IInv == TypeOK /\ QueueIsExact /\ SlotAccounting

-----------------------------------------------------------------------------
(* Removing one element of a sequence.                                     *)

\* RemoveAt drops one position and closes the gap.
LEMMA RemoveAtProperties ==
  ASSUME NEW S, NEW s \in Seq(S), NEW i \in 1..Len(s)
  PROVE  /\ RemoveAt(s, i) \in Seq(S)
         /\ Len(RemoveAt(s, i)) = Len(s) - 1
         /\ \A j \in 1..(Len(s) - 1) :
              RemoveAt(s, i)[j] = IF j < i THEN s[j] ELSE s[j + 1]
<1> DEFINE a == SubSeq(s, 1, i - 1)
           b == SubSeq(s, i + 1, Len(s))
<1>1. Len(s) \in Nat /\ i \in Int /\ 1 <= i /\ i <= Len(s)
  BY LenProperties
<1>2. \A j \in 1..Len(s) : s[j] \in S
  BY ElementOfSeq
<1>3. /\ a \in Seq(S)
      /\ Len(a) = i - 1
      /\ \A j \in 1..(i - 1) : a[j] = s[j]
  <2>1. \A j \in 1..(i - 1) : s[j] \in S
    BY <1>1, <1>2
  <2>2. /\ a \in Seq(S)
        /\ Len(a) = IF 1 <= i - 1 THEN (i - 1) - 1 + 1 ELSE 0
        /\ \A j \in 1..((i - 1) - 1 + 1) : a[j] = s[1 + j - 1]
    BY <1>1, <2>1, SubSeqProperties
  <2> QED BY <1>1, <2>2
<1>4. /\ b \in Seq(S)
      /\ Len(b) = Len(s) - i
      /\ \A j \in 1..(Len(s) - i) : b[j] = s[i + j]
  <2>1. \A j \in (i + 1)..Len(s) : s[j] \in S
    BY <1>1, <1>2
  <2>2. /\ b \in Seq(S)
        /\ Len(b) = IF i + 1 <= Len(s) THEN Len(s) - (i + 1) + 1 ELSE 0
        /\ \A j \in 1..(Len(s) - (i + 1) + 1) : b[j] = s[(i + 1) + j - 1]
    BY <1>1, <2>1, SubSeqProperties
  <2> QED BY <1>1, <2>2
<1>5. /\ a \o b \in Seq(S)
      /\ Len(a \o b) = Len(a) + Len(b)
      /\ \A j \in 1..(Len(a) + Len(b)) :
           (a \o b)[j] = IF j <= Len(a) THEN a[j] ELSE b[j - Len(a)]
  BY <1>3, <1>4, ConcatProperties
<1>6. RemoveAt(s, i) = a \o b
  BY DEF RemoveAt
<1> HIDE DEF a, b
<1>7. \A j \in 1..(Len(s) - 1) : (a \o b)[j] = IF j < i THEN s[j] ELSE s[j + 1]
  <2> SUFFICES ASSUME NEW j \in 1..(Len(s) - 1)
               PROVE  (a \o b)[j] = IF j < i THEN s[j] ELSE s[j + 1]
    OBVIOUS
  <2>1. CASE j < i
    BY <1>1, <1>3, <1>4, <1>5, <2>1
  <2>2. CASE ~(j < i)
    <3>1. j - Len(a) \in 1..(Len(s) - i) /\ i + (j - Len(a)) = j + 1
      BY <1>1, <1>3, <2>2
    <3>2. (a \o b)[j] = b[j - Len(a)]
      BY <1>1, <1>3, <1>4, <1>5, <2>2
    <3>3. b[j - Len(a)] = s[i + (j - Len(a))]
      BY <1>4, <3>1
    <3> QED BY <2>2, <3>1, <3>2, <3>3
  <2> QED BY <2>1, <2>2
<1>8. Len(a \o b) = Len(s) - 1
  BY <1>1, <1>3, <1>4, <1>5
<1> QED BY <1>5, <1>6, <1>7, <1>8

-----------------------------------------------------------------------------
(* The semaphore's queue.                                                  *)

Queueing == {"waiting", "granted"}

\* A request that leaves acquire() leaves the queue, and nobody else does.
LEMMA Leaving ==
  ASSUME TypeOK, QueueIsExact, NEW r \in Requests, pc[r] \in Queueing
  PROVE  /\ Without(r) \in Seq(Requests)
         /\ \A x \in Requests : (\E i \in DOMAIN Without(r) : Without(r)[i] = x)
                                  <=> (pc[x] \in Queueing /\ x # r)
         /\ \A i, j \in DOMAIN Without(r) : Without(r)[i] = Without(r)[j] => i = j
<1> DEFINE p == Position(r)
           w == Without(r)
<1>1. waiters \in Seq(Requests) /\ DOMAIN waiters = 1..Len(waiters) /\ Len(waiters) \in Nat
  BY LenProperties DEF TypeOK
<1>2. p \in 1..Len(waiters) /\ waiters[p] = r
  BY <1>1 DEF QueueIsExact, InQueue, Position, Queueing
<1>3. /\ w \in Seq(Requests)
      /\ Len(w) = Len(waiters) - 1
      /\ \A j \in 1..(Len(waiters) - 1) :
           w[j] = IF j < p THEN waiters[j] ELSE waiters[j + 1]
  BY <1>1, <1>2, RemoveAtProperties DEF Without
<1>4. DOMAIN w = 1..(Len(waiters) - 1)
  BY <1>3, LenProperties
<1>5. \A i, j \in 1..Len(waiters) : waiters[i] = waiters[j] => i = j
  BY <1>1 DEF QueueIsExact
<1>6. \A x \in Requests : (\E i \in 1..Len(waiters) : waiters[i] = x) <=> pc[x] \in Queueing
  BY <1>1 DEF QueueIsExact, InQueue, Queueing
<1> HIDE DEF p, w
<1>7. \A i, j \in DOMAIN w : w[i] = w[j] => i = j
  <2> SUFFICES ASSUME NEW i \in DOMAIN w, NEW j \in DOMAIN w, w[i] = w[j]
               PROVE  i = j
    OBVIOUS
  <2> DEFINE from(k) == IF k < p THEN k ELSE k + 1
  <2>1. /\ from(i) \in 1..Len(waiters) /\ w[i] = waiters[from(i)]
        /\ from(j) \in 1..Len(waiters) /\ w[j] = waiters[from(j)]
    BY <1>1, <1>2, <1>3, <1>4
  <2>2. from(i) = from(j)
    BY <1>5, <2>1
  <2> QED BY <1>1, <1>2, <1>4, <2>2
<1>8. ASSUME NEW x \in Requests, NEW i \in DOMAIN w, w[i] = x
      PROVE  pc[x] \in Queueing /\ x # r
  <2> DEFINE k == IF i < p THEN i ELSE i + 1
  <2>1. k \in 1..Len(waiters) /\ k # p /\ waiters[k] = x
    BY <1>1, <1>2, <1>3, <1>4, <1>8
  <2> QED BY <1>2, <1>5, <1>6, <2>1
<1>9. ASSUME NEW x \in Requests, pc[x] \in Queueing, x # r
      PROVE  \E i \in DOMAIN w : w[i] = x
  <2>1. PICK k \in 1..Len(waiters) : waiters[k] = x
    BY <1>6, <1>9
  <2>2. k # p
    BY <1>2, <1>9, <2>1
  <2>3. CASE k < p
    BY <1>1, <1>2, <1>3, <1>4, <2>1, <2>3
  <2>4. CASE k > p
    <3>1. k - 1 \in 1..(Len(waiters) - 1) /\ ~(k - 1 < p) /\ (k - 1) + 1 = k
      BY <1>1, <1>2, <2>4
    <3>2. w[k - 1] = x
      BY <1>3, <2>1, <3>1
    <3> QED BY <1>4, <3>1, <3>2
  <2> QED BY <1>1, <1>2, <2>2, <2>3, <2>4
<1> QED BY <1>3, <1>7, <1>8, <1>9 DEF w

\* What the queue has to hold for QueueIsExact to survive a step.
LEMMA QueueStays ==
  ASSUME QueueIsExact, waiters' = waiters,
         \A x \in Requests : pc'[x] \in Queueing <=> pc[x] \in Queueing
  PROVE  QueueIsExact'
BY DEF QueueIsExact, InQueue, Queueing

-----------------------------------------------------------------------------
(* Counting the requests that hold a slot.                                 *)

\* Slot holders are requests, of which there are finitely many.
LEMMA HoldersFinite ==
  /\ IsFiniteSet(Holders)
  /\ Cardinality(Holders) \in Nat
<1>1. Holders \subseteq Requests
  BY DEF Holders, At
<1> QED BY <1>1, LifecycleAssumption, FS_Subset, FS_CardinalityType DEF LifecycleAssumption

\* Wake moves r to `to' and gives each slot it takes from v to one waiter: what
\* is free and what is held afterwards add up to v and what r leaves behind.
LEMMA WakeCounts ==
  ASSUME TypeOK, NEW r \in Requests, NEW to \in PC, NEW v \in Nat, NEW k \in Nat,
         k <= v, r \notin Pending, Wake(r, to, v, k)
  PROVE  /\ pc' \in [Requests -> PC]
         /\ pc'[r] = to
         /\ \A x \in Requests \ {r} : pc'[x] \in Queueing <=> pc[x] \in Queueing
         /\ value' \in Nat
         /\ value' + Cardinality(Holders')
              = v + Cardinality(Holders \ {r}) + (IF to \in Holding THEN 1 ELSE 0)
<1>1. PICK G \in SUBSET Requests :
        /\ FirstPending(G, k)
        /\ value' = v - Cardinality(G)
        /\ pc' = [x \in Requests |-> IF x = r THEN to
                                     ELSE IF x \in G THEN "granted" ELSE pc[x]]
  BY DEF Wake
<1>2. G \subseteq Pending /\ Cardinality(G) <= k /\ r \notin G
  BY <1>1 DEF FirstPending
<1>3. \A g \in G : pc[g] = "waiting"
  BY <1>2 DEF Pending
<1>4. pc \in [Requests -> PC]
  BY DEF TypeOK
<1>5. pc' \in [Requests -> PC] /\ pc'[r] = to
  BY <1>1, <1>4 DEF PC
<1>6. \A x \in Requests \ {r} : pc'[x] \in Queueing <=> pc[x] \in Queueing
  BY <1>1, <1>3 DEF Queueing
<1>7. IsFiniteSet(G) /\ Cardinality(G) \in Nat
  BY <1>1, LifecycleAssumption, FS_Subset, FS_CardinalityType DEF LifecycleAssumption
<1>8. value' \in Nat
  BY <1>1, <1>2, <1>7
<1> DEFINE R == Holders \ {r}
           H == R \cup G
<1>9. IsFiniteSet(R) /\ Cardinality(R) \in Nat
  BY HoldersFinite, FS_RemoveElement, FS_CardinalityType
<1>10. R \cap G = {}
  BY <1>3 DEF Holders, At, Holding, Calling
<1>11. IsFiniteSet(H) /\ Cardinality(H) = Cardinality(R) + Cardinality(G)
  <2>1. Cardinality(R \cap G) = 0
    BY <1>10, FS_EmptySet
  <2> HIDE DEF R
  <2>2. /\ IsFiniteSet(R \cup G)
        /\ Cardinality(R \cup G) = Cardinality(R) + Cardinality(G) - Cardinality(R \cap G)
    BY <1>7, <1>9, FS_Union
  <2> QED BY <1>7, <1>9, <2>1, <2>2
<1>12. r \notin H
  BY <1>2
<1>13. Holders' = IF to \in Holding THEN H \cup {r} ELSE H
  <2>1. \A x \in Requests : x \in Holders' <=> pc'[x] \in Holding
    BY DEF Holders, At
  <2>2. \A x \in Requests : x \in Holders <=> pc[x] \in Holding
    BY DEF Holders, At
  <2>3. \A x \in Requests : pc'[x] = IF x = r THEN to
                                     ELSE IF x \in G THEN "granted" ELSE pc[x]
    BY <1>1
  <2>4. "granted" \in Holding
    BY DEF Holding
  <2>5. Holders \subseteq Requests /\ Holders' \subseteq Requests /\ G \subseteq Requests
    BY DEF Holders, At
  <2>6. \A x \in Requests : x \in Holders' <=> (x \in H \/ (x = r /\ to \in Holding))
    BY <1>12, <2>1, <2>2, <2>3, <2>4
  <2> QED BY <2>5, <2>6
<1> HIDE DEF H
<1>14. Cardinality(Holders') = Cardinality(H) + (IF to \in Holding THEN 1 ELSE 0)
  <2>1. Cardinality(H \cup {r}) = Cardinality(H) + 1
    BY <1>11, <1>12, FS_AddElement
  <2>2. Cardinality(H) \in Nat
    BY <1>11, FS_CardinalityType
  <2> QED BY <1>13, <2>1, <2>2
<1> QED BY <1>1, <1>5, <1>6, <1>7, <1>8, <1>9, <1>11, <1>14

\* A step that hands no slot over keeps the accounting.
LEMMA SameHolders ==
  ASSUME SlotAccounting, value' = value,
         \A x \in Requests : pc'[x] \in Holding <=> pc[x] \in Holding
  PROVE  SlotAccounting'
<1>1. Holders' = Holders
  BY DEF Holders, At
<1> QED BY <1>1 DEF SlotAccounting

-----------------------------------------------------------------------------
(* The invariant.                                                          *)

\* A new connection satisfies the invariant: all slots free, nobody waiting.
LEMMA Initially == Init => IInv
<1> SUFFICES ASSUME Init PROVE IInv
  OBVIOUS
<1>1. Holders = {}
  BY DEF Init, Holders, At, Holding, Calling
<1>2. SlotAccounting
  BY <1>1, FS_EmptySet, LifecycleAssumption DEF Init, SlotAccounting, LifecycleAssumption
<1>3. TypeOK
  BY LifecycleAssumption DEF Init, TypeOK, PC, LifecycleAssumption
<1>4. QueueIsExact
  BY DEF Init, QueueIsExact, InQueue
<1> QED BY <1>2, <1>3, <1>4 DEF IInv

\* The parts of TypeOK that are not about the semaphore.
TypeRest == /\ cancelled \subseteq Requests
            /\ timer \in {"off", "armed", "firing"}
            /\ registered \in BOOLEAN
            /\ session \in {"up", "down"}
            /\ closing \in {"no", "disconnecting", "done", "cancelled"}

\* The parts of the state beside the semaphore keep their types.
LEMMA RestKept == ASSUME TypeOK, [Next]_vars PROVE TypeRest'
<1>1. CASE UNCHANGED vars
  BY <1>1 DEF TypeOK, TypeRest, vars
<1>2. ASSUME NEW r \in Requests, Reject(r) \/ Enter(r) \/ RequestStep(r) \/ Cancel(r)
      PROVE  TypeRest'
  <2>1. ASSUME NEW s \in {"up", "down"}, Exit(r, s)
        PROVE  TypeRest'
    BY <2>1 DEF TypeOK, TypeRest, Exit, TimerReset
  <2>2. CASE Return(r) \/ ReconnectFails(r) \/ HandlerCancelled(r)
    BY <2>1, <2>2 DEF TypeOK, Return, ReconnectFails, HandlerCancelled
  <2>3. CASE Acquired(r) \/ AcquireCancelled(r) \/ ConnectionLost(r) \/ Reconnected(r)
    BY <2>3 DEF TypeOK, TypeRest, Acquired, AcquireCancelled, ConnectionLost, Reconnected
  <2>4. CASE Reject(r) \/ Enter(r) \/ Cancel(r)
    BY <2>4 DEF TypeOK, TypeRest, Reject, Enter, Cancel, TimerCancel
  <2> QED BY <1>2, <2>2, <2>3, <2>4 DEF RequestStep
<1>3. CASE Watchdog \/ Disconnect \/ Closing \/ BackendDrops \/ Terminated
  BY <1>3 DEF TypeOK, TypeRest, Watchdog, WatchdogExpires, WatchdogDisconnects,
              Disconnect, TimerCancel, Closing, Disconnected, DisconnectCancelled,
              BackendDrops, Terminated, vars
<1> QED BY <1>1, <1>2, <1>3 DEF Next

\* The counter's upper bound comes from the accounting.
LEMMA Bounded ==
  ASSUME SlotAccounting', TypeRest', value' \in Nat,
         pc' \in [Requests -> PC], waiters' \in Seq(Requests)
  PROVE  TypeOK'
<1>1. Cardinality(Holders') \in Nat
  BY HoldersFinite, FS_Subset, FS_CardinalityType, LifecycleAssumption
     DEF Holders, At, LifecycleAssumption
<1>2. value' <= MaxConcurrency
  BY <1>1, LifecycleAssumption DEF SlotAccounting, LifecycleAssumption
<1> QED BY <1>2, LifecycleAssumption DEF TypeOK, TypeRest, LifecycleAssumption

\* What one step does to the semaphore.
SemaphoreInv == /\ pc \in [Requests -> PC]
                /\ value \in Nat
                /\ waiters \in Seq(Requests)
                /\ QueueIsExact
                /\ SlotAccounting

\* __aexit__ gives back one slot and wakes at most one waiter.
LEMMA ExitKeeps ==
  ASSUME IInv, NEW r \in Requests, pc[r] \in Calling, NEW s, Exit(r, s)
  PROVE  SemaphoreInv'
<1>1. Wake(r, "finished", value + 1, 1) /\ waiters' = waiters
  BY DEF Exit
<1>2. value \in Nat /\ value + 1 \in Nat /\ 1 \in Nat /\ 1 <= value + 1
  BY DEF IInv, TypeOK
<1>3. r \notin Pending /\ "finished" \in PC /\ "finished" \notin Holding
  BY DEF Pending, Calling, PC, Holding
<1>4. /\ pc' \in [Requests -> PC] /\ pc'[r] = "finished"
      /\ \A x \in Requests \ {r} : pc'[x] \in Queueing <=> pc[x] \in Queueing
      /\ value' \in Nat
      /\ value' + Cardinality(Holders') = (value + 1) + Cardinality(Holders \ {r}) + 0
  BY <1>1, <1>2, <1>3, WakeCounts DEF IInv
<1>5. Cardinality(Holders \ {r}) = Cardinality(Holders) - 1
  <2>1. r \in Holders
    BY DEF Holders, At, Holding
  <2> QED BY <2>1, HoldersFinite, FS_RemoveElement
<1>6. SlotAccounting'
  BY <1>2, <1>4, <1>5, HoldersFinite DEF IInv, SlotAccounting
<1>7. \A x \in Requests : pc'[x] \in Queueing <=> pc[x] \in Queueing
  BY <1>4 DEF Queueing, Calling
<1>8. QueueIsExact'
  BY <1>1, <1>7, QueueStays DEF IInv
<1> QED BY <1>1, <1>4, <1>6, <1>8 DEF IInv, TypeOK, SemaphoreInv

\* A request leaving acquire(), for its handler or because it was cancelled.
LEMMA LeavingKeeps ==
  ASSUME IInv, NEW r \in Requests, Acquired(r) \/ AcquireCancelled(r)
  PROVE  SemaphoreInv'
<1>1. value \in Nat /\ pc[r] \in Queueing /\ waiters' = Without(r)
  BY DEF IInv, TypeOK, Acquired, AcquireCancelled, Queueing
<1>2. PICK to \in {"executing", "finished"}, v \in Nat :
        /\ Wake(r, to, v, v)
        /\ v + (IF to \in Holding THEN 1 ELSE 0)
             = value + (IF pc[r] \in Holding THEN 1 ELSE 0)
  <2>1. CASE Acquired(r)
    BY <1>1, <2>1 DEF Acquired, Holding, Calling
  <2>2. CASE AcquireCancelled(r)
    BY <1>1, <2>2 DEF AcquireCancelled, Returned, Holding, Calling
  <2> QED BY <2>1, <2>2
<1>3. r \notin Pending /\ to \in PC /\ to \notin Queueing /\ v <= v
  BY DEF Pending, Acquired, AcquireCancelled, PC, Queueing
<1>4. /\ pc' \in [Requests -> PC] /\ pc'[r] = to
      /\ \A x \in Requests \ {r} : pc'[x] \in Queueing <=> pc[x] \in Queueing
      /\ value' \in Nat
      /\ value' + Cardinality(Holders')
           = v + Cardinality(Holders \ {r}) + (IF to \in Holding THEN 1 ELSE 0)
  BY <1>2, <1>3, WakeCounts DEF IInv
<1>5. Cardinality(Holders \ {r}) + (IF pc[r] \in Holding THEN 1 ELSE 0) = Cardinality(Holders)
  <2>1. r \in Holders <=> pc[r] \in Holding
    BY DEF Holders, At
  <2>2. Cardinality(Holders \ {r})
          = IF r \in Holders THEN Cardinality(Holders) - 1 ELSE Cardinality(Holders)
    BY HoldersFinite, FS_RemoveElement
  <2> QED BY <2>1, <2>2, HoldersFinite
<1>6. SlotAccounting'
  <2>1. Cardinality(Holders \ {r}) \in Nat
    BY HoldersFinite, FS_RemoveElement, FS_CardinalityType
  <2>2. value' + Cardinality(Holders') = value + Cardinality(Holders)
    BY <1>1, <1>2, <1>4, <1>5, <2>1, HoldersFinite
  <2> QED BY <2>2 DEF IInv, SlotAccounting
<1>7. /\ Without(r) \in Seq(Requests)
      /\ \A x \in Requests : (\E i \in DOMAIN Without(r) : Without(r)[i] = x)
                               <=> (pc[x] \in Queueing /\ x # r)
      /\ \A i, j \in DOMAIN Without(r) : Without(r)[i] = Without(r)[j] => i = j
  BY <1>1, Leaving DEF IInv
<1>8. QueueIsExact'
  <2>1. \A x \in Requests : pc'[x] \in Queueing <=> (pc[x] \in Queueing /\ x # r)
    BY <1>3, <1>4
  <2> QED BY <1>1, <1>7, <2>1 DEF QueueIsExact, InQueue, Queueing
<1> QED BY <1>1, <1>4, <1>6, <1>7, <1>8 DEF SemaphoreInv

\* __aenter__: a new request takes a free slot or queues up.
LEMMA EnterKeeps ==
  ASSUME IInv, NEW r \in Requests, Enter(r)
  PROVE  SemaphoreInv'
<1>1. /\ pc[r] = "new" /\ pc \in [Requests -> PC]
      /\ value \in Nat /\ waiters \in Seq(Requests)
  BY DEF IInv, TypeOK, Enter
<1>2. CASE Locked /\ waiters' = Append(waiters, r) /\ value' = value
             /\ pc' = [pc EXCEPT ![r] = "waiting"]
  <2>1. pc' \in [Requests -> PC] /\ waiters' \in Seq(Requests)
    BY <1>1, <1>2, AppendProperties DEF PC
  <2>2. \A x \in Requests : pc'[x] \in Holding <=> pc[x] \in Holding
    BY <1>1, <1>2 DEF Holding, Calling
  <2>3. SlotAccounting'
    BY <1>2, <2>2, SameHolders DEF IInv
  <2>4. QueueIsExact'
    <3>1. /\ DOMAIN waiters = 1..Len(waiters) /\ Len(waiters) \in Nat
          /\ DOMAIN waiters' = 1..(Len(waiters) + 1)
          /\ \A i \in 1..Len(waiters) : waiters'[i] = waiters[i]
          /\ waiters'[Len(waiters) + 1] = r
      BY <1>1, <1>2, <2>1, AppendProperties, LenProperties
    <3>2. \A i \in 1..Len(waiters) : waiters[i] # r
      BY <1>1, <3>1 DEF IInv, QueueIsExact, InQueue
    <3>3. \A i, j \in DOMAIN waiters' : waiters'[i] = waiters'[j] => i = j
      BY <3>1, <3>2 DEF IInv, QueueIsExact
    <3>4. ASSUME NEW x \in Requests
          PROVE  InQueue(x)' <=> pc'[x] \in {"waiting", "granted"}
      <4>1. InQueue(x)' <=> (InQueue(x) \/ x = r)
        BY <3>1 DEF InQueue
      <4> QED BY <1>1, <1>2, <4>1 DEF IInv, QueueIsExact
    <3> QED BY <3>3, <3>4 DEF QueueIsExact
  <2> QED BY <1>1, <1>2, <2>1, <2>3, <2>4 DEF SemaphoreInv
<1>3. CASE ~Locked /\ value' = value - 1 /\ waiters' = waiters
             /\ pc' = [pc EXCEPT ![r] = "executing"]
  <2>1. pc' \in [Requests -> PC] /\ value' \in Nat
    BY <1>1, <1>3 DEF PC, Locked
  <2>2. \A x \in Requests : pc'[x] \in Queueing <=> pc[x] \in Queueing
    BY <1>1, <1>3 DEF Queueing
  <2>3. QueueIsExact'
    BY <1>3, <2>2, QueueStays DEF IInv
  <2>4. Holders' = Holders \cup {r} /\ r \notin Holders
    BY <1>1, <1>3 DEF Holders, At, Holding, Calling
  <2>5. Cardinality(Holders') = Cardinality(Holders) + 1
    BY <2>4, HoldersFinite, FS_AddElement
  <2>6. SlotAccounting'
    BY <1>1, <1>3, <2>5, HoldersFinite DEF IInv, SlotAccounting
  <2> QED BY <1>1, <1>3, <2>1, <2>3, <2>6 DEF SemaphoreInv
<1> QED BY <1>2, <1>3 DEF Enter

\* Every other step leaves the semaphore alone and moves no request into or
\* out of its slot or its queue.
LEMMA OthersKeep ==
  ASSUME IInv, value' = value, waiters' = waiters, pc' \in [Requests -> PC],
         \A x \in Requests : /\ pc'[x] \in Holding <=> pc[x] \in Holding
                             /\ pc'[x] \in Queueing <=> pc[x] \in Queueing
  PROVE  SemaphoreInv'
BY SameHolders, QueueStays DEF IInv, TypeOK, SemaphoreInv

\* However requests move, slots are conserved and the queue stays exact.
LEMMA SemaphoreKept == ASSUME IInv, [Next]_vars PROVE SemaphoreInv'
<1>1. pc \in [Requests -> PC]
  BY DEF IInv, TypeOK
<1>2. ASSUME pc' = pc, value' = value, waiters' = waiters
      PROVE  SemaphoreInv'
  BY <1>1, <1>2, OthersKeep
<1>3. CASE UNCHANGED vars \/ Terminated
  BY <1>2, <1>3 DEF vars, Terminated
<1>4. CASE Watchdog \/ Disconnect \/ Closing \/ BackendDrops
  BY <1>2, <1>4 DEF Watchdog, WatchdogExpires, WatchdogDisconnects, Disconnect, Closing,
                    Disconnected, DisconnectCancelled, BackendDrops
<1>5. ASSUME NEW r \in Requests, Reject(r) \/ Enter(r) \/ RequestStep(r) \/ Cancel(r)
      PROVE  SemaphoreInv'
  <2>1. CASE Cancel(r)
    BY <1>2, <2>1 DEF Cancel
  <2>2. CASE Reject(r) \/ ConnectionLost(r) \/ Reconnected(r)
    BY <1>1, <2>2, OthersKeep DEF Reject, ConnectionLost, Reconnected, PC, Holding,
                                  Calling, Queueing
  <2>3. CASE Enter(r)
    BY <2>3, EnterKeeps
  <2>4. CASE Acquired(r) \/ AcquireCancelled(r)
    BY <2>4, LeavingKeeps
  <2>5. CASE Return(r) \/ ReconnectFails(r) \/ HandlerCancelled(r)
    BY <2>5, ExitKeeps DEF Return, ReconnectFails, HandlerCancelled, Calling
  <2> QED BY <1>5, <2>1, <2>2, <2>3, <2>4, <2>5 DEF RequestStep
<1> QED BY <1>3, <1>4, <1>5 DEF Next

\* The invariant is inductive: no handler, watchdog or cancellation breaks it.
LEMMA Inductive == IInv /\ [Next]_vars => IInv'
<1> SUFFICES ASSUME IInv, [Next]_vars PROVE IInv'
  OBVIOUS
<1>1. SemaphoreInv' /\ TypeRest'
  BY SemaphoreKept, RestKept DEF IInv
<1>2. TypeOK'
  BY <1>1, Bounded DEF SemaphoreInv
<1> QED BY <1>1, <1>2 DEF IInv, SemaphoreInv

-----------------------------------------------------------------------------
(* The theorems.                                                           *)

\* In every reachable state the connection's semaphore, its queue and its types
\* agree (dispatcher.py 40-125).
THEOREM Invariance == Spec => []IInv
BY Initially, Inductive, PTL DEF Spec

\* The connection's state keeps its type; in particular the semaphore's counter
\* never leaves 0..max_concurrency (dispatcher.py 54, 65-74).
THEOREM TypeCorrect == Spec => []TypeOK
BY Invariance, PTL DEF IInv

\* However many requests enter, are handed a slot, are cancelled or lose their
\* connection, no slot of __aenter__/__aexit__ is lost or made up.
THEOREM SlotsAreConserved == Spec => []SlotAccounting
BY Invariance, PTL DEF IInv

\* The semaphore's queue never holds a request that has left, so it never
\* looks locked for ever.
THEOREM QueueStaysExact == Spec => []QueueIsExact
BY Invariance, PTL DEF IInv

-----------------------------------------------------------------------------
(* Requests start in the order they came.                                  *)

InOrder == \A r \in Requests, w \in Pending :
             /\ pc[r] \notin Holding /\ pc'[r] \in Holding
             /\ ~(InQueue(r) /\ Position(r) <= Position(w))
             => pc'[w] # "waiting"

\* A freed slot goes to the first waiters of the queue.
LEMMA WakeInOrder ==
  ASSUME TypeOK, NEW x \in Requests, NEW to \in PC, NEW v, NEW k,
         pc[x] \in Holding \/ to \notin Holding,
         x \notin Pending, Wake(x, to, v, k)
  PROVE  InOrder
<1>1. PICK G \in SUBSET Requests :
        /\ FirstPending(G, k)
        /\ pc' = [y \in Requests |-> IF y = x THEN to
                                     ELSE IF y \in G THEN "granted" ELSE pc[y]]
  BY DEF Wake
<1> SUFFICES ASSUME NEW r \in Requests, NEW w \in Pending,
                    pc[r] \notin Holding, pc'[r] \in Holding,
                    ~(InQueue(r) /\ Position(r) <= Position(w)),
                    pc'[w] = "waiting"
             PROVE  FALSE
  BY DEF InOrder
<1>2. r # x
  BY <1>1
<1>3. r \in G
  BY <1>1, <1>2
<1>4. w \in Pending \ G
  BY <1>1 DEF Pending
<1>5. InQueue(r) /\ InQueue(w) /\ Position(r) < Position(w)
  BY <1>1, <1>3, <1>4 DEF FirstPending, Pending
<1>6. Position(r) \in Nat /\ Position(w) \in Nat
  <2>1. DOMAIN waiters = 1..Len(waiters) /\ Len(waiters) \in Nat
    BY LenProperties DEF TypeOK
  <2> QED BY <1>5, <2>1 DEF InQueue, Position
<1> QED BY <1>5, <1>6

\* No single step gives a slot to a request that came after one still waiting.
LEMMA StepInOrder == ASSUME IInv, [Next]_vars PROVE InOrder
<1>1. pc \in [Requests -> PC]
  BY DEF IInv, TypeOK
<1>2. ASSUME \A r \in Requests : pc'[r] \in Holding => pc[r] \in Holding
      PROVE  InOrder
  BY <1>2 DEF InOrder
<1>3. CASE UNCHANGED vars \/ Terminated
  BY <1>2, <1>3 DEF vars, Terminated
<1>4. CASE Watchdog \/ Disconnect \/ Closing \/ BackendDrops
  BY <1>2, <1>4 DEF Watchdog, WatchdogExpires, WatchdogDisconnects, Disconnect, Closing,
                    Disconnected, DisconnectCancelled, BackendDrops
<1>5. ASSUME NEW r \in Requests, Reject(r) \/ Enter(r) \/ RequestStep(r) \/ Cancel(r)
      PROVE  InOrder
  <2>1. CASE Cancel(r) \/ Reject(r) \/ ConnectionLost(r) \/ Reconnected(r)
    <3>1. \A x \in Requests : pc'[x] \in Holding => pc[x] \in Holding
      BY <1>1, <2>1 DEF Cancel, Reject, ConnectionLost, Reconnected, Holding, Calling
    <3> QED BY <1>2, <3>1
  <2>2. CASE Enter(r)
    <3>1. CASE Locked /\ pc' = [pc EXCEPT ![r] = "waiting"]
      BY <1>1, <1>2, <3>1 DEF Holding, Calling
    <3>2. CASE ~Locked /\ pc' = [pc EXCEPT ![r] = "executing"]
      <4>1. Pending = {}
        BY <3>2 DEF Locked, Pending, InQueue
      <4> QED BY <4>1 DEF InOrder
    <3> QED BY <2>2, <3>1, <3>2 DEF Enter
  <2>3. CASE Acquired(r) \/ AcquireCancelled(r)
    <3>1. CASE Acquired(r)
      BY <3>1, WakeInOrder DEF IInv, Acquired, Pending, PC, Holding
    <3>2. CASE AcquireCancelled(r)
      BY <3>2, WakeInOrder DEF IInv, AcquireCancelled, Pending, PC, Holding, Calling
    <3> QED BY <2>3, <3>1, <3>2
  <2>4. CASE Return(r) \/ ReconnectFails(r) \/ HandlerCancelled(r)
    <3>1. Wake(r, "finished", value + 1, 1) /\ pc[r] \in Calling
      BY <2>4 DEF Return, ReconnectFails, HandlerCancelled, Exit, Calling
    <3> QED BY <3>1, WakeInOrder DEF IInv, Pending, PC, Holding, Calling
  <2> QED BY <1>5, <2>1, <2>2, <2>3, <2>4 DEF RequestStep
<1> QED BY <1>3, <1>4, <1>5 DEF Next

\* No request of a connection is given its slot before one that came earlier
\* and is still waiting (the semaphore of dispatcher.py 54, 65-74).
THEOREM FirstComeFirstServed == Spec => NoOvertaking
<1>1. IInv /\ [Next]_vars => [InOrder]_vars
  BY StepInOrder
<1> QED BY <1>1, Invariance, PTL DEF Spec, NoOvertaking, InOrder
-----------------------------------------------------------------------------
(* An idle connection is watched.                                          *)

\* While the watchdog is off and there is something to close, somebody will start
\* it again: a request in its handler, or one still on its way there.  As long as
\* nobody was cancelled there are two of those, because a slot that was handed over
\* comes with a watchdog started and only one more request can have stopped it.
Starters == \/ At(Calling) # {}
            \/ /\ cancelled = {} => \E r, s \in At(Queueing) : r # s
               /\ \A c \in cancelled : cancelled = {c} => At(Queueing) \ cancelled # {}
WatchInv == /\ \A r \in cancelled : pc[r] # "new"
            /\ IdleTimeout /\ registered /\ session = "up" /\ timer = "off" => Starters

\* Waking only moves waiters, beside the request that leaves.
LEMMA WakeMoves ==
  ASSUME TypeOK, NEW r \in Requests, NEW to, NEW v, NEW k, Wake(r, to, v, k)
  PROVE  /\ pc'[r] = to
         /\ \A x \in Requests \ {r} :
              pc'[x] = pc[x] \/ (pc[x] = "waiting" /\ pc'[x] = "granted")
<1>1. PICK G \in SUBSET Requests :
        /\ FirstPending(G, k)
        /\ pc' = [y \in Requests |-> IF y = r THEN to
                                     ELSE IF y \in G THEN "granted" ELSE pc[y]]
  BY DEF Wake
<1>2. \A y \in G : pc[y] = "waiting"
  BY <1>1 DEF FirstPending, Pending
<1> QED BY <1>1, <1>2

\* A semaphore that is locked has a holder or somebody in its queue.
LEMMA LockedByOther ==
  ASSUME IInv, Locked
  PROVE  \E x \in Requests : pc[x] \in InFlight
<1>1. CASE value = 0
  <2>1. Holders # {}
    <3>1. Cardinality(Holders) = MaxConcurrency
      BY <1>1, HoldersFinite, LifecycleAssumption DEF IInv, SlotAccounting, LifecycleAssumption
    <3>2. Cardinality({}) = 0
      BY FS_EmptySet
    <3> QED BY <3>1, <3>2, LifecycleAssumption DEF LifecycleAssumption
  <2> QED BY <2>1 DEF Holders, At, InFlight
<1>2. CASE value # 0
  <2>1. PICK i \in DOMAIN waiters : TRUE
    BY <1>2 DEF Locked
  <2>2. waiters[i] \in Requests
    <3>1. waiters \in Seq(Requests)
      BY DEF IInv, TypeOK
    <3> QED BY <2>1, <3>1, ElementOfSeq, LenProperties
  <2>3. pc[waiters[i]] \in {"waiting", "granted"}
    BY <2>1, <2>2 DEF IInv, QueueIsExact, InQueue
  <2> QED BY <2>2, <2>3 DEF InFlight, Holding
<1> QED BY <1>1, <1>2

\* A step that stops no watchdog and moves nobody but out of "new".
LEMMA StartersStay ==
  ASSUME WatchInv, cancelled' = cancelled, registered' => registered,
         timer' = "off" => timer = "off", session' = "up" => session = "up",
         \A x \in Requests : /\ pc[x] \in Calling => pc'[x] \in Calling
                             /\ pc[x] \in Queueing => pc'[x] \in Queueing
                             /\ pc[x] # "new" => pc'[x] # "new",
         cancelled \subseteq Requests
  PROVE  WatchInv'
<1>1. At(Calling) \subseteq At(Calling)' /\ At(Queueing) \subseteq At(Queueing)'
  BY DEF At
<1>2. Starters => Starters'
  BY <1>1 DEF Starters
<1> QED BY <1>2 DEF WatchInv

\* A request in its handler will start it.
LEMMA CallerStarts ==
  ASSUME NEW r \in Requests, pc'[r] \in Calling, cancelled' = cancelled,
         \A x \in cancelled : pc'[x] # "new"
  PROVE  WatchInv'
<1>1. r \in At(Calling)'
  BY DEF At
<1> QED BY <1>1 DEF WatchInv, Starters

LEMMA WatchNext ==
  ASSUME IInv, WatchInv, [Next]_vars
  PROVE  WatchInv'
<1>1. pc \in [Requests -> PC] /\ cancelled \subseteq Requests /\ IsFiniteSet(cancelled)
  BY LifecycleAssumption, FS_Subset DEF IInv, TypeOK, LifecycleAssumption
<1>2. \A x \in cancelled : pc[x] # "new"
  BY DEF WatchInv
<1>3. ASSUME NEW r \in Requests, NEW s, Exit(r, s)
      PROVE  WatchInv'
  <2>1. /\ pc'[r] = "finished"
        /\ \A x \in Requests \ {r} :
             pc'[x] = pc[x] \/ (pc[x] = "waiting" /\ pc'[x] = "granted")
    BY <1>3, WakeMoves DEF IInv, Exit
  <2>2. \A x \in cancelled : pc'[x] # "new"
    BY <1>1, <1>2, <2>1
  <2>3. cancelled' = cancelled /\ (IdleTimeout => timer' # "off")
    BY <1>3 DEF Exit, TimerReset
  <2> QED BY <2>2, <2>3 DEF WatchInv
<1>4. CASE UNCHANGED vars \/ Terminated
  BY <1>1, <1>4, StartersStay DEF vars, Terminated
<1>5. CASE Watchdog \/ Disconnect \/ Closing \/ BackendDrops
  <2>1. CASE Watchdog
    BY <1>1, <2>1, StartersStay DEF Watchdog, WatchdogExpires, WatchdogDisconnects, WatchInv
  <2>2. CASE Disconnect
    BY <1>2, <2>2 DEF Disconnect, WatchInv
  <2>3. CASE Closing \/ BackendDrops
    BY <1>1, <2>3, StartersStay DEF Closing, Disconnected, DisconnectCancelled, BackendDrops
  <2> QED BY <1>5, <2>1, <2>2, <2>3
<1>6. ASSUME NEW r \in Requests, Reject(r) \/ Enter(r) \/ RequestStep(r) \/ Cancel(r)
      PROVE  WatchInv'
  <2>1. CASE Reject(r)
    BY <1>1, <2>1, StartersStay DEF Reject, Calling, Queueing
  <2>2. CASE Enter(r) /\ Locked /\ pc' = [pc EXCEPT ![r] = "waiting"]
    <3>1. PICK x \in Requests : pc[x] \in InFlight
      BY <2>2, LockedByOther
    <3>2. pc[r] = "new" /\ cancelled' = cancelled
      BY <2>2 DEF Enter
    <3>3. x # r /\ pc'[x] = pc[x] /\ pc'[r] = "waiting" /\ r \notin cancelled
      BY <1>1, <1>2, <2>2, <3>1, <3>2 DEF InFlight, Holding, Calling
    <3>4. \A y \in cancelled : pc'[y] # "new"
      BY <1>1, <1>2, <2>2, <3>2
    <3>5. r \in At(Queueing)' /\ (x \in At(Calling)' \/ x \in At(Queueing)')
      BY <3>1, <3>3 DEF At, InFlight, Holding, Queueing
    <3>6. Starters'
      BY <3>2, <3>3, <3>5 DEF Starters
    <3> QED BY <3>2, <3>4, <3>6 DEF WatchInv
  <2>3. CASE Enter(r) /\ pc' = [pc EXCEPT ![r] = "executing"]
    <3>1. pc'[r] \in Calling /\ cancelled' = cancelled /\ \A x \in cancelled : pc'[x] # "new"
      BY <1>1, <1>2, <2>3 DEF Enter, Calling
    <3> QED BY <3>1, CallerStarts
  <2>4. CASE Acquired(r)
    <3>1. /\ pc'[r] = "executing"
          /\ \A x \in Requests \ {r} :
               pc'[x] = pc[x] \/ (pc[x] = "waiting" /\ pc'[x] = "granted")
      BY <2>4, WakeMoves DEF IInv, Acquired
    <3>2. pc'[r] \in Calling /\ cancelled' = cancelled /\ \A x \in cancelled : pc'[x] # "new"
      BY <1>1, <1>2, <2>4, <3>1 DEF Acquired, Calling
    <3> QED BY <3>2, CallerStarts
  <2>5. CASE AcquireCancelled(r)
    <3>1. /\ pc[r] \in Queueing /\ r \in cancelled
          /\ UNCHANGED <<cancelled, timer, registered, session>>
      BY <2>5 DEF AcquireCancelled, Queueing
    <3>2. /\ pc'[r] = "finished"
          /\ \A x \in Requests \ {r} :
               pc'[x] = pc[x] \/ (pc[x] = "waiting" /\ pc'[x] = "granted")
      BY <2>5, WakeMoves DEF IInv, AcquireCancelled
    <3>3. /\ At(Calling) \subseteq At(Calling)'
          /\ At(Queueing) \ cancelled \subseteq At(Queueing)' \ cancelled
      BY <3>1, <3>2 DEF At, Calling, Queueing
    <3>4. Starters => Starters'
      BY <3>1, <3>3 DEF Starters
    <3>5. \A x \in cancelled : pc'[x] # "new"
      BY <1>1, <1>2, <3>2
    <3> QED BY <3>1, <3>4, <3>5 DEF WatchInv
  <2>6. CASE ConnectionLost(r)
    BY <1>1, <2>6, StartersStay DEF ConnectionLost, Calling, Queueing
  <2>7. CASE Reconnected(r)
    <3>1. pc'[r] \in Calling /\ cancelled' = cancelled /\ \A x \in cancelled : pc'[x] # "new"
      BY <1>1, <1>2, <2>7 DEF Reconnected, Calling
    <3> QED BY <3>1, CallerStarts
  <2>8. CASE Return(r) \/ ReconnectFails(r) \/ HandlerCancelled(r)
    BY <1>3, <2>8 DEF Return, ReconnectFails, HandlerCancelled
  <2>9. CASE Cancel(r)
    <3>1. /\ pc[r] \in InFlight /\ r \notin cancelled /\ cancelled' = cancelled \cup {r}
          /\ UNCHANGED <<pc, timer, registered, session>>
      BY <2>9 DEF Cancel
    <3>2. \A x \in cancelled' : pc'[x] # "new"
      BY <1>2, <3>1 DEF InFlight, Holding, Calling
    <3>3. At(Calling)' = At(Calling) /\ At(Queueing)' = At(Queueing)
      BY <3>1 DEF At
    <3>4. ASSUME Starters PROVE Starters'
      <4>1. CASE At(Calling) # {}
        BY <3>3, <4>1 DEF Starters
      <4>2. CASE cancelled = {} /\ \E x, y \in At(Queueing) : x # y
        <5>1. At(Queueing) \ {r} # {}
          BY <4>2
        <5> QED BY <3>1, <3>3, <4>2, <5>1 DEF Starters
      <4>3. CASE cancelled # {}
        <5>1. \A c : cancelled' # {c}
          BY <3>1, <4>3
        <5> QED BY <3>1, <5>1 DEF Starters
      <4> QED BY <3>4, <4>1, <4>2, <4>3 DEF Starters
    <3> QED BY <3>1, <3>2, <3>4 DEF WatchInv
  <2> QED BY <1>6, <2>1, <2>2, <2>3, <2>4, <2>5, <2>6, <2>7, <2>8, <2>9 DEF RequestStep, Enter
<1> QED BY <1>4, <1>5, <1>6 DEF Next

\* A connection that is idle and up has its watchdog running, unless two of its
\* requests were cancelled (dispatcher.py 76-125).
THEOREM IdleConnectionIsWatched == Spec => []IdleIsWatched
<1>1. Init => WatchInv
  BY DEF Init, WatchInv
<1>2. IInv /\ WatchInv /\ [Next]_vars => WatchInv'
  BY WatchNext
<1>3. IInv /\ WatchInv => IdleIsWatched
  <2> SUFFICES ASSUME IInv, WatchInv, IdleTimeout, registered, Busy = {}, session = "up",
                      Cardinality(cancelled) <= 1, timer = "off"
               PROVE  FALSE
    BY DEF IInv, TypeOK, IdleIsWatched
  <2>1. At(Calling) = {} /\ At(Queueing) = {}
    BY DEF Busy, At, InFlight, Holding, Queueing
  <2>2. cancelled # {} /\ \A c \in cancelled : cancelled # {c}
    BY <2>1 DEF WatchInv, Starters
  <2>3. PICK c \in cancelled, d \in cancelled : c # d
    BY <2>2
  <2>4. IsFiniteSet(cancelled)
    BY LifecycleAssumption, FS_Subset DEF IInv, TypeOK, LifecycleAssumption
  <2>5. Cardinality(cancelled \ {c}) = Cardinality(cancelled) - 1 /\ IsFiniteSet(cancelled \ {c})
    BY <2>3, <2>4, FS_RemoveElement
  <2>6. Cardinality(cancelled \ {c}) # 0
    BY <2>3, <2>5, FS_EmptySet
  <2>7. Cardinality(cancelled \ {c}) \in Nat /\ Cardinality(cancelled) \in Nat
    BY <2>4, <2>5, FS_CardinalityType
  <2> QED BY <2>5, <2>6, <2>7
<1> QED BY <1>1, <1>2, <1>3, Invariance, PTL DEF Spec
=============================================================================
