-------------------------- MODULE ExploreCacheProofs --------------------------
(***************************************************************************)
(* The explore cache for any tree of paths, any calls on any number of     *)
(* connections over one file, any concurrency, and writes that may fail:   *)
(* what a reset dropped comes back neither in the session nor from the     *)
(* file, but for what a call stores that the reset overtook.               *)
(*                                                                         *)
(* The inductive part: a call that has read the database is at least as    *)
(* new as every reset on its connection that has not overtaken it.         *)
(***************************************************************************)
EXTENDS ExploreCache, TLAPS

AllKeys == UNION {Entries(k) : k \in Asked}
History == [at : [Paths -> Nat], missed : SUBSET (AllKeys \X Paths)]
Fetch   == [conn : Conns, slot : Slots, key : Asked, version : Nat \cup {Unread},
            late : SUBSET Paths]
Write   == [conn : Conns, reset : BOOLEAN, key : Asked]

TypeOK == /\ db \in Nat
          /\ mem = [c \in Conns |-> mem[c]]
          /\ open \subseteq Conns
          /\ fetches \subseteq Fetch
          /\ writing \subseteq Write
          /\ resets \in [Conns -> History]
          /\ saved \in History

\* No reset is later than the database's version.
Past(h) == \A p \in Paths : h.at[p] <= db
\* A call that has read the database.
Current(f) == f.version # Unread =>
                \A p \in Paths : f.version >= resets[f.conn].at[p] \/ p \in f.late

CacheInv == /\ TypeOK
            /\ \A c \in Conns : Past(resets[c]) /\ Fresh(mem[c], resets[c])
            /\ Past(saved) /\ Fresh(file, saved)
            /\ \A f \in fetches : Current(f)

LEMMA EmptyIsFresh == \A h : Fresh(<<>>, h)
BY DEF Fresh

\* What a reset of p leaves is fresh: all it promises to refetch is gone.
LEMMA AfterResetIsFresh ==
  ASSUME NEW m, NEW h \in History, Fresh(m, h), NEW p \in Paths, NEW n \in History,
         n.at = [h.at EXCEPT ![p] = db], n.missed = {x \in h.missed : x[2] # p}
  PROVE  Fresh(AfterReset(m, p), n)
<1> DEFINE a == AfterReset(m, p)
<1>1. /\ DOMAIN a \subseteq DOMAIN m
      /\ \A k \in DOMAIN a : a[k] = m[k] /\ ~Promised(p, k)
  BY DEF AfterReset, Evicted, Promised, IsFind
<1> HIDE DEF a
<1>2. ASSUME NEW k \in DOMAIN a, NEW q \in Paths
      PROVE  Newer(a, n, k, q) \/ <<k, q>> \in n.missed
  <2>1. CASE q = p
    BY <1>1, <2>1 DEF Newer
  <2>2. CASE q # p
    <3>1. n.at[q] = h.at[q]
      BY <2>2 DEF History
    <3>2. <<k, q>> \in h.missed => <<k, q>> \in n.missed
      BY <2>2
    <3>3. Newer(m, h, k, q) \/ <<k, q>> \in h.missed
      BY <1>1 DEF Fresh
    <3>4. a[k] = m[k]
      BY <1>1
    <3> QED BY <3>1, <3>2, <3>3, <3>4 DEF Newer
  <2> QED BY <2>1, <2>2
<1>3. Fresh(a, n)
  BY <1>2 DEF Fresh
<1> QED BY <1>3 DEF a

\* A call that is current stores what is fresh: newer than the resets, or among what
\* they missed.
LEMMA StoredIsFresh ==
  ASSUME NEW m, NEW h \in History, Fresh(m, h), NEW f \in Fetch, f.version # Unread,
         \A p \in Paths : f.version >= h.at[p] \/ p \in f.late,
         NEW n \in History, n.at = h.at,
         n.missed = {x \in h.missed : x[1] \notin Entries(f.key)}
                      \cup (Entries(f.key) \X f.late)
  PROVE  Fresh(Stored(m, f.key, f.version), n)
<1> DEFINE E == Entries(f.key)
           s == Stored(m, f.key, f.version)
<1>1. /\ DOMAIN s = DOMAIN m \cup E
      /\ \A k \in E : s[k] = f.version
      /\ \A k \in DOMAIN s : k \notin E => k \in DOMAIN m /\ s[k] = m[k]
  BY DEF Stored
<1> HIDE DEF s
<1>2. n.missed = {x \in h.missed : x[1] \notin E} \cup (E \X f.late)
  OBVIOUS
<1> HIDE DEF E
<1>3. ASSUME NEW k \in DOMAIN s, NEW p \in Paths
      PROVE  Newer(s, n, k, p) \/ <<k, p>> \in n.missed
  <2>1. CASE k \in E
    <3>1. CASE p \in f.late
      BY <1>2, <2>1, <3>1
    <3>2. CASE f.version >= h.at[p]
      BY <1>1, <2>1, <3>2 DEF Newer
    <3> QED BY <3>1, <3>2
  <2>2. CASE k \notin E
    <3>1. k \in DOMAIN m /\ s[k] = m[k]
      BY <1>1, <2>2
    <3>2. Newer(m, h, k, p) \/ <<k, p>> \in h.missed
      BY <3>1 DEF Fresh
    <3>3. <<k, p>> \in h.missed => <<k, p>> \in n.missed
      BY <1>2, <2>2
    <3> QED BY <3>1, <3>2, <3>3 DEF Newer
  <2> QED BY <2>1, <2>2
<1>4. Fresh(s, n)
  BY <1>3 DEF Fresh
<1> QED BY <1>4 DEF s

LEMMA NoResetIsHistory == NoReset \in History /\ \A p \in Paths : NoReset.at[p] = 0
BY DEF NoReset, History

LEMMA CacheInit == Init => CacheInv
<1> SUFFICES ASSUME Init PROVE CacheInv
  OBVIOUS
<1>1. TypeOK
  BY NoResetIsHistory DEF Init, TypeOK
<1>2. \A c \in Conns : Past(resets[c]) /\ Fresh(mem[c], resets[c])
  BY NoResetIsHistory, EmptyIsFresh DEF Init, Past
<1>3. Past(saved) /\ Fresh(file, saved)
  BY NoResetIsHistory, EmptyIsFresh DEF Init, Past
<1> QED BY <1>1, <1>2, <1>3 DEF CacheInv, Init

-----------------------------------------------------------------------------
\* A call that goes to the database, for a key that is not cached.
LEMMA MissIsCurrent ==
  ASSUME NEW fs, fs \subseteq Fetch, \A f \in fs : Current(f),
         NEW c \in Conns, NEW s \in Slots, NEW k \in Asked, NEW m,
         FetchOnMiss(fs, c, s, k, m)
  PROVE  fetches' \subseteq Fetch /\ \A f \in fetches' : Current(f)
<1> DEFINE n == [conn |-> c, slot |-> s, key |-> k, version |-> Unread, late |-> {}]
<1>1. n \in Fetch /\ Current(n)
  BY DEF Fetch, Current
<1>2. fetches' = fs \/ fetches' = fs \cup {n}
  BY DEF FetchOnMiss
<1> HIDE DEF n
<1> QED BY <1>1, <1>2

LEMMA AfterIsCurrent ==
  ASSUME CacheInv, NEW w \in writing, FetchAfter(w)
  PROVE  fetches' \subseteq Fetch /\ \A f \in fetches' : Current(f)
<1>1. /\ fetches \subseteq Fetch /\ w.conn \in Conns /\ w.key \in Asked
      /\ \A f \in fetches : Current(f)
  BY DEF CacheInv, TypeOK, Write
<1>2. CASE w.reset
  <2>1. PICK s \in Slots : FetchOnMiss(fetches, w.conn, s, w.key, mem[w.conn])
    BY <1>2 DEF FetchAfter
  <2> QED BY <1>1, <2>1, MissIsCurrent
<1>3. CASE ~w.reset
  BY <1>1, <1>3 DEF FetchAfter
<1> QED BY <1>2, <1>3

\* An action that neither resets nor stores: what is fresh stays fresh.
LEMMA CacheKept ==
  ASSUME CacheInv, resets' = resets, db' = db \/ db' = db + 1, open' \subseteq Conns,
         mem' = mem \/ mem' = [c \in Conns |-> <<>>],
         saved' \in History, Past(saved'), Fresh(file', saved'),
         writing' \subseteq writing, fetches' \subseteq Fetch,
         \A f \in fetches' : Current(f)
  PROVE  CacheInv'
<1>1. /\ TypeOK /\ \A c \in Conns : Past(resets[c]) /\ Fresh(mem[c], resets[c])
  BY DEF CacheInv
<1>2. TypeOK'
  BY <1>1 DEF TypeOK
<1>3. \A f : Current(f)' <=> Current(f)
  BY DEF Current
<1>4. \A h \in History : Past(h) => Past(h)'
  <2> SUFFICES ASSUME NEW h \in History, Past(h), NEW p \in Paths PROVE h.at[p] <= db'
    BY DEF Past
  <2>1. h.at[p] \in Nat /\ h.at[p] <= db /\ db \in Nat
    BY <1>1 DEF TypeOK, Past, History
  <2> QED BY <2>1
<1>5. ASSUME NEW c \in Conns PROVE Past(resets[c])' /\ Fresh(mem[c], resets[c])'
  <2>1. Past(resets[c])'
    <3>1. resets[c] \in History /\ resets'[c] = resets[c]
      BY <1>1 DEF TypeOK
    <3>2. \A h : h = resets[c] => Past(h)'
      BY <1>1, <1>4, <3>1
    <3> QED BY <3>1, <3>2 DEF Past
  <2>2. mem'[c] = mem[c] \/ mem'[c] = <<>>
    OBVIOUS
  <2>3. Fresh(mem'[c], resets'[c])
    BY <1>1, <2>2, EmptyIsFresh
  <2> QED BY <2>1, <2>3 DEF Fresh, Newer
<1>6. Past(saved)' /\ Fresh(file, saved)'
  <2>1. \A h : h = saved' => Past(h)'
    BY <1>4
  <2> QED BY <2>1 DEF Past, Fresh, Newer
<1> QED BY <1>2, <1>3, <1>5, <1>6 DEF CacheInv

LEMMA OpenKeeps ==
  ASSUME CacheInv, NEW c \in Conns, Open(c)
  PROVE  CacheInv'
<1>1. /\ TypeOK /\ \A d \in Conns : Past(resets[d]) /\ Fresh(mem[d], resets[d])
      /\ Past(saved) /\ Fresh(file, saved)
      /\ \A f \in fetches : Current(f)
  BY DEF CacheInv
<1>2. /\ mem' = [mem EXCEPT ![c] = file] /\ resets' = [resets EXCEPT ![c] = saved]
      /\ open' = open \cup {c} /\ InFlight(c) = {}
      /\ UNCHANGED <<db, file, fetches, writing, saved>>
  BY DEF Open
<1>3. TypeOK'
  BY <1>1, <1>2 DEF TypeOK
<1>4. ASSUME NEW d \in Conns
      PROVE  (\A p \in Paths : resets'[d].at[p] <= db') /\ Fresh(mem'[d], resets'[d])
  <2>1. CASE d = c
    <3>1. mem'[d] = file /\ resets'[d] = saved
      BY <1>1, <1>2, <2>1 DEF TypeOK
    <3> QED BY <1>1, <1>2, <3>1 DEF Past
  <2>2. CASE d # c
    <3>1. mem'[d] = mem[d] /\ resets'[d] = resets[d]
      BY <1>1, <1>2, <2>2 DEF TypeOK
    <3> QED BY <1>1, <1>2, <3>1 DEF Past
  <2> QED BY <2>1, <2>2
<1>5. ASSUME NEW f \in fetches PROVE Current(f)'
  <2>1. f.conn # c /\ f.conn \in Conns
    BY <1>1, <1>2 DEF InFlight, TypeOK, Fetch
  <2>2. resets'[f.conn] = resets[f.conn]
    BY <1>1, <1>2, <2>1 DEF TypeOK
  <2> QED BY <1>1, <2>2 DEF Current
<1>6. Past(saved)' /\ Fresh(file, saved)'
  BY <1>1, <1>2 DEF Past, Fresh, Newer
<1>7. \A d \in Conns : Past(resets[d])' /\ Fresh(mem[d], resets[d])'
  BY <1>4 DEF Past, Fresh, Newer
<1> QED BY <1>2, <1>3, <1>5, <1>6, <1>7 DEF CacheInv

LEMMA ResetKeeps ==
  ASSUME CacheInv, CacheAssumption, NEW c \in Conns, NEW k \in Asked, RequestReset(c, k)
  PROVE  CacheInv'
<1> DEFINE p == k[2]
           n == [at     |-> [resets[c].at EXCEPT ![p] = db],
                 missed |-> {x \in resets[c].missed : x[2] # p}]
<1>1. /\ TypeOK /\ \A d \in Conns : Past(resets[d]) /\ Fresh(mem[d], resets[d])
      /\ Past(saved) /\ Fresh(file, saved)
      /\ \A f \in fetches : Current(f)
  BY DEF CacheInv
<1>2. /\ mem' = [mem EXCEPT ![c] = AfterReset(mem[c], p)] /\ fetches' = Overtaken(c, p)
      /\ writing' = {[conn |-> c, reset |-> TRUE, key |-> k]}
      /\ resets' = [resets EXCEPT ![c] = n]
      /\ UNCHANGED <<db, file, open, saved>>
  BY <1>1 DEF RequestReset, TypeOK
<1>3. p \in Paths
  BY DEF RequestReset, IsFind, CacheAssumption
<1>4. resets[c] \in History /\ db \in Nat
  BY <1>1 DEF TypeOK
<1>5. /\ n \in History
      /\ n.at = [resets[c].at EXCEPT ![p] = db]
      /\ n.missed = {x \in resets[c].missed : x[2] # p}
  BY <1>3, <1>4 DEF History
<1>6. \A q \in Paths : n.at[q] <= db /\ (q # p => n.at[q] = resets[c].at[q])
                       /\ n.at[q] \in Nat
  BY <1>1, <1>3, <1>4, <1>5 DEF History, Past
<1>7. Fresh(AfterReset(mem[c], p), n)
  BY <1>1, <1>3, <1>4, <1>5, AfterResetIsFresh
<1> HIDE DEF n, p
<1>8. ASSUME NEW f \in fetches'
      PROVE  f \in Fetch /\ Current(f)'
  <2>1. PICK g \in fetches : f = IF g.conn = c /\ g.version # Unread /\ g.version < db
                                 THEN [g EXCEPT !.late = @ \cup {p}] ELSE g
    BY <1>2 DEF Overtaken
  <2>2. g \in Fetch /\ Current(g)
    BY <1>1 DEF TypeOK
  <2>3. f \in Fetch /\ f.conn = g.conn /\ f.version = g.version /\ g.late \subseteq f.late
    BY <1>3, <2>1, <2>2 DEF Fetch
  <2>4. CASE g.conn = c
    <3>1. resets'[f.conn] = n
      BY <1>1, <1>2, <2>3, <2>4 DEF TypeOK
    <3>2. ASSUME f.version # Unread, NEW q \in Paths
          PROVE  f.version >= n.at[q] \/ q \in f.late
      <4>1. CASE q # p
        BY <1>6, <2>2, <2>3, <2>4, <3>2, <4>1 DEF Current
      <4>2. CASE q = p /\ g.version < db
        BY <2>1, <2>2, <2>3, <2>4, <3>2, <4>2 DEF Fetch
      <4>3. CASE ~(g.version < db)
        <5>1. g.version \in Nat
          BY <2>2, <2>3, <3>2 DEF Fetch
        <5> QED BY <1>4, <1>6, <2>3, <4>3, <5>1
      <4> QED BY <4>1, <4>2, <4>3
    <3> QED BY <2>3, <3>1, <3>2 DEF Current
  <2>5. CASE g.conn # c
    <3>1. f = g
      BY <2>1, <2>5
    <3>2. resets'[f.conn] = resets[f.conn]
      BY <1>1, <1>2, <2>2, <2>5, <3>1 DEF TypeOK, Fetch
    <3> QED BY <2>2, <3>1, <3>2 DEF Current
  <2> QED BY <2>3, <2>4, <2>5
<1>9. TypeOK'
  <2>1. writing' \subseteq Write
    BY <1>2 DEF Write
  <2>2. resets' \in [Conns -> History]
    BY <1>1, <1>2, <1>5 DEF TypeOK
  <2> QED BY <1>1, <1>2, <1>8, <2>1, <2>2 DEF TypeOK
<1>10. ASSUME NEW d \in Conns
       PROVE  (\A q \in Paths : resets'[d].at[q] <= db') /\ Fresh(mem'[d], resets'[d])
  <2>1. CASE d = c
    <3>1. mem'[d] = AfterReset(mem[c], p) /\ resets'[d] = n
      BY <1>1, <1>2, <2>1 DEF TypeOK
    <3> QED BY <1>2, <1>6, <1>7, <3>1
  <2>2. CASE d # c
    <3>1. mem'[d] = mem[d] /\ resets'[d] = resets[d]
      BY <1>1, <1>2, <2>2 DEF TypeOK
    <3> QED BY <1>1, <1>2, <3>1 DEF Past
  <2> QED BY <2>1, <2>2
<1>11. \A d \in Conns : Past(resets[d])' /\ Fresh(mem[d], resets[d])'
  BY <1>10 DEF Past, Fresh, Newer
<1>12. Past(saved)' /\ Fresh(file, saved)'
  BY <1>1, <1>2 DEF Past, Fresh, Newer
<1> QED BY <1>8, <1>9, <1>11, <1>12 DEF CacheInv

LEMMA StoreKeeps ==
  ASSUME CacheInv, NEW f \in fetches, Store(f)
  PROVE  CacheInv'
<1> DEFINE c == f.conn
           m == Stored(mem[c], f.key, f.version)
           n == [resets[c] EXCEPT !.missed =
                   {x \in @ : x[1] \notin Entries(f.key)} \cup (Entries(f.key) \X f.late)]
<1>1. /\ TypeOK /\ \A d \in Conns : Past(resets[d]) /\ Fresh(mem[d], resets[d])
      /\ Past(saved) /\ Fresh(file, saved)
      /\ \A g \in fetches : Current(g)
  BY DEF CacheInv
<1>2. f \in Fetch /\ c \in Conns /\ resets[c] \in History
  BY <1>1 DEF TypeOK, Fetch
<1>3. /\ fetches' = fetches \ {f} /\ f.version # Unread
      /\ mem' = [mem EXCEPT ![c] = m]
      /\ writing' = {[conn |-> c, reset |-> FALSE, key |-> f.key]}
      /\ resets' = [resets EXCEPT ![c] = n]
      /\ UNCHANGED <<db, file, open, saved>>
  BY <1>1 DEF Store, TypeOK
<1>4. /\ n \in History /\ n.at = resets[c].at
      /\ n.missed = {x \in resets[c].missed : x[1] \notin Entries(f.key)}
                      \cup (Entries(f.key) \X f.late)
  <2>1. Entries(f.key) \subseteq AllKeys
    BY <1>2 DEF AllKeys, Fetch
  <2>2. f.late \subseteq Paths
    BY <1>2 DEF Fetch
  <2> QED BY <1>2, <2>1, <2>2 DEF History
<1>5. Fresh(m, n)
  BY <1>1, <1>2, <1>3, <1>4, StoredIsFresh DEF Current
<1> HIDE DEF m, n, c
<1>6. ASSUME NEW d \in Conns
      PROVE  /\ \A q \in Paths : resets'[d].at[q] <= db'
             /\ Fresh(mem'[d], resets'[d])
             /\ resets'[d].at = resets[d].at
  <2>1. CASE d = c
    <3>1. mem'[d] = m /\ resets'[d] = n
      BY <1>1, <1>3, <2>1 DEF TypeOK
    <3> QED BY <1>1, <1>3, <1>4, <1>5, <2>1, <3>1 DEF Past
  <2>2. CASE d # c
    <3>1. mem'[d] = mem[d] /\ resets'[d] = resets[d]
      BY <1>1, <1>3, <2>2 DEF TypeOK
    <3> QED BY <1>1, <1>3, <3>1 DEF Past
  <2> QED BY <2>1, <2>2
<1>7. TypeOK'
  <2>1. writing' \subseteq Write
    BY <1>2, <1>3 DEF Write, Fetch
  <2>2. resets' \in [Conns -> History]
    BY <1>1, <1>3, <1>4 DEF TypeOK
  <2> QED BY <1>1, <1>3, <2>1, <2>2 DEF TypeOK
<1>8. \A g \in fetches' : Current(g)'
  <2> SUFFICES ASSUME NEW g \in fetches' PROVE Current(g)'
    OBVIOUS
  <2>1. Current(g) /\ g.conn \in Conns
    BY <1>1, <1>3 DEF TypeOK, Fetch
  <2>2. resets'[g.conn].at = resets[g.conn].at
    BY <1>6, <2>1
  <2> QED BY <2>1, <2>2 DEF Current
<1>9. \A d \in Conns : Past(resets[d])' /\ Fresh(mem[d], resets[d])'
  BY <1>6 DEF Past, Fresh, Newer
<1>10. Past(saved)' /\ Fresh(file, saved)'
  BY <1>1, <1>3 DEF Past, Fresh, Newer
<1> QED BY <1>7, <1>8, <1>9, <1>10 DEF CacheInv

LEMMA WriteKeeps ==
  ASSUME CacheInv, NEW w \in writing, WriteFile(w)
  PROVE  CacheInv'
<1> DEFINE m == mem[w.conn]
<1>1. /\ TypeOK /\ w.conn \in Conns
      /\ \A d \in Conns : Past(resets[d]) /\ Fresh(mem[d], resets[d])
  BY DEF CacheInv, TypeOK, Write
<1>2. file' = m \/ file' = <<>>
  BY DEF WriteFile, PersistedReset, Persisted
<1>3. /\ saved' = resets[w.conn] /\ FetchAfter(w) /\ writing' = {}
      /\ UNCHANGED <<db, mem, open, resets>>
  BY DEF WriteFile
<1>4. saved' \in History /\ Past(saved') /\ Fresh(file', saved')
  BY <1>1, <1>2, <1>3, EmptyIsFresh DEF TypeOK
<1>5. fetches' \subseteq Fetch /\ \A f \in fetches' : Current(f)
  BY <1>3, AfterIsCurrent
<1>6. open' \subseteq Conns /\ writing' \subseteq writing
  BY <1>1, <1>3 DEF TypeOK
<1> QED BY <1>3, <1>4, <1>5, <1>6, CacheKept

LEMMA CacheNext ==
  ASSUME CacheInv, CacheAssumption, [Next]_vars
  PROVE  CacheInv'
<1>1. /\ saved \in History /\ Past(saved) /\ Fresh(file, saved)
      /\ fetches \subseteq Fetch /\ \A f \in fetches : Current(f)
      /\ open \subseteq Conns /\ db \in Nat
  BY DEF CacheInv, TypeOK
<1>2. ASSUME NEW c \in Conns, Close(c) PROVE CacheInv'
  BY <1>1, <1>2, CacheKept DEF Close
<1>3. ASSUME NEW c \in Conns, NEW k \in Asked, Request(c, k) PROVE CacheInv'
  <2>1. PICK s \in FreeSlots(c) : FetchOnMiss(fetches, c, s, k, mem[c])
    BY <1>3 DEF Request
  <2>2. s \in Slots
    BY DEF FreeSlots
  <2>3. fetches' \subseteq Fetch /\ \A f \in fetches' : Current(f)
    BY <1>1, <2>1, <2>2, MissIsCurrent
  <2> QED BY <1>1, <1>3, <2>3, CacheKept DEF Request
<1>4. ASSUME NEW f \in fetches, ReadDatabase(f) PROVE CacheInv'
  <2> DEFINE g == [f EXCEPT !.version = db]
  <2>1. fetches' = (fetches \ {f}) \cup {g} /\ f \in Fetch
    BY <1>1, <1>4 DEF ReadDatabase
  <2>2. g \in Fetch /\ g.version = db /\ g.conn \in Conns
    BY <1>1, <2>1 DEF Fetch
  <2> HIDE DEF g
  <2>3. Current(g)
    <3>1. Past(resets[g.conn]) /\ resets[g.conn] \in History
      BY <2>2 DEF CacheInv, TypeOK
    <3> QED BY <1>1, <2>2, <3>1 DEF Current, Past, History
  <2>4. fetches' \subseteq Fetch /\ \A h \in fetches' : Current(h)
    BY <1>1, <2>1, <2>2, <2>3
  <2> QED BY <1>1, <1>4, <2>4, CacheKept DEF ReadDatabase
<1>5. ASSUME NEW f \in fetches, StoreNothing(f) PROVE CacheInv'
  BY <1>1, <1>5, CacheKept DEF StoreNothing
<1>6. ASSUME NEW w \in writing, WriteFails(w) PROVE CacheInv'
  <2>1. fetches' = fetches \/ FetchAfter(w)
    BY <1>6 DEF WriteFails
  <2>2. fetches' \subseteq Fetch /\ \A f \in fetches' : Current(f)
    BY <1>1, <2>1, AfterIsCurrent
  <2> QED BY <1>1, <1>6, <2>2, CacheKept DEF WriteFails
<1>7. CASE Crash
  BY <1>1, <1>7, CacheKept DEF Crash
<1>8. CASE DatabaseChanges
  BY <1>1, <1>8, CacheKept DEF DatabaseChanges
<1>9. CASE UNCHANGED vars
  BY <1>1, <1>9, CacheKept DEF vars
<1> QED
  BY <1>2, <1>3, <1>4, <1>5, <1>6, <1>7, <1>8, <1>9, OpenKeeps, ResetKeeps, StoreKeeps,
     WriteKeeps DEF Next

-----------------------------------------------------------------------------
\* What was cached before a reset is not served after it on that connection (README,
\* "reset_cache"), for any concurrency; a result that the reset overtook on its way
\* from the database is the one exception (explore_cache.py 86), and it is counted.
THEOREM ResetHolds == Spec => []ResetReaches
<1>1. Init => CacheInv
  BY CacheInit
<1>2. CacheInv /\ [Next]_vars => CacheInv'
  BY CacheNext, CacheAssumption
<1>3. CacheInv => ResetReaches
  BY DEF CacheInv, TypeOK, ResetReaches
<1> QED BY <1>1, <1>2, <1>3, PTL DEF Spec

\* And it is not in the file when the connection that has reset it was the last to
\* write, so that a later session does not bring it back (test_disk_cache.py 106):
\* for any number of connections over the file, writes that fail, and the end of the
\* process between a change in memory and its write.
THEOREM ResetOutlives == Spec => []ResetOutlivesSession
<1>1. Init => CacheInv
  BY CacheInit
<1>2. CacheInv /\ [Next]_vars => CacheInv'
  BY CacheNext, CacheAssumption
<1>3. CacheInv => ResetOutlivesSession
  BY DEF CacheInv, ResetOutlivesSession
<1> QED BY <1>1, <1>2, <1>3, PTL DEF Spec

=============================================================================
