---------------------------- MODULE ExploreCache ----------------------------
(***************************************************************************)
(* The explore cache, explore_cache.py, as the dispatcher drives it:       *)
(* explore.list, explore.describe and explore.find served from memory or   *)
(* fetched, reset_cache, and the JSON file that outlives the session.      *)
(*                                                                         *)
(* What the database holds is abstracted to a version that grows when its  *)
(* objects change; a cached result is the version it was read at.  The     *)
(* connections here have equal params, so they share one cache file.       *)
(*                                                                         *)
(* A request changes the memory and then writes the file, and between the  *)
(* two only the database moves or the process ends: `writing' is the write *)
(* that is due.  `resets' and `saved' are history: what has been reset on  *)
(* a connection, and on the one whose memory the file holds.               *)
(***************************************************************************)
EXTENDS Naturals, FiniteSets, SequencesExt

CONSTANTS Conns,           \* connections opened with the same params
          Catalog,         \* path -> the describe result found there
          Asked,           \* the calls that are made: <<"list" or "describe", path>>
                           \* and <<"find", search>>
          MaxConcurrency,  \* requests a connection runs at once
          MaxVersion,      \* bound on the number of changes to the database
          PersistMayFail,  \* may writing the file fail (disk full, no access)?
          Unread           \* a fetch that has not read the database yet

Paths == DOMAIN Catalog
Slots == 1..MaxConcurrency

\* shape: an entity (table), a group of describable children, one such leaf, or
\* nothing describable.  names: an entity's columns or a group's children;
\* references: the entity's foreign key columns.
ASSUME CacheAssumption ==
  /\ MaxConcurrency \in Nat \ {0} /\ MaxVersion \in Nat
  /\ PersistMayFail \in BOOLEAN /\ Unread \notin Nat
  /\ \A p \in Paths : Catalog[p].shape \in {"entity", "group", "leaf", "none"}
  /\ \A k \in Asked : k[1] = "find" \/ k[2] \in Paths

VARIABLES db,       \* the database's version
          mem,      \* mem[c]: the cache of connection c, a map from keys
          file,     \* the JSON file: a map from keys, empty if there is none
          open,     \* the connections that are open
          fetches,  \* inner driver calls under way
          writing,  \* the write that is due: empty, or one record
          resets,   \* history: resets[c].at, the database's version at the last
                    \* reset of each path; resets[c].missed, the entries stored by
                    \* a call that such a reset overtook
          saved     \* history: resets[c] of the connection that last wrote the file

vars == <<db, mem, file, open, fetches, writing, resets, saved>>

NoReset == [at |-> [p \in Paths |-> 0], missed |-> {}]

Init == /\ db = 0
        /\ mem = [c \in Conns |-> <<>>]
        /\ file = <<>>
        /\ open = {}
        /\ fetches = {}
        /\ writing = {}
        /\ resets = [c \in Conns |-> NoReset]
        /\ saved = NoReset

-----------------------------------------------------------------------------
(* ConnectionCache.                                                        *)

IsFind(k) == k[1] = "find"
\* At or below the path, or one of its ancestors: those embed what is below.
EvictedBelow(k, p) == IsFind(k) \/ IsPrefix(p, k[2]) \* faulty: ancestors stay
Evicted(k, p) == IsFind(k) \/ IsPrefix(p, k[2]) \/ IsPrefix(k[2], p)
AfterReset(m, p) == [k \in {x \in DOMAIN m : ~Evicted(x, p)} |-> m[k]]

\* What the file holds after a write: reset unlinks it when no list or describe
\* entry is left.
LeavesNone(m) == \A k \in DOMAIN m : IsFind(k)
Persisted(m) == m
PersistedIfAny(m) == IF LeavesNone(m)   \* faulty variant: the file is left
                     THEN file ELSE Persisted(m)
PersistedReset(m) == IF LeavesNone(m) THEN <<>> ELSE Persisted(m)

\* The entries one describe result is stored under.
DescribeKey(p, group, n) == <<"describe", p \o group \o <<n>>>>
Entries(k) ==
  {k} \cup
  (IF k[1] = "describe"
   THEN LET d == Catalog[k[2]] IN
        CASE d.shape = "entity" ->
               {DescribeKey(k[2], <<"columns">>, n) : n \in d.names} \cup
               {DescribeKey(k[2], <<"relationships">>, n) : n \in d.references}
          [] d.shape = "group" -> {DescribeKey(k[2], <<>>, n) : n \in d.names}
          [] OTHER -> {}
   ELSE {})
Cacheable(k) == k[1] = "describe" => Catalog[k[2]].shape # "none"

Stored(m, k, v) == [x \in DOMAIN m \cup Entries(k) |->
                      IF x \in Entries(k) THEN v ELSE m[x]]

-----------------------------------------------------------------------------
(* Sessions: a connection loads the file when it opens.  A closed one keeps *)
(* serving the requests that were in flight.                                *)

InFlight(c) == {f \in fetches : f.conn = c}
Open(c) == /\ writing = {} /\ c \notin open /\ InFlight(c) = {}
           /\ open' = open \cup {c}
           /\ mem' = [mem EXCEPT ![c] = file]
           /\ resets' = [resets EXCEPT ![c] = saved]
           /\ UNCHANGED <<db, file, fetches, writing, saved>>

Close(c) == /\ writing = {} /\ c \in open
            /\ open' = open \ {c}
            /\ UNCHANGED <<db, mem, file, fetches, writing, resets, saved>>

\* The process ends.  A write of the file is a rename, so it is never torn.
Crash == /\ open' = {} /\ fetches' = {} /\ writing' = {}
         /\ mem' = [c \in Conns |-> <<>>]
         /\ UNCHANGED <<db, file, resets, saved>>

DatabaseChanges == /\ db < MaxVersion /\ db' = db + 1
                   /\ UNCHANGED <<mem, file, open, fetches, writing, resets, saved>>

-----------------------------------------------------------------------------
(* A request, up to the inner driver's call: a hit is answered at once.    *)

FreeSlots(c) == IF writing = {} /\ c \in open
                THEN Slots \ {f.slot : f \in InFlight(c)} ELSE {}
FetchOnMiss(fs, c, s, k, m) ==
  fetches' = IF k \in DOMAIN m THEN fs
             ELSE fs \cup {[conn |-> c, slot |-> s, key |-> k, version |-> Unread,
                            late |-> {}]}

Request(c, k) == /\ \E s \in FreeSlots(c) : FetchOnMiss(fetches, c, s, k, mem[c])
                 /\ UNCHANGED <<db, mem, file, open, writing, resets, saved>>

\* explore.list and explore.describe with reset_cache set.  A call that has read the
\* database and not returned is overtaken: it will store what it read.
Overtaken(c, p) == {IF f.conn = c /\ f.version # Unread /\ f.version < db
                    THEN [f EXCEPT !.late = @ \cup {p}] ELSE f : f \in fetches}
RequestReset(c, k) ==
  LET p == k[2] IN
  /\ FreeSlots(c) # {} /\ ~IsFind(k)
  /\ mem' = [mem EXCEPT ![c] = AfterReset(@, p)]
  /\ fetches' = Overtaken(c, p)
  /\ writing' = {[conn |-> c, reset |-> TRUE, key |-> k]}
  /\ resets' = [resets EXCEPT ![c] = [at     |-> [@.at EXCEPT ![p] = db],
                                      missed |-> {x \in @.missed : x[2] # p}]]
  /\ UNCHANGED <<db, file, open, saved>>

ReadDatabase(f) ==
  /\ f \in fetches /\ f.version = Unread
  /\ fetches' = (fetches \ {f}) \cup {[f EXCEPT !.version = db]}
  /\ UNCHANGED <<db, mem, file, open, writing, resets, saved>>

\* The result is stored when the call returns.
Store(f) ==
  /\ writing = {} /\ f \in fetches /\ f.version # Unread /\ Cacheable(f.key)
  /\ fetches' = fetches \ {f}
  /\ mem' = [mem EXCEPT ![f.conn] = Stored(@, f.key, f.version)]
  /\ writing' = {[conn |-> f.conn, reset |-> FALSE, key |-> f.key]}
  /\ resets' = [resets EXCEPT ![f.conn].missed =
                  {x \in @ : x[1] \notin Entries(f.key)} \cup (Entries(f.key) \X f.late)]
  /\ UNCHANGED <<db, file, open, saved>>

\* A describe that found nothing is not cached; neither is a call that raised
\* or was cancelled.
StoreNothing(f) == /\ writing = {} /\ f \in fetches
                   /\ fetches' = fetches \ {f}
                   /\ UNCHANGED <<db, mem, file, open, writing, resets, saved>>

\* The second half of RequestReset and Store.  The request of a reset goes on.
FetchAfter(w) == IF w.reset
                 THEN \E s \in Slots \ {f.slot : f \in InFlight(w.conn)} :
                        FetchOnMiss(fetches, w.conn, s, w.key, mem[w.conn])
                 ELSE UNCHANGED fetches
WriteFile(w) == LET m == mem[w.conn] IN
                /\ w \in writing /\ writing' = {}
                /\ file' = IF w.reset THEN PersistedReset(m) ELSE Persisted(m)
                /\ saved' = resets[w.conn]
                /\ FetchAfter(w)
                /\ UNCHANGED <<db, mem, open, resets>>

\* _persist logs its errors; that of the unlink ends the request.
WriteFails(w) == /\ PersistMayFail /\ w \in writing /\ writing' = {}
                 /\ IF w.reset /\ LeavesNone(mem[w.conn])
                    THEN UNCHANGED fetches ELSE FetchAfter(w)
                 /\ UNCHANGED <<db, mem, file, open, resets, saved>>

Next == \/ \E c \in Conns : \/ Open(c) \/ Close(c)
                            \/ \E k \in Asked : Request(c, k) \/ RequestReset(c, k)
        \/ \E f \in fetches : ReadDatabase(f) \/ Store(f) \/ StoreNothing(f)
        \/ \E w \in writing : WriteFile(w) \/ WriteFails(w)
        \/ Crash \/ DatabaseChanges

Spec == Init /\ [][Next]_vars

-----------------------------------------------------------------------------
\* What a reset of p promises to refetch (ConnectionCache.reset, 226-240): the
\* entries at or below p, those of its ancestors, and every find.
Promised(p, k) == k[1] = "find" \/ IsPrefix(p, k[2]) \/ IsPrefix(k[2], p)
Newer(m, h, k, p) == Promised(p, k) => m[k] >= h.at[p]
Fresh(m, h) == \A k \in DOMAIN m, p \in Paths : Newer(m, h, k, p) \/ <<k, p>> \in h.missed

\* README 125, "reset_cache ... to invalidate the cache for that connection": after a
\* reset, what was cached before it is not served again, in whatever order requests,
\* resets and stores interleave.  The exception is what a call stores that had read
\* the database before the reset and returns after it.
ResetReaches == \A c \in open : Fresh(mem[c], resets[c])

\* TestDiskCache (test_disk_cache.py 106), "reset_cache forces fresh data in next
\* session": what was reset on the connection that last managed to write the file
\* is not in the file, up to the same exception; whether the process was ended
\* between a change and its write, writes failed, or other connections had written.
ResetOutlivesSession == Fresh(file, saved)

\* README 125 without the exception.  Two requests at once refute it.
ResetIsFinal == \A c \in open : \A k \in DOMAIN mem[c], p \in Paths :
                  Newer(mem[c], resets[c], k, p)
=============================================================================
