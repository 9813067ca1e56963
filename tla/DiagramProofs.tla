-------------------------- MODULE DiagramProofs ----------------------------
(***************************************************************************)
(* The walk of a diagram, for any tables, any database and any MAX_DEPTH:  *)
(* every table within reach is drawn once (EveryTableOnce), every pair of   *)
(* tables has its one edge (EveryPairJoined), and an edge tells its key     *)
(* (EdgesTellTheirKey), through the layout and the placement that follow.   *)
(* Every swap of the layout leaves fewer edges between the sides (SwapsPay).*)
(* Joined tables end up in different columns (JoinedAreApart), and parts    *)
(* that the hub divides on one side of it each (PartsKeepTheirSide).        *)
(* On every rung of the ladder boxes stay apart (BoxesKeepTheirDistance)    *)
(* and have room for a stub (EveryBoxCanAnchor).                            *)
(***************************************************************************)
EXTENDS DiagramPlace, FiniteSetTheorems, WellFoundedInduction, NaturalsInduction, TLAPS

(***************************************************************************)
(* The inductive invariant.                                                *)

NodeType  == [path : Tables, unavailable : BOOLEAN]
EntryType == [path : Tables, id : Nat, depth : Nat]
RefType   == [fk : ForeignKey, side : Side]
Met(t)    == visited[t] # 0
Queued    == {queue[n].path : n \in DOMAIN queue}

\* Node ids and `visited' are inverse to each other, what waits is known under its
\* id, and what is left of the table being expanded is of its references.
ById == \A i \in 1..Len(nodes) :
          nodes[i] = Node(nodes[i].path) /\ visited[nodes[i].path] = i
ByPath == \A t \in Tables :
            Met(t) => visited[t] \in 1..Len(nodes) /\ nodes[visited[t]].path = t
NodesInv ==
  /\ db \in Databases
  /\ nodes \in Seq(NodeType) /\ queue \in Seq(EntryType)
  /\ cur \in EntryType /\ todo \in Seq(RefType)
  /\ visited \in [Tables -> Nat]
  /\ ById /\ ByPath
  /\ \A n \in DOMAIN queue : /\ visited[queue[n].path] = queue[n].id /\ queue[n].id # 0
                             /\ queue[n].path \in db.resolved
  /\ todo # <<>> => /\ visited[cur.path] = cur.id /\ cur.id # 0
                    /\ cur.path \in db.resolved
                    /\ ToSet(todo) \subseteq ToSet(db.refs[cur.path])
  /\ stage = "describe" => nodes = <<>> /\ edges = <<>> /\ seen_pairs = {}
  /\ stage # "discover" => queue = <<>> /\ todo = <<>>

\* One edge for each pair seen, between the nodes of its key's tables.
Ends(edge) == {edge.source, edge.target}
TellsItsKey(edge, ns, d) ==
  LET owner == IF edge.fk_side = "source" THEN edge.source ELSE edge.target
      other == IF edge.fk_side = "source" THEN edge.target ELSE edge.source
  IN  /\ owner \in 1..Len(ns) /\ other \in 1..Len(ns) /\ owner # other
      /\ ns[owner].path = edge.fk.owner /\ ns[other].path = edge.fk.ref
      /\ edge.fk_nullable <=> edge.fk.owner \in d.resolved /\ edge.fk.nullable
EdgeType == [source : Nat, target : Nat, fk_side : Side, fk : ForeignKey,
             fk_nullable : BOOLEAN]
EdgesInv ==
  /\ edges \in Seq(EdgeType)
  /\ \A e \in DOMAIN edges : TellsItsKey(edges[e], nodes, db)
  /\ seen_pairs = {Ends(edges[e]) : e \in DOMAIN edges}
  /\ \A e, f \in DOMAIN edges : Ends(edges[e]) = Ends(edges[f]) => e = f

\* The walk goes level by level: what waits is of the level being expanded or of
\* the next, in this order; every table of the level is known, and of a table
\* that has left the queue every reference is followed or about to be.
OnLevel(entry, within) ==
  /\ entry.depth < MaxDepth /\ entry.path \in within[entry.depth]
  /\ entry.depth > 0 => entry.path \notin within[entry.depth - 1]
LevelInv ==
  /\ OnLevel(cur, Within)
  /\ \A n \in DOMAIN queue :
       OnLevel(queue[n], Within) /\ queue[n].depth \in cur.depth..cur.depth + 1
  /\ \A m, n \in DOMAIN queue : m < n => queue[m].depth <= queue[n].depth
SeenInv ==
  /\ \A t \in Within[cur.depth] : Met(t)
  /\ \A t \in Tables : Met(t) => t \in Within[MaxDepth]
Followed(t, r, known, pairs) ==
  OtherEnd(r) = t \/ (known[OtherEnd(r)] # 0 /\ {known[t], known[OtherEnd(r)]} \in pairs)
DoneInv ==
  \A t \in (Within[MaxDepth - 1] \cap db.resolved) \ Queued :
    Met(t) => \A r \in ToSet(db.refs[t]) :
                Followed(t, r, visited, seen_pairs) \/ (t = cur.path /\ r \in ToSet(todo))
WalkInv ==
  /\ stage = "describe" => cur = Entry(Source, 0, 0)
  /\ stage \notin {"describe", "failed"} => LevelInv /\ SeenInv /\ DoneInv

IInv == NodesInv /\ EdgesInv /\ WalkInv

-----------------------------------------------------------------------------
(* The levels.  They are defined by recursion: that the function exists, and *)
(* that levels grow, is shown from a least number where it would not.        *)

LEMMA LeastIs ==
  ASSUME NEW S, S \subseteq Nat, S # {}
  PROVE  \E m \in S : \A n \in S : m <= n
<1> DEFINE R == OpToRel(<, Nat)
<1>1. \A x, y \in Nat : y < x => <<y, x>> \in R
  BY DEF OpToRel
<1>2. IsWellFoundedOn(R, Nat)
  BY NatLessThanWellFounded
<1> HIDE DEF R
<1>3. PICK m \in S : \A n \in S : <<n, m>> \notin R
  BY <1>2, WFMin
<1>4. \A n \in S : ~(n < m) /\ m \in Nat /\ n \in Nat
  BY <1>1, <1>3
<1> QED BY <1>4

LEMMA LevelsExist ==
  ASSUME NEW N \in Nat
  PROVE  \E g : g = [k \in 0..N |-> IF k = 0 THEN {Source} ELSE Reach(g[k - 1])]
<1> DEFINE Has(n) == \E g : g = [k \in 0..n |-> IF k = 0 THEN {Source} ELSE Reach(g[k - 1])]
           Bad == {n \in Nat : ~Has(n)}
<1> SUFFICES ASSUME Bad # {} PROVE FALSE
  OBVIOUS
<1>1. PICK m \in Bad : \A n \in Bad : m <= n
  <2>1. Bad \subseteq Nat
    OBVIOUS
  <2> HIDE DEF Bad
  <2> QED BY <2>1, LeastIs
<1>2. CASE m = 0
  <2> DEFINE g == [k \in 0..0 |-> {Source}]
  <2>1. g = [k \in 0..0 |-> IF k = 0 THEN {Source} ELSE Reach(g[k - 1])]
    OBVIOUS
  <2> HIDE DEF g
  <2> QED BY <1>1, <1>2, <2>1
<1>3. CASE m # 0
  <2>0. m \in Nat
    OBVIOUS
  <2>1. m \in Nat /\ m - 1 \in Nat /\ m - 1 \notin Bad
    <3> HIDE DEF Bad
    <3> QED BY <1>1, <1>3, <2>0
  <2>2. PICK g : g = [k \in 0..m - 1 |-> IF k = 0 THEN {Source} ELSE Reach(g[k - 1])]
    BY <2>1
  <2> DEFINE h == [k \in 0..m |-> IF k = m THEN Reach(g[m - 1]) ELSE g[k]]
  <2>3. ASSUME NEW k \in 0..m
        PROVE  h[k] = IF k = 0 THEN {Source} ELSE Reach(h[k - 1])
    <3>1. CASE k = m
      BY <1>3, <2>1, <3>1
    <3>2. CASE k # m
      <4>1. k \in 0..m - 1
        BY <2>1, <3>2
      <4>2. \A i \in 0..m - 1 : g[i] = IF i = 0 THEN {Source} ELSE Reach(g[i - 1])
        BY <2>2, Zenon
      <4>3. g[k] = IF k = 0 THEN {Source} ELSE Reach(g[k - 1])
        BY <4>1, <4>2
      <4> QED BY <2>1, <3>2, <4>1, <4>3
    <3> QED BY <3>1, <3>2
  <2>4. h = [k \in 0..m |-> IF k = 0 THEN {Source} ELSE Reach(h[k - 1])]
    <3>1. h = [k \in 0..m |-> h[k]]
      OBVIOUS
    <3> HIDE DEF h
    <3> QED BY <2>3, <3>1
  <2> HIDE DEF h
  <2>5. Has(m)
    BY <2>4
  <2> QED BY <1>1, <2>5
<1> QED BY <1>2, <1>3

LEMMA WithinIs ==
  /\ MaxDepth \in Nat \ {0}
  /\ Within[0] = {Source}
  /\ \A k \in 0..MaxDepth - 1 : Within[k + 1] = Reach(Within[k])
<1>1. MaxDepth \in Nat \ {0}
  BY GraphAssumption DEF GraphAssumption
<1>2. \E g : g = [k \in 0..MaxDepth |-> IF k = 0 THEN {Source} ELSE Reach(g[k - 1])]
  BY <1>1, LevelsExist
<1>3. Within = [k \in 0..MaxDepth |-> IF k = 0 THEN {Source} ELSE Reach(Within[k - 1])]
  BY <1>2 DEF Within
<1>4. \A k \in 0..MaxDepth : Within[k] = IF k = 0 THEN {Source} ELSE Reach(Within[k - 1])
  BY <1>3
<1>5. Within[0] = {Source}
  BY <1>1, <1>4
<1>6. ASSUME NEW k \in 0..MaxDepth - 1 PROVE Within[k + 1] = Reach(Within[k])
  <2>1. k + 1 \in 0..MaxDepth /\ k + 1 # 0 /\ (k + 1) - 1 = k
    BY <1>1
  <2> QED BY <1>4, <2>1
<1> QED BY <1>1, <1>5, <1>6

\* A level holds the one before, and what the references of that one lead to.
LEMMA LevelsGrow ==
  ASSUME NEW j \in 0..MaxDepth, NEW k \in j..MaxDepth
  PROVE  Within[j] \subseteq Within[k]
<1> DEFINE Bad == {n \in j..MaxDepth : ~(Within[j] \subseteq Within[n])}
<1> SUFFICES ASSUME Bad # {} PROVE FALSE
  OBVIOUS
<1>0. MaxDepth \in Nat
  BY WithinIs
<1>1. PICK m \in Bad : \A n \in Bad : m <= n
  <2>1. Bad \subseteq Nat
    BY <1>0
  <2> HIDE DEF Bad
  <2> QED BY <2>1, LeastIs
<1>2. m # j
  BY <1>1
<1>3. m - 1 \in j..MaxDepth /\ m - 1 \notin Bad /\ m - 1 \in 0..MaxDepth - 1 /\ (m - 1) + 1 = m
  BY <1>0, <1>1, <1>2
<1>4. Within[m] = Reach(Within[m - 1])
  BY <1>3, WithinIs
<1>5. Within[m - 1] \subseteq Within[m]
  BY <1>4 DEF Reach
<1> QED BY <1>1, <1>3, <1>5

LEMMA NextLevel ==
  ASSUME NEW k \in 0..MaxDepth - 1, NEW t \in Within[k], t \in db.resolved,
         NEW r \in ToSet(db.refs[t])
  PROVE  OtherEnd(r) \in Within[k + 1]
BY WithinIs DEF Reach, Listed

LEMMA FromLevel ==
  ASSUME NEW k \in 0..MaxDepth - 1, NEW u \in Within[k + 1], u \notin Within[k]
  PROVE  \E t \in Within[k] \cap db.resolved : \E r \in ToSet(db.refs[t]) : u = OtherEnd(r)
BY WithinIs DEF Reach, Listed

-----------------------------------------------------------------------------
(* The steps of the walk, and of what follows it.                           *)

LEMMA DatabaseIs ==
  ASSUME NodesInv, NEW t \in Tables
  PROVE  /\ db.refs[t] \in Seq(RefType) /\ db.resolved \subseteq Tables
         /\ \A r \in ToSet(db.refs[t]) :
              r \in RefType /\ t = IF r.side = "source" THEN r.fk.owner ELSE r.fk.ref
<1>1. /\ db.refs[t] \in Seq(RefType) /\ db.resolved \subseteq Tables
      /\ \A r \in ToSet(db.refs[t]) : t = IF r.side = "source" THEN r.fk.owner ELSE r.fk.ref
  BY GraphAssumption DEF GraphAssumption, NodesInv, RefType
<1>2. \A r \in ToSet(db.refs[t]) : r \in RefType
  BY <1>1 DEF ToSet
<1> QED BY <1>1, <1>2

LEMMA OtherEndIs ==
  ASSUME NEW r \in RefType
  PROVE  OtherEnd(r) \in Tables /\ r.fk \in ForeignKey /\ r.side \in Side
BY DEF OtherEnd, RefType, ForeignKey

\* The layout and the placement read the graph and leave it as it is.
LEMMA LaterIs ==
  ASSUME [Next]_vars, ~(GraphNext /\ UNCHANGED <<layoutVars, placeVars>>)
  PROVE  /\ UNCHANGED graphVars
         /\ \/ stage' = stage
            \/ /\ stage \notin {"describe", "discover", "failed"}
               /\ stage' \notin {"describe", "discover"}
<1>1. CASE LayoutStep
  BY <1>1 DEF LayoutStep, LayoutNext, SelectHub, PartitionSides, GrowBalanced, Grown, KlSwap,
     Swapped, SignColumns, BumpSameColumnEdges, OrderColumns
<1>2. CASE Place \/ Routed \/ NoRoute
  BY <1>2 DEF Place, Routed, NoRoute
<1>3. CASE Ended \/ UNCHANGED vars
  BY <1>3 DEF Ended, vars
<1> QED BY <1>1, <1>2, <1>3 DEF Next, Step, GraphStep

LEMMA SeqFacts ==
  ASSUME NEW T, NEW s \in Seq(T), s # <<>>
  PROVE  /\ Head(s) = s[1] /\ Head(s) \in T /\ Head(s) \in ToSet(s)
         /\ Tail(s) \in Seq(T) /\ Len(Tail(s)) = Len(s) - 1 /\ Len(s) \in Nat \ {0}
         /\ \A n \in 1..Len(s) - 1 : Tail(s)[n] = s[n + 1]
         /\ ToSet(Tail(s)) \subseteq ToSet(s)
         /\ ToSet(s) \subseteq ToSet(Tail(s)) \cup {Head(s)}
<1>1. /\ Head(s) = s[1] /\ Head(s) \in T
      /\ Tail(s) \in Seq(T) /\ Len(Tail(s)) = Len(s) - 1 /\ Len(s) \in Nat \ {0}
      /\ \A n \in 1..Len(s) - 1 : Tail(s)[n] = s[n + 1]
  OBVIOUS
<1>2. DOMAIN s = 1..Len(s) /\ DOMAIN Tail(s) = 1..Len(s) - 1
  BY <1>1
<1>3. Head(s) \in ToSet(s)
  BY <1>1, <1>2 DEF ToSet
<1>4. ToSet(Tail(s)) \subseteq ToSet(s)
  <2>1. \A n \in DOMAIN Tail(s) : n + 1 \in DOMAIN s /\ Tail(s)[n] = s[n + 1]
    BY <1>1, <1>2
  <2> QED BY <2>1 DEF ToSet
<1>5. ToSet(s) \subseteq ToSet(Tail(s)) \cup {Head(s)}
  <2>1. \A n \in DOMAIN s : n = 1 \/ (n - 1 \in DOMAIN Tail(s) /\ Tail(s)[n - 1] = s[n])
    BY <1>1, <1>2
  <2>2. ASSUME NEW x \in ToSet(s) PROVE x = Head(s) \/ x \in ToSet(Tail(s))
    <3>1. PICK n \in DOMAIN s : x = s[n]
      BY DEF ToSet
    <3>2. CASE n = 1
      BY <1>1, <3>1, <3>2
    <3>3. CASE n - 1 \in DOMAIN Tail(s) /\ Tail(s)[n - 1] = s[n]
      BY <3>1, <3>3 DEF ToSet
    <3> QED BY <2>1, <3>2, <3>3
  <2> QED BY <2>2
<1> QED BY <1>1, <1>3, <1>4, <1>5

LEMMA AppendIs ==
  ASSUME NEW T, NEW s \in Seq(T), NEW e \in T
  PROVE  /\ Append(s, e) \in Seq(T) /\ Len(Append(s, e)) = Len(s) + 1 /\ Len(s) \in Nat
         /\ DOMAIN s = 1..Len(s) /\ DOMAIN Append(s, e) = 1..Len(s) + 1
         /\ \A n \in 1..Len(s) : Append(s, e)[n] = s[n]
         /\ Append(s, e)[Len(s) + 1] = e
OBVIOUS

\* A reference is followed to table t: known, or new and given the next id.
FollowsTo(r, t) ==
  /\ stage = "discover" /\ r = Head(todo) /\ t = OtherEnd(r) /\ t # cur.path
  /\ r \in ToSet(db.refs[cur.path]) /\ cur.path \in db.resolved
  /\ cur.id = visited[cur.path] /\ cur.id \in 1..Len(nodes)
Known(t) == Met(t) /\ UNCHANGED <<visited, nodes, queue>>
New(t) ==
  /\ ~Met(t)
  /\ visited' = [visited EXCEPT ![t] = Len(nodes) + 1]
  /\ nodes' = Append(nodes, Node(t))
  /\ queue' = IF Expandable(t, cur.depth + 1)
              THEN Append(queue, Entry(t, Len(nodes) + 1, cur.depth + 1)) ELSE queue

LEMMA FollowIs ==
  ASSUME NodesInv, FollowReference
  PROVE  \E r \in RefType, t \in Tables :
           /\ FollowsTo(r, t) /\ (Known(t) \/ New(t)) /\ Join(r, visited'[t])
           /\ todo # <<>> /\ todo' = Tail(todo) /\ UNCHANGED <<stage, db, cur>>
<1>1. PICK r : r = Head(todo)
  OBVIOUS
<1>2. todo # <<>> /\ todo \in Seq(RefType) /\ stage = "discover"
  BY DEF FollowReference, NodesInv
<1>3. r \in RefType /\ r \in ToSet(todo)
  BY <1>1, <1>2, SeqFacts
<1>4. PICK t \in Tables : t = OtherEnd(r)
  BY <1>3, OtherEndIs
<1>5. FollowsTo(r, t)
  <2>1. /\ visited[cur.path] = cur.id /\ cur.id # 0 /\ cur.path \in Tables
        /\ cur.path \in db.resolved /\ ToSet(todo) \subseteq ToSet(db.refs[cur.path])
    BY <1>2 DEF NodesInv, EntryType
  <2>2. cur.id \in 1..Len(nodes)
    BY <2>1 DEF NodesInv, ByPath, Met
  <2> QED BY <1>1, <1>2, <1>3, <1>4, <2>1, <2>2 DEF FollowsTo, FollowReference
<1>6. Known(t) \/ New(t)
  BY <1>1, <1>4 DEF FollowReference, Meet, Known, New, Met
<1> QED BY <1>1, <1>2, <1>3, <1>4, <1>5, <1>6 DEF FollowReference

\* The nodes that were there keep their ids and paths; t has one afterwards.
LEMMA NodesGrow ==
  ASSUME NodesInv, NEW t \in Tables, Known(t) \/ New(t), db' = db
  PROVE  /\ Len(nodes) \in Nat /\ Len(nodes') \in {Len(nodes), Len(nodes) + 1}
         /\ nodes' \in Seq(NodeType) /\ visited' \in [Tables -> Nat]
         /\ \A i \in 1..Len(nodes) : nodes'[i] = nodes[i]
         /\ \A s \in Tables : Met(s) => visited'[s] = visited[s]
         /\ \A s \in Tables : visited'[s] # 0 <=> Met(s) \/ s = t
         /\ ById' /\ ByPath'
<1>1. CASE Known(t)
  <2>1. UNCHANGED <<visited, nodes, db>> /\ Met(t)
    BY <1>1 DEF Known
  <2>2. ById' /\ ByPath'
    BY <2>1 DEF NodesInv, ById, ByPath, Met, Node
  <2> QED BY <2>1, <2>2 DEF NodesInv, Met
<1>2. CASE New(t)
  <2> DEFINE e == Node(t)
  <2>1. e \in NodeType /\ e.path = t /\ e = [path |-> t, unavailable |-> t \notin db.resolved]
    BY DEF Node, NodeType
  <2>2. visited' = [visited EXCEPT ![t] = Len(nodes) + 1] /\ nodes' = Append(nodes, e) /\ ~Met(t)
    BY <1>2 DEF New
  <2> HIDE DEF e
  <2>3. /\ nodes' \in Seq(NodeType) /\ Len(nodes') = Len(nodes) + 1 /\ Len(nodes) \in Nat
        /\ \A i \in 1..Len(nodes) : nodes'[i] = nodes[i]
        /\ nodes'[Len(nodes) + 1] = e
    BY <2>1, <2>2, AppendIs DEF NodesInv
  <2>4. /\ visited' \in [Tables -> Nat] /\ visited'[t] = Len(nodes) + 1
        /\ \A s \in Tables \ {t} : visited'[s] = visited[s]
    BY <2>2, <2>3 DEF NodesInv
  <2>5. ASSUME NEW i \in 1..Len(nodes) PROVE nodes[i].path \in Tables \ {t}
    <3>1. nodes[i] \in NodeType
      BY <2>3 DEF NodesInv
    <3> QED BY <2>2, <3>1 DEF NodesInv, ById, NodeType, Met
  <2>6. ById'
    <3> SUFFICES ASSUME NEW i \in 1..Len(nodes')
                 PROVE  /\ nodes'[i] = [path |-> nodes'[i].path,
                                        unavailable |-> nodes'[i].path \notin db.resolved]
                        /\ visited'[nodes'[i].path] = i
      BY DEF ById, Node
    <3>1. CASE i = Len(nodes) + 1
      BY <2>1, <2>3, <2>4, <3>1
    <3>2. CASE i \in 1..Len(nodes)
      <4>1. nodes'[i] = nodes[i] /\ nodes[i].path \in Tables \ {t}
        BY <2>3, <2>5, <3>2
      <4>2. nodes[i] = Node(nodes[i].path) /\ visited[nodes[i].path] = i
        BY <3>2 DEF NodesInv, ById
      <4> QED BY <2>4, <4>1, <4>2 DEF Node
    <3> QED BY <2>3, <3>1, <3>2
  <2>7. ByPath'
    <3> SUFFICES ASSUME NEW s \in Tables, visited'[s] # 0
                 PROVE  visited'[s] \in 1..Len(nodes') /\ nodes'[visited'[s]].path = s
      BY DEF ByPath, Met
    <3>1. CASE s = t
      BY <2>1, <2>3, <2>4, <3>1
    <3>2. CASE s # t
      <4>1. visited'[s] = visited[s]
        BY <2>4, <3>2
      <4>2. visited[s] \in 1..Len(nodes) /\ nodes[visited[s]].path = s
        BY <4>1 DEF NodesInv, ByPath, Met
      <4> QED BY <2>3, <4>1, <4>2
    <3> QED BY <3>1, <3>2
  <2> QED BY <2>2, <2>3, <2>4, <2>6, <2>7 DEF Met
<1> QED BY <1>1, <1>2

LEMMA QueueGrows ==
  ASSUME NodesInv, NEW t \in Tables, Known(t) \/ New(t)
  PROVE  \/ /\ queue' = queue
            /\ Met(t) \/ t \notin db.resolved \/ ~(cur.depth + 1 < MaxDepth)
         \/ \E e \in EntryType :
              /\ e.path = t /\ e.id = Len(nodes) + 1 /\ e.depth = cur.depth + 1
              /\ queue' = Append(queue, e) /\ visited'[t] = e.id
              /\ ~Met(t) /\ t \in db.resolved /\ cur.depth + 1 < MaxDepth
<1>1. CASE Known(t)
  BY <1>1 DEF Known
<1>2. CASE New(t) /\ ~Expandable(t, cur.depth + 1)
  BY <1>2 DEF New, Expandable
<1>3. CASE New(t) /\ Expandable(t, cur.depth + 1)
  <2> DEFINE e == Entry(t, Len(nodes) + 1, cur.depth + 1)
  <2>1. Len(nodes) \in Nat /\ cur.depth \in Nat /\ visited \in [Tables -> Nat]
    <3>1. nodes \in Seq(NodeType) /\ cur \in EntryType /\ visited \in [Tables -> Nat]
      BY DEF NodesInv
    <3>2. Len(nodes) \in Nat
      BY <3>1
    <3>3. cur.depth \in Nat
      BY <3>1 DEF EntryType
    <3> QED BY <3>1, <3>2, <3>3
  <2>2. /\ e \in EntryType /\ e.path = t /\ e.id = Len(nodes) + 1 /\ e.depth = cur.depth + 1
        /\ queue' = Append(queue, e) /\ visited'[t] = e.id
    BY <1>3, <2>1 DEF Entry, EntryType, New
  <2>3. ~Met(t) /\ t \in db.resolved /\ cur.depth + 1 < MaxDepth
    BY <1>3 DEF New, Expandable
  <2> HIDE DEF e
  <2> QED BY <2>2, <2>3
<1> QED BY <1>1, <1>2, <1>3

LEMMA FollowKeepsNodes ==
  ASSUME NodesInv, FollowReference
  PROVE  NodesInv'
<1>1. PICK r \in RefType, t \in Tables :
        /\ FollowsTo(r, t) /\ (Known(t) \/ New(t)) /\ Join(r, visited'[t])
        /\ todo # <<>> /\ todo' = Tail(todo) /\ UNCHANGED <<stage, db, cur>>
  BY FollowIs
<1>2. /\ nodes' \in Seq(NodeType) /\ visited' \in [Tables -> Nat] /\ ById' /\ ByPath'
      /\ \A s \in Tables : Met(s) => visited'[s] = visited[s]
  BY <1>1, NodesGrow
<1>3. todo' \in Seq(RefType) /\ ToSet(todo') \subseteq ToSet(todo)
  BY <1>1, SeqFacts DEF NodesInv
<1>4. /\ visited'[cur.path] = cur.id /\ cur.id # 0 /\ cur.path \in Tables
      /\ cur.path \in db.resolved /\ ToSet(todo') \subseteq ToSet(db.refs[cur.path])
  BY <1>1, <1>2, <1>3 DEF NodesInv, Met, EntryType
<1>5. /\ queue' \in Seq(EntryType)
      /\ \A n \in DOMAIN queue' : /\ visited'[queue'[n].path] = queue'[n].id /\ queue'[n].id # 0
                                  /\ queue'[n].path \in db.resolved
  <2>1. /\ queue \in Seq(EntryType)
        /\ \A n \in DOMAIN queue : /\ visited'[queue[n].path] = queue[n].id /\ queue[n].id # 0
                                   /\ queue[n].path \in db.resolved
    <3>1. queue \in Seq(EntryType) /\ \A n \in DOMAIN queue : queue[n] \in EntryType
      BY DEF NodesInv
    <3> QED BY <1>2, <3>1 DEF NodesInv, Met, EntryType
  <2>2. CASE queue' = queue
    BY <2>1, <2>2
  <2>3. ASSUME NEW e \in EntryType, e.path = t, e.id = Len(nodes) + 1, queue' = Append(queue, e),
               visited'[t] = e.id, t \in db.resolved
        PROVE  <1>5!1 /\ <1>5!2
    <3>1. /\ queue' \in Seq(EntryType) /\ Len(queue) \in Nat
          /\ DOMAIN queue = 1..Len(queue) /\ DOMAIN queue' = 1..Len(queue) + 1
          /\ \A n \in 1..Len(queue) : queue'[n] = queue[n]
          /\ queue'[Len(queue) + 1] = e
      BY <2>1, <2>3, AppendIs
    <3>2. e.id # 0
      BY <2>3 DEF NodesInv
    <3>3. ASSUME NEW n \in DOMAIN queue'
          PROVE  /\ visited'[queue'[n].path] = queue'[n].id /\ queue'[n].id # 0
                 /\ queue'[n].path \in db.resolved
      <4>1. CASE n = Len(queue) + 1
        BY <2>3, <3>1, <3>2, <4>1
      <4>2. CASE n \in 1..Len(queue)
        BY <2>1, <3>1, <4>2
      <4> QED BY <3>1, <4>1, <4>2
    <3> QED BY <3>1, <3>3
  <2> QED BY <1>1, <2>2, <2>3, QueueGrows
<1>6. /\ stage' = "discover" /\ db' \in Databases /\ cur' \in EntryType
  BY <1>1 DEF FollowsTo, NodesInv
<1> QED BY <1>1, <1>2, <1>3, <1>4, <1>5, <1>6 DEF NodesInv

LEMMA OthersKeepNodes ==
  ASSUME NodesInv, DescribeSource \/ NextTable \/ SelfReference \/ Discovered
  PROVE  NodesInv'
<1>1. CASE DescribeSource
  <2>1. /\ nodes = <<>> /\ queue = <<>> /\ todo = <<>> /\ stage' # "describe"
        /\ todo' = todo /\ db' = db /\ cur' = cur /\ Source \in Tables
    BY <1>1, GraphAssumption DEF DescribeSource, NodesInv, GraphAssumption
  <2>2. CASE Source \in db.resolved
    <3> DEFINE n == Node(Source)
               q == Entry(Source, 1, 0)
    <3>1. /\ n \in NodeType /\ n.path = Source
          /\ q \in EntryType /\ q.path = Source /\ q.id = 1
      BY <2>1 DEF Node, NodeType, Entry, EntryType
    <3>2. /\ nodes' = <<n>> /\ queue' = <<q>> /\ visited' = [visited EXCEPT ![Source] = 1]
          /\ stage' = "discover"
      BY <1>1, <2>2 DEF DescribeSource
    <3>3. \A t \in Tables : ~Met(t)
      BY <2>1 DEF NodesInv, ByPath
    <3>4. n = Node(Source)' /\ n = [path |-> Source, unavailable |-> Source \notin db.resolved]
      BY <2>1 DEF Node
    <3> HIDE DEF n, q
    <3>5. /\ nodes' \in Seq(NodeType) /\ queue' \in Seq(EntryType)
          /\ Len(nodes') = 1 /\ nodes'[1] = n /\ DOMAIN queue' = {1} /\ queue'[1] = q
      BY <3>1, <3>2
    <3>6. /\ visited' \in [Tables -> Nat] /\ visited'[Source] = 1
          /\ \A t \in Tables \ {Source} : visited'[t] = 0
      BY <2>1, <3>2, <3>3 DEF NodesInv, Met
    <3>7. ById'
      BY <2>1, <3>1, <3>4, <3>5, <3>6 DEF ById, Node
    <3>8. ByPath'
      BY <3>1, <3>5, <3>6 DEF ByPath, Met
    <3> QED BY <2>1, <2>2, <3>1, <3>2, <3>5, <3>6, <3>7, <3>8 DEF NodesInv
  <2>3. CASE Source \notin db.resolved
    <3>1. UNCHANGED <<nodes, visited, queue>>
      BY <1>1, <2>3 DEF DescribeSource
    <3> QED BY <2>1, <3>1 DEF NodesInv, ById, ByPath, Met, Node
  <2> QED BY <2>2, <2>3
<1>2. CASE NextTable
  <2>1. /\ stage = "discover" /\ queue # <<>> /\ cur' = Head(queue) /\ queue' = Tail(queue)
        /\ todo' = db.refs[cur'.path]
        /\ UNCHANGED <<stage, db, nodes, edges, seen_pairs, visited>>
    BY <1>2 DEF NextTable
  <2>2. /\ queue' \in Seq(EntryType) /\ cur' \in EntryType /\ cur' = queue[1]
        /\ Len(queue) \in Nat \ {0} /\ Len(queue') = Len(queue) - 1
        /\ \A n \in 1..Len(queue) - 1 : queue'[n] = queue[n + 1]
    BY <2>1, SeqFacts DEF NodesInv
  <2>3. DOMAIN queue = 1..Len(queue) /\ DOMAIN queue' = 1..Len(queue) - 1
    BY <2>2 DEF NodesInv
  <2>4. \A n \in DOMAIN queue' : n + 1 \in DOMAIN queue /\ queue'[n] = queue[n + 1]
    BY <2>2, <2>3
  <2>5. visited[cur'.path] = cur'.id /\ cur'.id # 0 /\ cur'.path \in db.resolved
    BY <2>2, <2>3 DEF NodesInv
  <2>6. todo' \in Seq(RefType)
    BY <2>1, <2>2, DatabaseIs DEF EntryType
  <2>7. ById' /\ ByPath'
    BY <2>1 DEF NodesInv, ById, ByPath, Met, Node
  <2> QED BY <2>1, <2>2, <2>4, <2>5, <2>6, <2>7 DEF NodesInv
<1>3. CASE SelfReference
  <2>1. todo' \in Seq(RefType) /\ ToSet(todo') \subseteq ToSet(todo) /\ todo # <<>>
    BY <1>3, SeqFacts DEF SelfReference, NodesInv
  <2>2. UNCHANGED <<stage, db, nodes, edges, seen_pairs, visited, queue, cur>>
    BY <1>3 DEF SelfReference
  <2>3. ById' /\ ByPath'
    BY <2>2 DEF NodesInv, ById, ByPath, Met, Node
  <2> QED BY <2>1, <2>2, <2>3 DEF NodesInv
<1>4. CASE Discovered
  <2>1. /\ UNCHANGED <<db, nodes, edges, seen_pairs, visited, queue, cur, todo>>
        /\ stage' = "hub" /\ todo = <<>> /\ queue = <<>>
    BY <1>4 DEF Discovered, graphVars
  <2>2. ById' /\ ByPath'
    BY <2>1 DEF NodesInv, ById, ByPath, Met, Node
  <2> QED BY <2>1, <2>2 DEF NodesInv
<1> QED BY <1>1, <1>2, <1>3, <1>4

LEMMA LaterKeepsNodes ==
  ASSUME NodesInv, UNCHANGED graphVars,
         \/ stage' = stage
         \/ stage \notin {"describe", "discover", "failed"} /\ stage' \notin {"describe", "discover"}
  PROVE  NodesInv'
<1>1. UNCHANGED <<db, nodes, edges, seen_pairs, visited, queue, cur, todo>>
  BY DEF graphVars
<1>2. ById' /\ ByPath'
  BY <1>1 DEF NodesInv, ById, ByPath, Met, Node
<1> QED BY <1>1, <1>2 DEF NodesInv

LEMMA NodesInit == Init => NodesInv
<1> SUFFICES ASSUME Init PROVE NodesInv
  OBVIOUS
<1>1. GraphInit /\ Source \in Tables
  BY GraphAssumption DEF Init, GraphAssumption
<1>2. /\ cur \in EntryType /\ nodes \in Seq(NodeType) /\ queue \in Seq(EntryType)
      /\ todo \in Seq(RefType) /\ visited \in [Tables -> Nat]
  BY <1>1 DEF GraphInit, Entry, EntryType
<1>3. ById /\ ByPath
  BY <1>1 DEF GraphInit, ById, ByPath, Met
<1> QED BY <1>1, <1>2, <1>3 DEF NodesInv, GraphInit
-----------------------------------------------------------------------------
(* The edges.                                                              *)

\* An edge goes on telling its key when nodes only come after those there are.
LEMMA StillTells ==
  ASSUME NEW edge, TellsItsKey(edge, nodes, db),
         Len(nodes) \in Nat, Len(nodes') \in Nat, Len(nodes) <= Len(nodes'),
         \A i \in 1..Len(nodes) : nodes'[i] = nodes[i]
  PROVE  TellsItsKey(edge, nodes', db)
BY DEF TellsItsKey

\* The edge of a reference between the node of its table and that of the other.
LEMMA NewTells ==
  ASSUME NEW r \in RefType, NEW t \in Tables, FollowsTo(r, t), NodesInv, NodesInv',
         UNCHANGED <<db, cur>>, \A i \in 1..Len(nodes) : nodes'[i] = nodes[i],
         Len(nodes) <= Len(nodes'), visited'[t] # 0
  PROVE  /\ NewEdge(r, visited'[t]) \in EdgeType
         /\ Ends(NewEdge(r, visited'[t])) = {cur.id, visited'[t]}
         /\ TellsItsKey(NewEdge(r, visited'[t]), nodes', db)
<1>1. PICK k : k = visited'[t]
  OBVIOUS
<1>2. k \in 1..Len(nodes') /\ nodes'[k].path = t /\ Len(nodes') \in Nat
  BY <1>1 DEF NodesInv, ByPath, Met
<1>3. cur \in EntryType /\ cur.path \in Tables /\ cur.id \in 1..Len(nodes) /\ Len(nodes) \in Nat
  BY DEF NodesInv, EntryType, FollowsTo
<1>4. cur.id \in 1..Len(nodes') /\ nodes'[cur.id].path = cur.path
  <2>1. nodes[visited[cur.path]].path = cur.path
    BY <1>3 DEF NodesInv, ByPath, Met, FollowsTo
  <2> QED BY <1>2, <1>3, <2>1 DEF FollowsTo
<1>5. /\ cur.path = IF r.side = "source" THEN r.fk.owner ELSE r.fk.ref
      /\ t = IF r.side = "source" THEN r.fk.ref ELSE r.fk.owner
  BY <1>3, DatabaseIs DEF FollowsTo, OtherEnd
<1>6. r.side \in {"source", "target"} /\ r.fk \in ForeignKey /\ r.fk.nullable \in BOOLEAN
  BY DEF RefType, ForeignKey, Side
<1>7. \A i \in 1..Len(nodes') : nodes'[i].unavailable <=> nodes'[i].path \notin db.resolved
  <2> SUFFICES ASSUME NEW i \in 1..Len(nodes')
               PROVE  nodes'[i].unavailable <=> nodes'[i].path \notin db.resolved
    OBVIOUS
  <2>1. nodes'[i] = [path |-> nodes'[i].path, unavailable |-> nodes'[i].path \notin db.resolved]
    BY DEF NodesInv, ById, Node
  <2>2. nodes'[i].unavailable = (nodes'[i].path \notin db.resolved)
    BY <2>1
  <2> QED BY <2>2
<1> DEFINE owner == IF r.side = "source" THEN cur.id ELSE k
           other == IF r.side = "source" THEN k ELSE cur.id
           edge  == NewEdge(r, k)
<1>8. /\ owner \in 1..Len(nodes') /\ nodes'[owner].path = r.fk.owner
      /\ other \in 1..Len(nodes') /\ nodes'[other].path = r.fk.ref
      /\ owner # other
  BY <1>2, <1>4, <1>5, <1>6 DEF FollowsTo
<1>9. edge = [source |-> cur.id, target |-> k, fk_side |-> r.side, fk |-> r.fk,
              fk_nullable |-> ~nodes'[owner].unavailable /\ r.fk.nullable]
  BY DEF NewEdge
<1>10. (~nodes'[owner].unavailable /\ r.fk.nullable) <=> (r.fk.owner \in db.resolved /\ r.fk.nullable)
  BY <1>7, <1>8
<1> HIDE DEF edge
<1>11. /\ edge.source = cur.id /\ edge.target = k /\ edge.fk_side = r.side /\ edge.fk = r.fk
       /\ edge.fk_nullable <=> r.fk.owner \in db.resolved /\ r.fk.nullable
  BY <1>9, <1>10
<1>12. edge \in EdgeType
  <2>1. cur.id \in Nat /\ k \in Nat /\ (~nodes'[owner].unavailable /\ r.fk.nullable) \in BOOLEAN
    BY <1>2, <1>3
  <2> QED BY <1>6, <1>9, <2>1 DEF EdgeType, Side
<1>13. Ends(edge) = {cur.id, k}
  BY <1>11 DEF Ends
<1>14. TellsItsKey(edge, nodes', db)
  BY <1>8, <1>11 DEF TellsItsKey
<1> QED BY <1>1, <1>12, <1>13, <1>14 DEF edge

\* What a followed reference adds to the edges: nothing, or an edge of a new pair.
LEMMA PairsGrow ==
  ASSUME NEW k, NEW r, Join(r, k), EdgesInv, NewEdge(r, k) \in EdgeType,
         Ends(NewEdge(r, k)) = {cur.id, k}
  PROVE  /\ seen_pairs' = seen_pairs \cup {{cur.id, k}}
         /\ edges' \in Seq(EdgeType)
         /\ \/ edges' = edges
            \/ edges' = Append(edges, NewEdge(r, k)) /\ {cur.id, k} \notin seen_pairs
<1> DEFINE edge == NewEdge(r, k)
<1> HIDE DEF edge
<1>1. edges \in Seq(EdgeType) /\ edge \in EdgeType
  BY DEF EdgesInv, edge
<1>2. Append(edges, edge) \in Seq(EdgeType)
  BY <1>1, AppendIs
<1>3. CASE {cur.id, k} \in seen_pairs
  BY <1>1, <1>3 DEF Join
<1>4. CASE {cur.id, k} \notin seen_pairs
  BY <1>2, <1>4 DEF Join, edge
<1> QED BY <1>3, <1>4

LEMMA FollowKeepsEdges ==
  ASSUME NodesInv, NodesInv', EdgesInv, FollowReference
  PROVE  EdgesInv'
<1>1. PICK r \in RefType, t \in Tables :
        /\ FollowsTo(r, t) /\ (Known(t) \/ New(t)) /\ Join(r, visited'[t])
        /\ todo # <<>> /\ todo' = Tail(todo) /\ UNCHANGED <<stage, db, cur>>
  BY FollowIs
<1>2. /\ Len(nodes) \in Nat /\ Len(nodes') \in Nat /\ Len(nodes) <= Len(nodes')
      /\ \A i \in 1..Len(nodes) : nodes'[i] = nodes[i]
      /\ visited'[t] # 0
  BY <1>1, NodesGrow
<1> DEFINE edge == NewEdge(r, visited'[t])
<1>3. edge \in EdgeType /\ Ends(edge) = {cur.id, visited'[t]} /\ TellsItsKey(edge, nodes', db)
  BY <1>1, <1>2, NewTells
<1>4. /\ seen_pairs' = seen_pairs \cup {Ends(edge)}
      /\ edges' \in Seq(EdgeType)
      /\ edges' = edges \/ (edges' = Append(edges, edge) /\ Ends(edge) \notin seen_pairs)
      /\ edges' = edges => Ends(edge) \in seen_pairs
  <2>1. edges \in Seq(EdgeType)
    BY DEF EdgesInv
  <2>2. /\ seen_pairs' = seen_pairs \cup {Ends(edge)} /\ edges' \in Seq(EdgeType)
        /\ edges' = edges \/ (edges' = Append(edges, edge) /\ Ends(edge) \notin seen_pairs)
    BY <1>1, <1>3, PairsGrow
  <2>3. edges # Append(edges, edge)
    <3> HIDE DEF edge
    <3>1. Len(Append(edges, edge)) = Len(edges) + 1 /\ Len(edges) \in Nat
      BY <1>3, <2>1, AppendIs
    <3> QED BY <3>1
  <2>4. edges' = edges => Ends(edge) \in seen_pairs
    BY <1>1, <1>3, <2>3 DEF Join
  <2> QED BY <2>2, <2>4
<1> HIDE DEF edge
<1>5. /\ edges \in Seq(EdgeType) /\ DOMAIN edges = 1..Len(edges) /\ Len(edges) \in Nat
      /\ \A e \in DOMAIN edges : edges[e] \in EdgeType /\ TellsItsKey(edges[e], nodes', db)
  <2>1. /\ edges \in Seq(EdgeType) /\ DOMAIN edges = 1..Len(edges) /\ Len(edges) \in Nat
        /\ \A e \in DOMAIN edges : edges[e] \in EdgeType /\ TellsItsKey(edges[e], nodes, db)
    BY DEF EdgesInv
  <2> QED BY <1>2, <2>1, StillTells
<1>6. /\ seen_pairs = {Ends(edges[e]) : e \in DOMAIN edges}
      /\ \A e, f \in DOMAIN edges : Ends(edges[e]) = Ends(edges[f]) => e = f
  BY DEF EdgesInv
<1>7. CASE edges' = edges
  <2>1. Ends(edge) \in seen_pairs /\ seen_pairs' = seen_pairs
    BY <1>4, <1>7
  <2> QED BY <1>1, <1>4, <1>5, <1>6, <1>7, <2>1 DEF EdgesInv
<1>8. CASE edges' = Append(edges, edge) /\ Ends(edge) \notin seen_pairs
  <2>1. /\ DOMAIN edges' = 1..Len(edges) + 1 /\ edges'[Len(edges) + 1] = edge
        /\ \A e \in 1..Len(edges) : edges'[e] = edges[e]
    BY <1>3, <1>5, <1>8, AppendIs
  <2>2. DOMAIN edges' = DOMAIN edges \cup {Len(edges) + 1} /\ Len(edges) + 1 \notin DOMAIN edges
    BY <1>5, <2>1
  <2>3. \A e \in DOMAIN edges' : TellsItsKey(edges'[e], nodes', db)
    BY <1>3, <1>5, <2>1, <2>2
  <2>4. seen_pairs' = {Ends(edges'[e]) : e \in DOMAIN edges'}
    BY <1>4, <1>5, <1>6, <2>1, <2>2
  <2>5. \A e \in DOMAIN edges : Ends(edges'[e]) = Ends(edges[e]) /\ Ends(edges[e]) # Ends(edge)
    BY <1>5, <1>6, <1>8, <2>1
  <2>6. \A e, f \in DOMAIN edges' : Ends(edges'[e]) = Ends(edges'[f]) => e = f
    BY <1>6, <2>1, <2>2, <2>5
  <2> QED BY <1>1, <1>4, <2>3, <2>4, <2>6 DEF EdgesInv
<1> QED BY <1>4, <1>7, <1>8

LEMMA OthersKeepEdges ==
  ASSUME NodesInv, NodesInv', EdgesInv,
         \/ DescribeSource \/ NextTable \/ SelfReference \/ Discovered
         \/ UNCHANGED graphVars
  PROVE  EdgesInv'
<1>1. CASE DescribeSource
  <2>1. edges = <<>> /\ seen_pairs = {} /\ UNCHANGED <<edges, seen_pairs>>
    BY <1>1 DEF DescribeSource, NodesInv
  <2>2. <<>> \in Seq(EdgeType) /\ DOMAIN <<>> = {}
    OBVIOUS
  <2> QED BY <2>1, <2>2 DEF EdgesInv
<1>2. CASE UNCHANGED <<db, nodes, edges, seen_pairs>>
  BY <1>2 DEF EdgesInv
<1> QED BY <1>1, <1>2 DEF NextTable, SelfReference, Discovered, graphVars

LEMMA EdgesInit == Init => EdgesInv
<1>1. <<>> \in Seq(EdgeType) /\ DOMAIN <<>> = {}
  OBVIOUS
<1> QED BY <1>1 DEF Init, GraphInit, EdgesInv
-----------------------------------------------------------------------------
(* The walk.                                                               *)

\* The levels depend on the database alone.
LEMMA WithinStays ==
  ASSUME db' = db
  PROVE  Within' = Within
BY DEF Within, Reach, Listed

LEMMA WithinTables ==
  ASSUME NodesInv, NEW k \in 0..MaxDepth
  PROVE  Within[k] \subseteq Tables
<1> DEFINE Bad == {n \in 0..MaxDepth : ~(Within[n] \subseteq Tables)}
<1> SUFFICES ASSUME Bad # {} PROVE FALSE
  OBVIOUS
<1>0. MaxDepth \in Nat /\ Source \in Tables
  BY WithinIs, GraphAssumption DEF GraphAssumption
<1>1. PICK m \in Bad : \A n \in Bad : m <= n
  <2>1. Bad \subseteq Nat
    BY <1>0
  <2> HIDE DEF Bad
  <2> QED BY <2>1, LeastIs
<1>2. m # 0
  BY <1>0, <1>1, WithinIs
<1>3. m - 1 \in 0..MaxDepth - 1 /\ m - 1 \notin Bad /\ (m - 1) + 1 = m
  BY <1>0, <1>1, <1>2
<1>4. Within[m] = Reach(Within[m - 1]) /\ Within[m - 1] \subseteq Tables
  BY <1>0, <1>3, WithinIs
<1>5. \A t \in Tables : \A r \in ToSet(db.refs[t]) : OtherEnd(r) \in Tables
  BY DatabaseIs, OtherEndIs
<1>6. Within[m] \subseteq Tables
  BY <1>4, <1>5 DEF Reach, Listed
<1> QED BY <1>1, <1>6

\* A reference of the table being expanded leads at most one level further, and
\* to none of this level's tables if it leads to one that was not known.
LEMMA FollowedLevel ==
  ASSUME NodesInv, LevelInv, SeenInv, NEW r \in RefType, NEW t \in Tables, FollowsTo(r, t)
  PROVE  /\ cur.depth \in 0..MaxDepth - 1 /\ MaxDepth \in Nat \ {0}
         /\ t \in Within[cur.depth + 1] /\ t \in Within[MaxDepth]
         /\ ~Met(t) => t \notin Within[cur.depth]
<1>1. cur.depth \in 0..MaxDepth - 1 /\ MaxDepth \in Nat \ {0}
  <2>1. cur.depth \in Nat /\ MaxDepth \in Nat \ {0}
    BY WithinIs DEF NodesInv, EntryType
  <2> QED BY <2>1 DEF LevelInv, OnLevel
<1>2. cur.path \in Within[cur.depth] /\ cur.path \in db.resolved /\ r \in ToSet(db.refs[cur.path])
  BY DEF LevelInv, OnLevel, FollowsTo
<1>3. OtherEnd(r) \in Within[cur.depth + 1]
  BY <1>1, <1>2, NextLevel
<1>4. cur.depth + 1 \in 0..MaxDepth /\ MaxDepth \in (cur.depth + 1)..MaxDepth
  BY <1>1
<1>5. Within[cur.depth + 1] \subseteq Within[MaxDepth]
  BY <1>4, LevelsGrow
<1> QED BY <1>1, <1>3, <1>5 DEF FollowsTo, SeenInv

LEMMA FollowKeepsLevel ==
  ASSUME NodesInv, LevelInv, SeenInv, UNCHANGED <<db, cur>>,
         NEW r \in RefType, NEW t \in Tables, FollowsTo(r, t), Known(t) \/ New(t)
  PROVE  LevelInv' /\ SeenInv'
<1>1. Within' = Within
  BY WithinStays
<1>2. /\ cur.depth \in 0..MaxDepth - 1 /\ MaxDepth \in Nat \ {0}
      /\ t \in Within[cur.depth + 1] /\ t \in Within[MaxDepth]
      /\ ~Met(t) => t \notin Within[cur.depth]
  BY FollowedLevel
<1>3. SeenInv'
  <2>1. \A s \in Tables : visited'[s] # 0 <=> Met(s) \/ s = t
    BY NodesGrow
  <2>2. Within[cur.depth] \subseteq Tables
    <3>1. cur.depth \in 0..MaxDepth
      BY <1>2
    <3> QED BY <3>1, WithinTables
  <2> QED BY <1>1, <1>2, <2>1, <2>2 DEF SeenInv, Met
<1>4. CASE queue' = queue
  BY <1>1, <1>3, <1>4 DEF LevelInv
<1>5. ASSUME NEW e \in EntryType, e.path = t, e.depth = cur.depth + 1, ~Met(t),
             cur.depth + 1 < MaxDepth, queue' = Append(queue, e)
      PROVE  LevelInv'
  <2>1. queue \in Seq(EntryType)
    BY DEF NodesInv
  <2>2. /\ Len(queue) \in Nat
        /\ DOMAIN queue = 1..Len(queue) /\ DOMAIN queue' = 1..Len(queue) + 1
        /\ \A n \in 1..Len(queue) : queue'[n] = queue[n]
        /\ queue'[Len(queue) + 1] = e
    BY <1>5, <2>1, AppendIs
  <2>3. OnLevel(e, Within)
    <3>1. (cur.depth + 1) - 1 = cur.depth
      BY <1>2
    <3> QED BY <1>2, <1>5, <3>1 DEF OnLevel
  <2>4. ASSUME NEW n \in DOMAIN queue'
        PROVE  /\ OnLevel(queue'[n], Within) /\ queue'[n].depth \in cur.depth..cur.depth + 1
               /\ n \in DOMAIN queue => queue'[n] = queue[n]
               /\ n \notin DOMAIN queue => n = Len(queue) + 1 /\ queue'[n] = e
    <3>1. CASE n = Len(queue) + 1
      BY <1>2, <1>5, <2>2, <2>3, <3>1
    <3>2. CASE n \in DOMAIN queue
      BY <2>2, <3>2 DEF LevelInv
    <3> QED BY <2>2, <3>1, <3>2
  <2>5. ASSUME NEW m \in DOMAIN queue', NEW n \in DOMAIN queue', m < n
        PROVE  queue'[m].depth <= queue'[n].depth
    <3>1. CASE n \in DOMAIN queue
      <4>1. m \in DOMAIN queue
        BY <2>2, <2>5, <3>1
      <4> QED BY <2>4, <2>5, <3>1, <4>1 DEF LevelInv
    <3>2. CASE n \notin DOMAIN queue
      <4>1. queue'[n].depth = cur.depth + 1
        BY <1>5, <2>4, <3>2
      <4>2. queue'[m].depth \in cur.depth..cur.depth + 1
        BY <2>4
      <4> QED BY <1>2, <4>1, <4>2
    <3> QED BY <3>1, <3>2
  <2> QED BY <1>1, <2>4, <2>5 DEF LevelInv
<1> QED BY <1>3, <1>4, <1>5, QueueGrows

LEMMA FollowKeepsDone ==
  ASSUME NodesInv, LevelInv, SeenInv, DoneInv, UNCHANGED <<db, cur>>,
         NEW r \in RefType, NEW t \in Tables, FollowsTo(r, t), Known(t) \/ New(t),
         Join(r, visited'[t]), todo # <<>>, todo' = Tail(todo)
  PROVE  DoneInv'
<1>1. Within' = Within
  BY WithinStays
<1>2. /\ cur.depth \in 0..MaxDepth - 1 /\ MaxDepth \in Nat \ {0}
      /\ ~Met(t) => t \notin Within[cur.depth]
  BY FollowedLevel
<1>3. /\ \A s \in Tables : Met(s) => visited'[s] = visited[s]
      /\ \A s \in Tables : visited'[s] # 0 <=> Met(s) \/ s = t
      /\ visited'[cur.path] = cur.id /\ cur.path \in Tables
  <2>1. cur.path \in Tables /\ visited[cur.path] = cur.id /\ cur.id # 0
    BY DEF FollowsTo, NodesInv, EntryType
  <2> QED BY <2>1, NodesGrow DEF Met
<1>4. seen_pairs \cup {{cur.id, visited'[t]}} = seen_pairs'
  BY DEF Join
<1>5. \A s \in ToSet(todo) : s = r \/ s \in ToSet(todo')
  <2>1. todo \in Seq(RefType)
    BY DEF NodesInv
  <2> QED BY <2>1, SeqFacts DEF FollowsTo
<1>6. Queued \subseteq Queued' /\ (~Met(t) => t \in Queued' \/ t \notin db.resolved \/ cur.depth + 1 >= MaxDepth)
  <2>1. CASE queue' = queue /\ (Met(t) \/ t \notin db.resolved \/ ~(cur.depth + 1 < MaxDepth))
    BY <1>2, <2>1 DEF Queued
  <2>2. ASSUME NEW e \in EntryType, e.path = t, queue' = Append(queue, e) PROVE <1>6
    <3>1. queue \in Seq(EntryType)
      BY DEF NodesInv
    <3>2. /\ DOMAIN queue = 1..Len(queue) /\ DOMAIN queue' = 1..Len(queue) + 1
          /\ Len(queue) \in Nat
          /\ \A n \in 1..Len(queue) : queue'[n] = queue[n]
          /\ queue'[Len(queue) + 1] = e
      BY <2>2, <3>1, AppendIs
    <3>3. \A n \in DOMAIN queue : n \in DOMAIN queue' /\ queue'[n] = queue[n]
      BY <3>2
    <3>4. Len(queue) + 1 \in DOMAIN queue'
      BY <3>2
    <3> QED BY <2>2, <3>2, <3>3, <3>4 DEF Queued
  <2> QED BY <2>1, <2>2, QueueGrows
<1>7. SUFFICES ASSUME NEW s \in (Within[MaxDepth - 1] \cap db.resolved) \ Queued', visited'[s] # 0,
                      NEW q \in ToSet(db.refs[s])
               PROVE  \/ Followed(s, q, visited', seen_pairs')
                      \/ s = cur.path /\ q \in ToSet(todo')
  BY <1>1 DEF DoneInv, Met
<1>8. s \in Tables /\ OtherEnd(q) \in Tables
  <2>1. s \in Tables
    BY DatabaseIs, <1>3
  <2> QED BY <2>1, DatabaseIs, OtherEndIs
<1>9. Met(s)
  <2>1. CASE s = t /\ ~Met(t)
    <3>1. cur.depth + 1 >= MaxDepth
      BY <1>6, <1>7, <2>1
    <3>2. cur.depth = MaxDepth - 1
      BY <1>2, <3>1
    <3> QED BY <1>2, <1>7, <2>1, <3>2
  <2> QED BY <1>3, <1>7, <1>8, <2>1
<1>10. Followed(s, q, visited, seen_pairs) \/ (s = cur.path /\ q \in ToSet(todo))
  BY <1>6, <1>7, <1>9 DEF DoneInv
<1>11. CASE Followed(s, q, visited, seen_pairs)
  BY <1>3, <1>4, <1>8, <1>9, <1>11 DEF Followed, Met
<1>12. CASE s = cur.path /\ q = r
  <2>1. OtherEnd(q) = t /\ visited'[s] = cur.id /\ visited'[t] # 0
    BY <1>3, <1>12 DEF FollowsTo
  <2> QED BY <1>4, <2>1 DEF Followed
<1> QED BY <1>5, <1>10, <1>11, <1>12
LEMMA FollowKeepsWalk ==
  ASSUME NodesInv, WalkInv, FollowReference
  PROVE  WalkInv'
<1>1. PICK r \in RefType, t \in Tables :
        /\ FollowsTo(r, t) /\ (Known(t) \/ New(t)) /\ Join(r, visited'[t])
        /\ todo # <<>> /\ todo' = Tail(todo) /\ UNCHANGED <<stage, db, cur>>
  BY FollowIs
<1>2. stage = "discover" /\ stage' = "discover"
  BY <1>1 DEF FollowsTo
<1>3. LevelInv /\ SeenInv /\ DoneInv
  BY <1>2 DEF WalkInv
<1>4. LevelInv' /\ SeenInv'
  BY <1>1, <1>3, FollowKeepsLevel
<1>5. DoneInv'
  BY <1>1, <1>3, FollowKeepsDone
<1> QED BY <1>2, <1>4, <1>5 DEF WalkInv

\* The table that is expanded next lies on this level or begins the next one: then
\* this level is done with, and the next one is known.
LEMMA NextKeepsWalk ==
  ASSUME NodesInv, WalkInv, NextTable
  PROVE  WalkInv'
<1>1. /\ stage = "discover" /\ todo = <<>> /\ queue # <<>>
      /\ cur' = Head(queue) /\ queue' = Tail(queue) /\ todo' = db.refs[cur'.path]
      /\ UNCHANGED <<stage, db, nodes, edges, seen_pairs, visited>>
  BY DEF NextTable
<1>2. LevelInv /\ SeenInv /\ DoneInv
  BY <1>1 DEF WalkInv
<1>3. Within' = Within
  BY <1>1, WithinStays
<1>4. /\ queue \in Seq(EntryType) /\ Len(queue) \in Nat \ {0} /\ cur' = queue[1]
      /\ DOMAIN queue = 1..Len(queue) /\ DOMAIN queue' = 1..Len(queue) - 1
      /\ \A n \in 1..Len(queue) - 1 : queue'[n] = queue[n + 1]
  <2>1. queue \in Seq(EntryType)
    BY DEF NodesInv
  <2>2. /\ cur' = queue[1] /\ Len(queue) \in Nat \ {0}
        /\ Len(queue') = Len(queue) - 1 /\ queue' \in Seq(EntryType)
        /\ \A n \in 1..Len(queue) - 1 : queue'[n] = queue[n + 1]
    BY <1>1, <2>1, SeqFacts
  <2> QED BY <2>1, <2>2
<1>5. cur.depth \in Nat /\ MaxDepth \in Nat \ {0}
  BY WithinIs DEF NodesInv, EntryType
<1>6. \A n \in DOMAIN queue : queue[n].depth \in Nat /\ queue[1].depth <= queue[n].depth
  <2>1. \A n \in DOMAIN queue : queue[n] \in EntryType
    BY <1>4
  <2>2. \A n \in DOMAIN queue : queue[n].depth \in Nat
    BY <2>1 DEF EntryType
  <2>3. \A n \in DOMAIN queue : n = 1 \/ (1 < n /\ 1 \in DOMAIN queue)
    BY <1>4
  <2> QED BY <1>2, <2>2, <2>3 DEF LevelInv
<1>7. \A n \in DOMAIN queue' : n + 1 \in DOMAIN queue /\ queue'[n] = queue[n + 1]
  BY <1>4
<1>8. cur'.depth \in {cur.depth, cur.depth + 1} /\ OnLevel(cur', Within)
  BY <1>2, <1>4, <1>5 DEF LevelInv
<1>9. LevelInv'
  <2>1. \A n \in DOMAIN queue' :
          OnLevel(queue'[n], Within) /\ queue'[n].depth \in cur'.depth..cur'.depth + 1
    <3> SUFFICES ASSUME NEW n \in DOMAIN queue'
                 PROVE  OnLevel(queue'[n], Within) /\ queue'[n].depth \in cur'.depth..cur'.depth + 1
      OBVIOUS
    <3>1. /\ OnLevel(queue[n + 1], Within) /\ queue[n + 1].depth \in cur.depth..cur.depth + 1
          /\ queue[1].depth <= queue[n + 1].depth
      BY <1>2, <1>6, <1>7 DEF LevelInv
    <3> QED BY <1>4, <1>5, <1>7, <1>8, <3>1
  <2>2. \A m, n \in DOMAIN queue' : m < n => queue'[m].depth <= queue'[n].depth
    BY <1>2, <1>4, <1>7 DEF LevelInv
  <2> QED BY <1>3, <1>8, <2>1, <2>2 DEF LevelInv
<1>10. SeenInv'
  <2>1. CASE cur'.depth = cur.depth
    BY <1>1, <1>2, <1>3, <2>1 DEF SeenInv, Met
  <2>2. CASE cur'.depth = cur.depth + 1
    <3>1. cur.depth \in 0..MaxDepth - 1 /\ cur.depth + 1 < MaxDepth
      BY <1>5, <1>8, <2>2 DEF OnLevel
    <3>2. ASSUME NEW u \in Within[cur.depth + 1] \ Within[cur.depth] PROVE Met(u)
      <4>1. PICK t \in Within[cur.depth] \cap db.resolved :
             \E r \in ToSet(db.refs[t]) : u = OtherEnd(r)
        BY <3>1, <3>2, FromLevel
      <4>2. t \in Within[MaxDepth - 1]
        <5>1. cur.depth \in 0..MaxDepth /\ MaxDepth - 1 \in cur.depth..MaxDepth
          BY <3>1, <1>5
        <5> QED BY <5>1, LevelsGrow
      <4>3. t \notin Queued
        <5>1. ASSUME NEW n \in DOMAIN queue PROVE queue[n].path # t
          <6>1. queue[n].depth = cur.depth + 1 /\ OnLevel(queue[n], Within)
            BY <1>2, <1>4, <1>5, <1>6, <2>2 DEF LevelInv
          <6>2. queue[n].depth > 0 /\ queue[n].depth - 1 = cur.depth
            BY <1>5, <6>1
          <6> QED BY <6>1, <6>2 DEF OnLevel
        <5> QED BY <5>1 DEF Queued
      <4>4. Met(t) /\ ToSet(todo) = {}
        BY <1>1, <1>2 DEF SeenInv, ToSet
      <4>5. PICK r \in ToSet(db.refs[t]) : u = OtherEnd(r)
        BY <4>1
      <4>6. Followed(t, r, visited, seen_pairs)
        BY <1>2, <4>1, <4>2, <4>3, <4>4 DEF DoneInv
      <4> QED BY <4>4, <4>5, <4>6 DEF Followed, Met
    <3>3. \A u \in Within[cur.depth + 1] : Met(u)
      BY <1>2, <3>2 DEF SeenInv
    <3> QED BY <1>1, <1>2, <1>3, <2>2, <3>3 DEF SeenInv, Met
  <2> QED BY <1>8, <2>1, <2>2
<1>11. DoneInv'
  <2> SUFFICES ASSUME NEW t \in (Within[MaxDepth - 1] \cap db.resolved) \ Queued', Met(t),
                      NEW r \in ToSet(db.refs[t])
               PROVE  \/ Followed(t, r, visited, seen_pairs)
                      \/ t = cur'.path /\ r \in ToSet(todo')
    BY <1>1, <1>3 DEF DoneInv, Met
  <2>1. CASE t = cur'.path
    BY <1>1, <2>1
  <2>2. CASE t # cur'.path
    <3>1. t \notin Queued
      <4>1. ASSUME NEW n \in DOMAIN queue, queue[n].path = t PROVE FALSE
        <5>1. n # 1
          BY <1>4, <2>2, <4>1
        <5>2. n - 1 \in DOMAIN queue' /\ queue'[n - 1] = queue[n]
          BY <1>4, <5>1
        <5> QED BY <4>1, <5>2 DEF Queued
      <4> QED BY <4>1 DEF Queued
    <3>2. ToSet(todo) = {}
      BY <1>1 DEF ToSet
    <3> QED BY <1>2, <3>1, <3>2 DEF DoneInv
  <2> QED BY <2>1, <2>2
<1> QED BY <1>1, <1>9, <1>10, <1>11 DEF WalkInv

LEMMA SelfKeepsWalk ==
  ASSUME NodesInv, WalkInv, SelfReference
  PROVE  WalkInv'
<1>1. /\ stage = "discover" /\ todo # <<>> /\ OtherEnd(Head(todo)) = cur.path
      /\ todo' = Tail(todo)
      /\ UNCHANGED <<stage, db, nodes, edges, seen_pairs, visited, queue, cur>>
  BY DEF SelfReference
<1>2. LevelInv /\ SeenInv /\ DoneInv
  BY <1>1 DEF WalkInv
<1>3. Within' = Within
  BY <1>1, WithinStays
<1>4. LevelInv' /\ SeenInv'
  BY <1>1, <1>2, <1>3 DEF LevelInv, SeenInv, Met
<1>5. DoneInv'
  <2>1. \A r \in ToSet(todo) : r = Head(todo) \/ r \in ToSet(todo')
    <3>1. todo \in Seq(RefType)
      BY DEF NodesInv
    <3> QED BY <1>1, <3>1, SeqFacts
  <2>2. Followed(cur.path, Head(todo), visited, seen_pairs)
    BY <1>1 DEF Followed
  <2>3. /\ visited' = visited /\ seen_pairs' = seen_pairs /\ Queued' = Queued
        /\ db' = db /\ cur' = cur
    BY <1>1 DEF Queued
  <2> QED BY <1>2, <1>3, <2>1, <2>2, <2>3 DEF DoneInv, Met
<1> QED BY <1>1, <1>4, <1>5 DEF WalkInv

LEMMA DescribeKeepsWalk ==
  ASSUME NodesInv, WalkInv, DescribeSource
  PROVE  WalkInv'
<1>1. CASE Source \notin db.resolved
  BY <1>1 DEF DescribeSource, WalkInv
<1>2. CASE Source \in db.resolved
  <2> DEFINE q == Entry(Source, 1, 0)
  <2>1. /\ stage = "describe" /\ stage' = "discover" /\ queue' = <<q>>
        /\ visited' = [visited EXCEPT ![Source] = 1]
        /\ UNCHANGED <<db, edges, seen_pairs, cur, todo>>
        /\ nodes = <<>>
    BY <1>2 DEF DescribeSource, NodesInv
  <2>2. cur.path = Source /\ cur.depth = 0 /\ q.path = Source /\ q.depth = 0
    BY <2>1 DEF WalkInv, Entry
  <2> HIDE DEF q
  <2>3. DOMAIN queue' = {1} /\ queue'[1] = q
    BY <2>1
  <2>4. Source \in Tables /\ MaxDepth \in Nat \ {0} /\ Within[0] = {Source}
    BY WithinIs, GraphAssumption DEF GraphAssumption
  <2>5. visited'[Source] = 1 /\ \A t \in Tables : visited'[t] # 0 => t = Source
    <3>1. visited \in [Tables -> Nat] /\ \A t \in Tables : visited[t] = 0
      <4>1. \A t \in Tables : visited[t] # 0 => visited[t] \in 1..Len(nodes)
        BY DEF NodesInv, ByPath, Met
      <4> QED BY <2>1, <4>1 DEF NodesInv
    <3> QED BY <2>1, <2>4, <3>1
  <2>6. Within' = Within /\ Within[0] \subseteq Within[MaxDepth]
    <3>1. 0 \in 0..MaxDepth /\ MaxDepth \in 0..MaxDepth
      BY <2>4
    <3> QED BY <2>1, <3>1, LevelsGrow, WithinStays
  <2>7. OnLevel(cur, Within) /\ OnLevel(q, Within)
    BY <2>2, <2>4 DEF OnLevel
  <2>8. LevelInv'
    BY <2>1, <2>2, <2>3, <2>6, <2>7 DEF LevelInv
  <2>9. SeenInv'
    BY <2>1, <2>2, <2>4, <2>5, <2>6 DEF SeenInv, Met
  <2>10. Source \in Queued'
    BY <2>2, <2>3 DEF Queued
  <2>11. db.resolved \subseteq Tables
    BY <2>4, DatabaseIs
  <2>12. DoneInv'
    BY <2>1, <2>5, <2>10, <2>11 DEF DoneInv, Met
  <2> QED BY <2>1, <2>8, <2>9, <2>12 DEF WalkInv
<1> QED BY <1>1, <1>2

LEMMA LaterKeepsWalk ==
  ASSUME WalkInv, UNCHANGED graphVars,
         \/ stage' = stage
         \/ stage \notin {"describe", "failed"} /\ stage' # "describe"
  PROVE  WalkInv'
<1>1. UNCHANGED <<db, nodes, edges, seen_pairs, visited, queue, cur, todo>>
  BY DEF graphVars
<1>2. Within' = Within
  BY <1>1, WithinStays
<1>3. LevelInv => LevelInv'
  BY <1>1, <1>2 DEF LevelInv
<1>4. SeenInv => SeenInv'
  BY <1>1, <1>2 DEF SeenInv, Met
<1>5. DoneInv => DoneInv'
  BY <1>1, <1>2 DEF DoneInv, Met, Queued
<1> QED BY <1>1, <1>3, <1>4, <1>5 DEF WalkInv

-----------------------------------------------------------------------------
(* The invariant, and what follows from it.                                *)

LEMMA InitHolds == Init => IInv
<1> SUFFICES ASSUME Init PROVE IInv
  OBVIOUS
<1>1. WalkInv
  BY DEF Init, GraphInit, WalkInv
<1> QED BY <1>1, NodesInit, EdgesInit DEF IInv

LEMMA StepKeeps ==
  ASSUME IInv, [Next]_vars
  PROVE  IInv'
<1>1. NodesInv /\ EdgesInv /\ WalkInv
  BY DEF IInv
<1>2. CASE FollowReference
  BY <1>1, <1>2, FollowKeepsNodes, FollowKeepsEdges, FollowKeepsWalk DEF IInv
<1>3. CASE DescribeSource
  BY <1>1, <1>3, OthersKeepNodes, OthersKeepEdges, DescribeKeepsWalk DEF IInv
<1>4. CASE NextTable
  BY <1>1, <1>4, OthersKeepNodes, OthersKeepEdges, NextKeepsWalk DEF IInv
<1>5. CASE SelfReference
  BY <1>1, <1>5, OthersKeepNodes, OthersKeepEdges, SelfKeepsWalk DEF IInv
<1>6. CASE Discovered
  <2>1. UNCHANGED graphVars /\ stage = "discover" /\ stage' = "hub"
    BY <1>6 DEF Discovered
  <2> QED BY <1>1, <1>6, <2>1, OthersKeepNodes, OthersKeepEdges, LaterKeepsWalk DEF IInv
<1>7. CASE ~(GraphNext /\ UNCHANGED <<layoutVars, placeVars>>)
  <2>1. /\ UNCHANGED graphVars
        /\ \/ stage' = stage
           \/ /\ stage \notin {"describe", "discover", "failed"}
              /\ stage' \notin {"describe", "discover"}
    BY <1>7, LaterIs
  <2> QED BY <1>1, <2>1, LaterKeepsNodes, OthersKeepEdges, LaterKeepsWalk DEF IInv
<1> QED BY <1>2, <1>3, <1>4, <1>5, <1>6, <1>7 DEF GraphNext

\* Through the walk, the layout and the placement the graph keeps to IInv.
THEOREM Invariance == Spec => []IInv
<1>1. Spec => Init /\ [][Next]_vars
  BY DEF Spec
<1>2. Init /\ [][Next]_vars => []IInv
  BY InitHolds, StepKeeps, PTL
<1> QED BY <1>1, <1>2

\* An edge tells its foreign key: the end that owns it, and whether it is optional.
THEOREM EdgesTell == Spec => []EdgesTellTheirKey
<1>1. IInv => EdgesTellTheirKey
  <2> SUFFICES ASSUME IInv, NEW e \in DOMAIN edges
               PROVE  LET edge  == edges[e]
                          owner == IF edge.fk_side = "source" THEN edge.source ELSE edge.target
                          other == IF edge.fk_side = "source" THEN edge.target ELSE edge.source
                      IN  /\ nodes[owner].path = edge.fk.owner /\ nodes[other].path = edge.fk.ref
                          /\ edge.fk_nullable <=> edge.fk.owner \in db.resolved /\ edge.fk.nullable
    BY DEF EdgesTellTheirKey
  <2> QED BY DEF IInv, EdgesInv, TellsItsKey
<1> QED BY <1>1, Invariance, PTL

\* When the walk is over, the tables that are known are those within MAX_DEPTH
\* references, and every reference of an expanded one is followed.
LEMMA WalkIsOver ==
  ASSUME IInv, stage \notin {"describe", "discover", "failed"}
  PROVE  /\ \A t \in Tables : Met(t) <=> t \in Within[MaxDepth]
         /\ \A t \in Within[MaxDepth - 1] \cap db.resolved : \A r \in ToSet(db.refs[t]) :
              Met(t) /\ Followed(t, r, visited, seen_pairs)
<1>1. NodesInv /\ LevelInv /\ SeenInv /\ DoneInv
  BY DEF IInv, WalkInv
<1>2. Queued = {} /\ ToSet(todo) = {}
  BY <1>1 DEF NodesInv, Queued, ToSet
<1>3. cur.depth \in 0..MaxDepth - 1 /\ MaxDepth \in Nat \ {0}
  <2>1. cur.depth \in Nat /\ MaxDepth \in Nat \ {0}
    BY <1>1, WithinIs DEF NodesInv, EntryType
  <2> QED BY <1>1, <2>1 DEF LevelInv, OnLevel
<1>4. \A t \in Within[MaxDepth - 1] \cap db.resolved :
        Met(t) => \A r \in ToSet(db.refs[t]) : Followed(t, r, visited, seen_pairs)
  BY <1>1, <1>2 DEF DoneInv
<1> DEFINE Bad == {n \in 0..MaxDepth : ~(\A t \in Within[n] : Met(t))}
<1>5. Bad = {}
  <2> SUFFICES ASSUME Bad # {} PROVE FALSE
    OBVIOUS
  <2>1. PICK m \in Bad : \A n \in Bad : m <= n
    <3>1. Bad \subseteq Nat
      BY <1>3
    <3> HIDE DEF Bad
    <3> QED BY <3>1, LeastIs
  <2>2. m # 0
    <3>1. 0 \in 0..MaxDepth /\ cur.depth \in 0..MaxDepth
      BY <1>3
    <3>2. Within[0] \subseteq Within[cur.depth]
      BY <3>1, LevelsGrow
    <3> QED BY <1>1, <2>1, <3>2 DEF SeenInv
  <2>3. m - 1 \in 0..MaxDepth - 1 /\ m - 1 \notin Bad /\ (m - 1) + 1 = m
    BY <1>3, <2>1, <2>2
  <2>4. \A t \in Within[m - 1] : Met(t)
    BY <1>3, <2>3
  <2>5. Within[m - 1] \subseteq Within[MaxDepth - 1]
    <3>1. m - 1 \in 0..MaxDepth /\ MaxDepth - 1 \in (m - 1)..MaxDepth
      BY <1>3, <2>3
    <3> QED BY <3>1, LevelsGrow
  <2>6. ASSUME NEW u \in Within[m], u \notin Within[m - 1] PROVE Met(u)
    <3>1. PICK t \in Within[m - 1] \cap db.resolved :
           \E r \in ToSet(db.refs[t]) : u = OtherEnd(r)
      BY <2>3, <2>6, FromLevel
    <3>2. PICK r \in ToSet(db.refs[t]) : u = OtherEnd(r)
      BY <3>1
    <3>3. Met(t) /\ Followed(t, r, visited, seen_pairs)
      BY <1>4, <2>4, <2>5, <3>1
    <3> QED BY <3>2, <3>3 DEF Followed, Met
  <2> QED BY <2>1, <2>4, <2>6
<1>6. ASSUME NEW k \in 0..MaxDepth PROVE \A t \in Within[k] : Met(t)
  BY <1>5
<1>7. MaxDepth \in 0..MaxDepth /\ MaxDepth - 1 \in 0..MaxDepth
  BY <1>3
<1> QED BY <1>1, <1>4, <1>6, <1>7 DEF SeenInv

\* Every table up to MAX_DEPTH references away is drawn, once, and no other.
THEOREM TablesOnce == Spec => []EveryTableOnce
<1>1. ASSUME IInv PROVE EveryTableOnce
  <2> SUFFICES ASSUME stage \notin {"describe", "discover", "failed"}
               PROVE  /\ Drawn = Within[MaxDepth]
                      /\ \A i, j \in DOMAIN nodes : nodes[i].path = nodes[j].path => i = j
    BY DEF EveryTableOnce
  <2>1. NodesInv /\ ById /\ ByPath
    BY <1>1 DEF IInv, NodesInv
  <2>2. DOMAIN nodes = 1..Len(nodes) /\ \A i \in DOMAIN nodes : nodes[i].path \in Tables
    <3>1. nodes \in Seq(NodeType)
      BY <2>1 DEF NodesInv
    <3>2. DOMAIN nodes = 1..Len(nodes) /\ \A i \in DOMAIN nodes : nodes[i] \in NodeType
      BY <3>1
    <3> QED BY <3>2 DEF NodeType
  <2>3. \A i \in DOMAIN nodes : visited[nodes[i].path] = i /\ Met(nodes[i].path)
    BY <2>1, <2>2 DEF ById, Met
  <2>4. Within[MaxDepth] \subseteq Tables
    <3>1. MaxDepth \in 0..MaxDepth
      BY WithinIs
    <3> QED BY <2>1, <3>1, WithinTables
  <2>5. \A t \in Tables : Met(t) <=> t \in Within[MaxDepth]
    BY <1>1, WalkIsOver
  <2>6. \A t \in Tables : Met(t) => \E i \in DOMAIN nodes : nodes[i].path = t
    BY <2>1, <2>2 DEF ByPath
  <2> QED BY <2>2, <2>3, <2>4, <2>5, <2>6 DEF Drawn
<1> QED BY <1>1, Invariance, PTL

\* Every relationship of an expanded table is drawn, as one edge for its pair of
\* tables.
THEOREM PairsJoined == Spec => []EveryPairJoined
<1>1. ASSUME IInv PROVE EveryPairJoined
  <2> SUFFICES ASSUME stage \notin {"describe", "discover", "failed"},
                      NEW t \in Within[MaxDepth - 1] \cap db.resolved,
                      NEW r \in ToSet(db.refs[t]), OtherEnd(r) # t
               PROVE  Cardinality({e \in DOMAIN edges :
                        {nodes[edges[e].source].path, nodes[edges[e].target].path}
                          = {t, OtherEnd(r)}}) = 1
    BY DEF EveryPairJoined
  <2> DEFINE u == OtherEnd(r)
  <2>1. Met(t) /\ Met(u) /\ {visited[t], visited[u]} \in seen_pairs
    BY <1>1, WalkIsOver DEF Followed, Met
  <2>2. NodesInv /\ EdgesInv /\ ById /\ ByPath
    BY <1>1 DEF IInv, NodesInv
  <2>3. t \in Tables /\ u \in Tables
    <3>1. t \in Tables
      BY <2>2, DatabaseIs, GraphAssumption DEF GraphAssumption
    <3> QED BY <2>2, <3>1, DatabaseIs, OtherEndIs
  <2>4. \A i \in 1..Len(nodes) : visited[nodes[i].path] = i
    BY <2>2 DEF ById
  <2>5. \A s \in {t, u} : visited[s] \in 1..Len(nodes) /\ nodes[visited[s]].path = s
    BY <2>1, <2>2, <2>3 DEF ByPath
  <2> HIDE DEF u
  <2>6. \A e \in DOMAIN edges : edges[e].source \in 1..Len(nodes) /\ edges[e].target \in 1..Len(nodes)
    BY <2>2 DEF EdgesInv, TellsItsKey
  <2>7. PICK e \in DOMAIN edges : Ends(edges[e]) = {visited[t], visited[u]}
    BY <2>1, <2>2 DEF EdgesInv
  <2>8. {nodes[edges[e].source].path, nodes[edges[e].target].path} = {t, u}
    BY <2>5, <2>7 DEF Ends
  <2>9. ASSUME NEW f \in DOMAIN edges,
               {nodes[edges[f].source].path, nodes[edges[f].target].path} = {t, u}
        PROVE  f = e
    <3>1. PICK p, q \in 1..Len(nodes) : p = edges[f].source /\ q = edges[f].target
      BY <2>6
    <3>2. \/ nodes[p].path = t /\ nodes[q].path = u
          \/ nodes[p].path = u /\ nodes[q].path = t
      BY <2>9, <3>1
    <3>3. {p, q} = {visited[t], visited[u]}
      BY <2>4, <3>2
    <3>4. Ends(edges[f]) = Ends(edges[e])
      BY <2>7, <3>1, <3>3 DEF Ends
    <3> QED BY <2>2, <3>4 DEF EdgesInv
  <2>10. {f \in DOMAIN edges :
           {nodes[edges[f].source].path, nodes[edges[f].target].path} = {t, u}} = {e}
    BY <2>8, <2>9
  <2> QED BY <2>10, FS_Singleton DEF u
<1> QED BY <1>1, Invariance, PTL
-----------------------------------------------------------------------------
(* Swapping, in the layout.  An edge of a node that is swapped crosses the  *)
(* sides afterwards if it did not before, except the edge between the two.  *)

\* The edges from n to the nodes of M.
Among(n, M) == {e \in DOMAIN edges : \E m \in M : Ends(edges[e]) = {n, m}}

LEMMA EdgesAre ==
  ASSUME NodesInv, EdgesInv
  PROVE  /\ IsFiniteSet(DOMAIN edges) /\ IsFiniteSet(Others)
         /\ \A e \in DOMAIN edges :
              /\ edges[e].source \in Ids /\ edges[e].target \in Ids
              /\ edges[e].source # edges[e].target
              /\ Ends(edges[e]) = {edges[e].source, edges[e].target}
         /\ \A e, f \in DOMAIN edges : Ends(edges[e]) = Ends(edges[f]) => e = f
<1>1. DOMAIN edges = 1..Len(edges) /\ Len(edges) \in Nat /\ Ids = 1..Len(nodes) /\ Len(nodes) \in Nat
  <2>1. edges \in Seq(EdgeType) /\ nodes \in Seq(NodeType)
    BY DEF NodesInv, EdgesInv
  <2> QED BY <2>1 DEF Ids
<1>2. IsFiniteSet(DOMAIN edges) /\ IsFiniteSet(Ids)
  BY <1>1, FS_Interval
<1>3. IsFiniteSet(Others)
  BY <1>2, FS_RemoveElement DEF Others
<1>4. \A e \in DOMAIN edges : /\ edges[e].source \in Ids /\ edges[e].target \in Ids
                              /\ edges[e].source # edges[e].target
  BY <1>1 DEF EdgesInv, TellsItsKey
<1> QED BY <1>2, <1>3, <1>4 DEF EdgesInv, Ends

\* One edge for each neighbour.
LEMMA AmongCounts ==
  ASSUME NodesInv, EdgesInv, NEW n, NEW M, M \subseteq RestAdj(n)
  PROVE  /\ IsFiniteSet(M) /\ IsFiniteSet(Among(n, M))
         /\ Cardinality(Among(n, M)) = Cardinality(M)
<1> DEFINE to == [m \in M |-> CHOOSE e \in DOMAIN edges : Ends(edges[e]) = {n, m}]
<1>1. \A m \in M : \E e \in DOMAIN edges : Ends(edges[e]) = {n, m}
  BY DEF RestAdj, Ends
<1>2. \A m \in M : to[m] \in DOMAIN edges /\ Ends(edges[to[m]]) = {n, m}
  BY <1>1
<1>3. to = [m \in M |-> to[m]]
  OBVIOUS
<1> HIDE DEF to
<1>4. to \in [M -> Among(n, M)] /\ DOMAIN to = M
  BY <1>2, <1>3 DEF Among
<1>5. IsInjective(to)
  BY <1>2, <1>4 DEF IsInjective
<1>6. \A e \in Among(n, M) : \E m \in M : to[m] = e
  BY <1>2, EdgesAre DEF Among
<1>7. to \in Bijection(M, Among(n, M))
  BY <1>4, <1>5, <1>6 DEF Bijection, Injection, Surjection
<1>8. IsFiniteSet(M)
  BY EdgesAre, FS_Subset DEF RestAdj
<1> QED BY <1>7, <1>8, FS_Bijection DEF ExistsBijection

\* The neighbours of n but o, on the other side than n, and on its own.
Far(f, n, o)  == {m \in RestAdj(n) \ {o} : f[m] # f[n]}
Near(f, n, o) == {m \in RestAdj(n) \ {o} : f[m] = f[n]}
\* The edges that cross and are neither u's nor v's, or are both's.
Core(f, u, v) == {e \in Crossing(f) : u \in Ends(edges[e]) <=> v \in Ends(edges[e])}

LEMMA CrossingIs ==
  ASSUME NodesInv, EdgesInv, NEW f, NEW u \in Others, NEW v \in Others, f[u] # f[v]
  PROVE  /\ Crossing(f) = Core(f, u, v) \cup Among(u, Far(f, u, v)) \cup Among(v, Far(f, v, u))
         /\ Core(f, u, v) \cap Among(u, Far(f, u, v)) = {}
         /\ (Core(f, u, v) \cup Among(u, Far(f, u, v))) \cap Among(v, Far(f, v, u)) = {}
<1>1. \A e \in DOMAIN edges :
        /\ edges[e].source \in Ids /\ edges[e].target \in Ids
        /\ edges[e].source # edges[e].target
        /\ Ends(edges[e]) = {edges[e].source, edges[e].target}
  BY EdgesAre
<1>2. u # v
  OBVIOUS
<1>3. ASSUME NEW a \in Others, NEW b \in Others, NEW e \in Among(a, Far(f, a, b)), f[a] # f[b]
      PROVE  e \in Crossing(f) /\ a \in Ends(edges[e]) /\ b \notin Ends(edges[e])
  <2>1. PICK m \in Others : m # b /\ f[m] # f[a] /\ Ends(edges[e]) = {a, m} /\ e \in DOMAIN edges
    BY <1>3 DEF Among, Far, RestAdj
  <2>2. \/ edges[e].source = a /\ edges[e].target = m
        \/ edges[e].source = m /\ edges[e].target = a
    BY <1>1, <2>1
  <2> QED BY <1>3, <2>1, <2>2 DEF Crossing, Others
<1>4. ASSUME NEW a \in Others, NEW b \in Others, NEW e \in Crossing(f),
             a \in Ends(edges[e]), b \notin Ends(edges[e])
      PROVE  e \in Among(a, Far(f, a, b))
  <2>1. e \in DOMAIN edges /\ hub \notin {edges[e].source, edges[e].target}
        /\ f[edges[e].source] # f[edges[e].target]
    BY <1>4 DEF Crossing
  <2>2. PICK m \in Others : Ends(edges[e]) = {a, m} /\ f[m] # f[a] /\ m # b
    BY <1>1, <1>4, <2>1 DEF Others
  <2>3. m \in RestAdj(a)
    BY <1>1, <2>1, <2>2 DEF RestAdj
  <2> QED BY <2>1, <2>2, <2>3 DEF Among, Far
<1>5. f[v] # f[u]
  OBVIOUS
<1> QED BY <1>3, <1>4, <1>5 DEF Core

\* Two finite sets with nothing in common, counted together.
LEMMA Apart ==
  ASSUME NEW S, NEW T, IsFiniteSet(S), IsFiniteSet(T), S \cap T = {}
  PROVE  IsFiniteSet(S \cup T) /\ Cardinality(S \cup T) = Cardinality(S) + Cardinality(T)
<1>1. /\ IsFiniteSet(S \cup T)
      /\ Cardinality(S \cup T) = Cardinality(S) + Cardinality(T) - Cardinality(S \cap T)
  BY FS_Union
<1>2. Cardinality(S \cap T) = 0
  BY FS_EmptySet
<1>3. Cardinality(S) \in Nat /\ Cardinality(T) \in Nat
  BY FS_CardinalityType
<1> QED BY <1>1, <1>2, <1>3

\* The edges between the sides, counted by the neighbours of u and of v.
LEMMA CrossingCounts ==
  ASSUME NodesInv, EdgesInv, NEW f, NEW u \in Others, NEW v \in Others, f[u] # f[v]
  PROVE  /\ Cardinality(Core(f, u, v)) \in Nat
         /\ Cardinality(Far(f, u, v)) \in Nat /\ Cardinality(Far(f, v, u)) \in Nat
         /\ Cardinality(Crossing(f)) =
              Cardinality(Core(f, u, v)) + Cardinality(Far(f, u, v)) + Cardinality(Far(f, v, u))
<1> DEFINE C == Core(f, u, v)
           A == Among(u, Far(f, u, v))
           B == Among(v, Far(f, v, u))
<1>1. Crossing(f) = (C \cup A) \cup B /\ C \cap A = {} /\ (C \cup A) \cap B = {}
  BY CrossingIs
<1>2. Far(f, u, v) \subseteq RestAdj(u) /\ Far(f, v, u) \subseteq RestAdj(v)
  BY DEF Far
<1>3. /\ IsFiniteSet(A) /\ Cardinality(A) = Cardinality(Far(f, u, v)) /\ IsFiniteSet(Far(f, u, v))
      /\ IsFiniteSet(B) /\ Cardinality(B) = Cardinality(Far(f, v, u)) /\ IsFiniteSet(Far(f, v, u))
  BY <1>2, AmongCounts
<1>4. IsFiniteSet(C)
  <2>1. C \subseteq DOMAIN edges
    BY DEF Core, Crossing
  <2> QED BY <2>1, EdgesAre, FS_Subset
<1> HIDE DEF A, B, C
<1>5. /\ Cardinality(C) \in Nat /\ Cardinality(A) \in Nat /\ Cardinality(B) \in Nat
      /\ Cardinality({}) = 0
  BY <1>3, <1>4, FS_CardinalityType, FS_EmptySet
<1>6. IsFiniteSet(C \cup A) /\ Cardinality(C \cup A) = Cardinality(C) + Cardinality(A)
  BY <1>1, <1>3, <1>4, <1>5, Apart
<1>7. Cardinality((C \cup A) \cup B) = Cardinality(C) + Cardinality(A) + Cardinality(B)
  BY <1>1, <1>3, <1>5, <1>6, Apart
<1> QED BY <1>1, <1>3, <1>5, <1>7 DEF C

\* What _kl_swap computes for a node, told by its edges to all but one of the others.
LEMMA BalanceIs ==
  ASSUME NodesInv, EdgesInv, NEW n \in Others, NEW o \in Others, side[n] # side[o]
  PROVE  /\ Cardinality(Far(side, n, o)) \in Nat /\ Cardinality(Near(side, n, o)) \in Nat
         /\ Balance(n) = Cardinality(Far(side, n, o)) - Cardinality(Near(side, n, o))
                           + IF o \in RestAdj(n) THEN 1 ELSE 0
<1> DEFINE far == Far(side, n, o)
           near == Near(side, n, o)
<1>1. {m \in RestAdj(n) : side[m] = side[n]} = near
  BY DEF Near
<1>2. /\ o \in RestAdj(n) => {m \in RestAdj(n) : side[m] # side[n]} = far \cup {o}
      /\ o \notin RestAdj(n) => {m \in RestAdj(n) : side[m] # side[n]} = far
      /\ o \notin far
  BY DEF Far
<1>3. IsFiniteSet(far) /\ IsFiniteSet(near)
  <2>1. far \subseteq RestAdj(n) /\ near \subseteq RestAdj(n)
    BY DEF Far, Near
  <2> QED BY <2>1, AmongCounts
<1> HIDE DEF far, near
<1>4. /\ Cardinality(far) \in Nat /\ Cardinality(near) \in Nat
      /\ Cardinality(far \cup {o}) = Cardinality(far) + 1
  BY <1>2, <1>3, FS_CardinalityType, FS_AddElement
<1>5. Balance(n) = Cardinality({m \in RestAdj(n) : side[m] # side[n]}) - Cardinality(near)
  BY <1>1 DEF Balance
<1>6. Balance(n) = Cardinality(far) - Cardinality(near) + IF o \in RestAdj(n) THEN 1 ELSE 0
  <2>1. CASE o \in RestAdj(n)
    <3>1. Balance(n) = (Cardinality(far) + 1) - Cardinality(near)
      BY <1>2, <1>4, <1>5, <2>1
    <3> QED BY <1>4, <2>1, <3>1
  <2>2. CASE o \notin RestAdj(n)
    <3>1. Balance(n) = Cardinality(far) - Cardinality(near)
      BY <1>2, <1>5, <2>2
    <3> QED BY <1>4, <2>2, <3>1
  <2> QED BY <2>1, <2>2
<1> QED BY <1>4, <1>6 DEF far, near

\* A swap for a positive gain leaves fewer edges between the sides.
LEMMA SwapPays ==
  ASSUME NodesInv, EdgesInv, side \in [Others -> {1, -1}],
         NEW u \in Others, NEW v \in Others, side[u] = 1, side[v] = -1, Gain(u, v) > 0,
         NEW after, after = [side EXCEPT ![u] = -1, ![v] = 1]
  PROVE  /\ Cardinality(Crossing(after)) < Cardinality(Crossing(side))
         /\ Cardinality(OnSide(after, 1)) = Cardinality(OnSide(side, 1))
<1>1. u # v /\ side[u] # side[v] /\ side[v] # side[u]
  OBVIOUS
<1>2. /\ after \in [Others -> {1, -1}] /\ after[u] = -1 /\ after[v] = 1
      /\ \A m \in Others \ {u, v} : after[m] = side[m]
  BY <1>1
<1>3. \A n : n \notin RestAdj(n) /\ RestAdj(n) \subseteq Others
  BY EdgesAre DEF RestAdj
<1>4. Far(after, u, v) = Near(side, u, v) /\ Far(after, v, u) = Near(side, v, u)
  <2>1. \A m \in Others \ {u, v} : /\ after[m] # after[u] <=> side[m] = side[u]
                                   /\ after[m] # after[v] <=> side[m] = side[v]
    BY <1>2
  <2>2. RestAdj(u) \ {v} \subseteq Others \ {u, v} /\ RestAdj(v) \ {u} \subseteq Others \ {u, v}
    BY <1>3
  <2> QED BY <2>1, <2>2 DEF Far, Near
<1>5. Core(after, u, v) = Core(side, u, v)
  <2>1. ASSUME NEW e \in DOMAIN edges, hub \notin {edges[e].source, edges[e].target},
               u \in Ends(edges[e]) <=> v \in Ends(edges[e])
        PROVE  after[edges[e].source] # after[edges[e].target]
                 <=> side[edges[e].source] # side[edges[e].target]
    <3>1. /\ edges[e].source \in Others /\ edges[e].target \in Others
          /\ edges[e].source # edges[e].target
          /\ Ends(edges[e]) = {edges[e].source, edges[e].target}
      BY <2>1, EdgesAre DEF Others
    <3>2. CASE u \in Ends(edges[e])
      <4>1. \/ edges[e].source = u /\ edges[e].target = v
            \/ edges[e].source = v /\ edges[e].target = u
        BY <1>1, <2>1, <3>1, <3>2
      <4> QED BY <1>1, <1>2, <4>1
    <3>3. CASE u \notin Ends(edges[e])
      BY <1>2, <2>1, <3>1, <3>3
    <3> QED BY <3>2, <3>3
  <2> QED BY <2>1 DEF Core, Crossing
<1>6. /\ Cardinality(Crossing(side)) = Cardinality(Core(side, u, v))
           + Cardinality(Far(side, u, v)) + Cardinality(Far(side, v, u))
      /\ Cardinality(Core(side, u, v)) \in Nat
  BY <1>1, CrossingCounts
<1>7. Cardinality(Crossing(after)) = Cardinality(Core(side, u, v))
        + Cardinality(Near(side, u, v)) + Cardinality(Near(side, v, u))
  <2>1. after[u] # after[v]
    BY <1>2
  <2> QED BY <1>4, <1>5, <2>1, CrossingCounts
<1>8. v \in RestAdj(u) <=> u \in RestAdj(v)
  BY DEF RestAdj
<1>9. Gain(u, v) = (Cardinality(Far(side, u, v)) - Cardinality(Near(side, u, v)))
                     + (Cardinality(Far(side, v, u)) - Cardinality(Near(side, v, u)))
  BY <1>1, <1>8, BalanceIs DEF Gain
<1>10. /\ Cardinality(Far(side, u, v)) \in Nat /\ Cardinality(Near(side, u, v)) \in Nat
       /\ Cardinality(Far(side, v, u)) \in Nat /\ Cardinality(Near(side, v, u)) \in Nat
  BY <1>1, BalanceIs
<1>11. Cardinality(OnSide(after, 1)) = Cardinality(OnSide(side, 1))
  <2>1. /\ OnSide(after, 1) = (OnSide(side, 1) \ {u}) \cup {v}
        /\ u \in OnSide(side, 1) /\ v \notin OnSide(side, 1) \ {u}
        /\ OnSide(side, 1) \subseteq Others
    BY <1>1, <1>2 DEF OnSide
  <2>2. IsFiniteSet(OnSide(side, 1))
    BY <2>1, EdgesAre, FS_Subset
  <2>3. /\ IsFiniteSet(OnSide(side, 1) \ {u}) /\ Cardinality(OnSide(side, 1)) \in Nat
        /\ Cardinality(OnSide(side, 1) \ {u}) = Cardinality(OnSide(side, 1)) - 1
    BY <2>1, <2>2, FS_RemoveElement, FS_CardinalityType
  <2>4. Cardinality((OnSide(side, 1) \ {u}) \cup {v}) = (Cardinality(OnSide(side, 1)) - 1) + 1
    BY <2>1, <2>3, FS_AddElement
  <2>5. Cardinality(OnSide(after, 1)) = (Cardinality(OnSide(side, 1)) - 1) + 1
    BY <2>1, <2>4
  <2>6. ASSUME NEW i \in Nat, NEW j, j = (i - 1) + 1 PROVE j = i
    BY <2>6
  <2> QED BY <2>3, <2>5, <2>6
<1> QED BY <1>6, <1>7, <1>9, <1>10, <1>11

\* Nodes that have a side have one of the two, and all but the hub have one when
\* swapping begins.
SideInv ==
  /\ stage \in {"grow", "swap"} => side \in [DOMAIN side -> {1, -1}]
  /\ stage = "swap" => DOMAIN side = Others

LEMMA SidesInit == Init => SideInv
BY DEF Init, GraphInit, SideInv

LEMMA SidesNext ==
  ASSUME SideInv, [Next]_vars
  PROVE  SideInv'
<1>1. CASE UNCHANGED <<stage, side, hub, nodes>>
  BY <1>1 DEF SideInv, Others, Ids
<1>2. CASE GraphNext
  <2>1. stage \in {"describe", "discover"} /\ stage' \in {"discover", "failed", "hub"}
    BY <1>2 DEF GraphNext, DescribeSource, NextTable, SelfReference, FollowReference, Discovered
  <2> QED BY <2>1 DEF SideInv
<1>3. CASE SelectHub \/ Swapped \/ SignColumns \/ BumpSameColumnEdges \/ OrderColumns
  <2>1. stage' \notin {"grow", "swap"}
    BY <1>3 DEF SelectHub, Swapped, SignColumns, BumpSameColumnEdges, OrderColumns
  <2> QED BY <2>1 DEF SideInv
<1>4. CASE Place \/ Routed \/ NoRoute
  <2>1. stage' \notin {"grow", "swap"}
    BY <1>4 DEF Place, Routed, NoRoute
  <2> QED BY <2>1 DEF SideInv
<1>5. CASE PartitionSides
  <2>1. CASE stage' = "columns"
    BY <2>1 DEF SideInv
  <2>2. CASE stage' # "columns"
    <3> DEFINE A == ToSet(Seeds[1])
               B == ToSet(Seeds[-1])
    <3>1. stage' = "grow" /\ side' = [n \in A \cup B |-> IF n \in A THEN 1 ELSE -1]
      BY <1>5, <2>2 DEF PartitionSides
    <3> HIDE DEF A, B
    <3>2. side' \in [DOMAIN side' -> {1, -1}]
      BY <3>1
    <3> QED BY <3>1, <3>2 DEF SideInv
  <2> QED BY <2>1, <2>2
<1>6. CASE GrowBalanced
  <2>1. stage = "grow" /\ stage' = "grow"
    BY <1>6 DEF GrowBalanced
  <2>2. \E D, s : s \in {1, -1} /\ side' = [n \in D |-> IF n \in DOMAIN side THEN side[n] ELSE s]
    BY <1>6 DEF GrowBalanced
  <2>3. side' \in [DOMAIN side' -> {1, -1}]
    BY <2>1, <2>2 DEF SideInv
  <2> QED BY <2>1, <2>3 DEF SideInv
<1>7. CASE Grown
  <2>1. stage = "grow" /\ DOMAIN side = Others /\ UNCHANGED <<side, hub, nodes>>
    BY <1>7 DEF Grown, graphVars, layoutVars
  <2> QED BY <2>1 DEF SideInv, Others, Ids
<1>8. CASE KlSwap
  <2>1. /\ stage = "swap" /\ UNCHANGED <<stage, hub, nodes>>
        /\ \E p \in BestPairs : side' = [side EXCEPT ![p[1]] = -1, ![p[2]] = 1]
    BY <1>8 DEF KlSwap, graphVars
  <2> QED BY <2>1 DEF SideInv, Others, Ids
<1>9. CASE Ended \/ UNCHANGED vars
  <2>1. UNCHANGED <<stage, side, hub, nodes>>
    BY <1>9 DEF Ended, vars, graphVars, layoutVars
  <2> QED BY <1>1, <2>1
<1> QED BY <1>2, <1>3, <1>4, <1>5, <1>6, <1>7, <1>8, <1>9
        DEF Next, Step, GraphStep, LayoutStep, LayoutNext

Pays == stage = "swap" /\ side' # side =>
          /\ Cardinality(Crossing(side')) < Cardinality(Crossing(side))
          /\ Cardinality(OnSide(side', 1)) = Cardinality(OnSide(side, 1))

LEMMA StepPays ==
  ASSUME IInv, SideInv, [Next]_vars
  PROVE  Pays
<1> SUFFICES ASSUME stage = "swap", side' # side
             PROVE  /\ Cardinality(Crossing(side')) < Cardinality(Crossing(side))
                    /\ Cardinality(OnSide(side', 1)) = Cardinality(OnSide(side, 1))
  BY DEF Pays
<1>1. KlSwap
  BY DEF Next, Step, GraphStep, LayoutStep, LayoutNext, GraphNext, DescribeSource, NextTable,
     SelfReference, FollowReference, Discovered, SelectHub, PartitionSides, GrowBalanced, Grown,
     Swapped, SignColumns, BumpSameColumnEdges, OrderColumns, Place, Routed, NoRoute, Ended, vars,
     layoutVars
<1>2. PICK p \in BestPairs : side' = [side EXCEPT ![p[1]] = -1, ![p[2]] = 1]
  BY <1>1 DEF KlSwap
<1>3. side \in [Others -> {1, -1}]
  BY DEF SideInv
<1>4. p[1] \in OnSide(side, 1) /\ p[2] \in OnSide(side, -1) /\ Gain(p[1], p[2]) > 0
  BY <1>2 DEF BestPairs
<1>5. /\ p[1] \in Others /\ p[2] \in Others /\ side[p[1]] = 1 /\ side[p[2]] = -1
  BY <1>3, <1>4 DEF OnSide
<1> QED BY <1>2, <1>3, <1>4, <1>5, SwapPays DEF IInv

\* Every swap of the layout leaves fewer edges between the sides, and the sides as
\* large as they were.
THEOREM EverySwapPays == Spec => SwapsPay
<1>1. Spec => Init /\ [][Next]_vars
  BY DEF Spec
<1>2. Init /\ [][Next]_vars => []SideInv
  BY SidesInit, SidesNext, PTL
<1>3. IInv /\ SideInv /\ [Next]_vars => [Pays]_<<stage, side>>
  BY StepPays
<1> QED BY <1>1, <1>2, <1>3, Invariance, PTL DEF SwapsPay, Pays

\* What holds of 0 and passes from each number to the next holds up to N.
LEMMA UpTo ==
  ASSUME NEW N \in Nat, NEW P, 0 \in P, \A i \in 0..N - 1 : i \in P => i + 1 \in P
  PROVE  \A i \in 0..N : i \in P
<1> DEFINE Bad == {n \in 0..N : n \notin P}
<1> SUFFICES ASSUME Bad # {} PROVE FALSE
  OBVIOUS
<1>1. PICK m \in Bad : \A n \in Bad : m <= n
  <2>1. Bad \subseteq Nat
    OBVIOUS
  <2> HIDE DEF Bad
  <2> QED BY <2>1, LeastIs
<1>2. m \in 0..N /\ m # 0 /\ m - 1 \in 0..N - 1 /\ (m - 1) + 1 = m
  BY <1>1
<1>3. m - 1 \in P
  BY <1>1, <1>2
<1> QED BY <1>1, <1>2, <1>3

LEMMA StaysIn ==
  ASSUME NEW N \in Nat, NEW V, NEW f, f[0] \in V,
         \A i \in 1..N : f[i - 1] \in V => f[i] \in V
  PROVE  f[N] \in V
<1> DEFINE P == {i \in 0..N : f[i] \in V}
<1>1. 0 \in P
  OBVIOUS
<1>2. \A i \in 0..N - 1 : i \in P => i + 1 \in P
  <2> SUFFICES ASSUME NEW i \in 0..N - 1, i \in P PROVE i + 1 \in P
    OBVIOUS
  <2>1. i + 1 \in 1..N /\ (i + 1) - 1 = i /\ i + 1 \in 0..N
    OBVIOUS
  <2> QED BY <2>1
<1> HIDE DEF P
<1>3. N \in 0..N
  OBVIOUS
<1>4. N \in P
  BY <1>1, <1>2, <1>3, UpTo
<1> QED BY <1>4 DEF P

\* A loop over N steps has its intermediate results.
Runs(f, N, base, step) == f[0] = base /\ \A i \in 1..N : f[i] = step[<<f[i - 1], i>>]
LEMMA StepsExist ==
  ASSUME NEW N \in Nat, NEW V, NEW base \in V, NEW step \in [V \X (1..N) -> V]
  PROVE  \E f : f \in [0..N -> V] /\ Runs(f, N, base, step)
<1> DEFINE Has(n) == \E f : f \in [0..n -> V] /\ Runs(f, n, base, step)
           P == {n \in 0..N : Has(n)}
<1>1. 0 \in P
  <2> DEFINE f == [k \in 0..0 |-> base]
  <2>1. f \in [0..0 -> V] /\ f[0] = base /\ \A i \in 1..0 : f[i] = step[<<f[i - 1], i>>]
    OBVIOUS
  <2>2. Has(0)
    <3> HIDE DEF f
    <3> QED BY <2>1 DEF Runs
  <2> QED BY <2>2
<1>2. ASSUME NEW n \in 0..N - 1, n \in P PROVE n + 1 \in P
  <2>1. PICK g \in [0..n -> V] : g[0] = base /\ \A i \in 1..n : g[i] = step[<<g[i - 1], i>>]
    BY <1>2 DEF Runs
  <2> DEFINE h == [k \in 0..n + 1 |-> IF k = n + 1 THEN step[<<g[n], n + 1>>] ELSE g[k]]
  <2>2. step[<<g[n], n + 1>>] \in V
    BY <2>1
  <2>3. h \in [0..n + 1 -> V] /\ h[0] = base
    BY <2>1, <2>2
  <2>4. ASSUME NEW i \in 1..n + 1 PROVE h[i] = step[<<h[i - 1], i>>]
    <3>1. CASE i = n + 1
      <4>1. i - 1 = n /\ n \in 0..n + 1 /\ n # n + 1 /\ n + 1 \in 0..n + 1
        BY <3>1
      <4>2. h[n] = g[n] /\ h[n + 1] = step[<<g[n], n + 1>>]
        BY <4>1
      <4> HIDE DEF h
      <4> QED BY <3>1, <4>1, <4>2
    <3>2. CASE i # n + 1
      <4>1. i \in 1..n /\ i - 1 \in 0..n /\ i - 1 # n + 1
        BY <3>2
      <4> QED BY <2>1, <4>1
    <3> QED BY <3>1, <3>2
  <2>5. Has(n + 1)
    <3> HIDE DEF h
    <3> QED BY <2>3, <2>4 DEF Runs
  <2> QED BY <2>5
<1> HIDE DEF P
<1>3. N \in P
  BY <1>1, <1>2, UpTo
<1> QED BY <1>3 DEF P

-----------------------------------------------------------------------------
\* A strict order of the elements of S in which any two are told apart.
Orders(R, S) ==
  /\ \A x \in S : <<x, x>> \notin R
  /\ \A x, y, z \in S : <<x, y>> \in R /\ <<y, z>> \in R => <<x, z>> \in R
  /\ \A x, y \in S : x # y => <<x, y>> \in R \/ <<y, x>> \in R

\* InOrder names every element once, in the order.
LEMMA InOrderIs ==
  ASSUME NEW S, IsFiniteSet(S), NEW R, Orders(R, S)
  PROVE  /\ InOrder(S, R) \in Seq(S) /\ Len(InOrder(S, R)) = Cardinality(S)
         /\ DOMAIN InOrder(S, R) = 1..Cardinality(S) /\ ToSet(InOrder(S, R)) = S
         /\ \A i, j \in DOMAIN InOrder(S, R) :
              InOrder(S, R)[i] = InOrder(S, R)[j] => i = j
         /\ \A i, j \in DOMAIN InOrder(S, R) :
              i < j => <<InOrder(S, R)[i], InOrder(S, R)[j]>> \in R
<1> DEFINE Before(x) == {y \in S : <<y, x>> \in R}
           n == Cardinality(S)
           place == [x \in S |-> Cardinality(Before(x)) + 1]
           s == InOrder(S, R)
<1>1. n \in Nat
  BY FS_CardinalityType
<1>2. \A x \in S : IsFiniteSet(Before(x)) /\ Cardinality(Before(x)) \in Nat
  BY FS_Subset, FS_CardinalityType
<1>3. ASSUME NEW x \in S PROVE place[x] \in 1..n
  <2>1. Before(x) # S /\ Before(x) \in SUBSET S
    BY DEF Orders
  <2>2. Cardinality(Before(x)) <= n /\ Cardinality(Before(x)) # n
    BY <2>1, FS_Subset
  <2> QED BY <1>1, <1>2, <2>2
<1>4. ASSUME NEW x \in S, NEW y \in S, <<x, y>> \in R PROVE place[x] < place[y]
  <2>1. Before(x) \in SUBSET Before(y) /\ x \in Before(y) /\ x \notin Before(x)
    BY <1>4 DEF Orders
  <2>2. Cardinality(Before(x)) <= Cardinality(Before(y))
        /\ Cardinality(Before(x)) # Cardinality(Before(y))
    <3> HIDE DEF Before
    <3> QED BY <1>2, <2>1, FS_Subset
  <2> QED BY <1>2, <2>2
<1>5. \A x, y \in S : place[x] = place[y] => x = y
  <2>1. \A x \in S : place[x] \in Nat
    BY <1>2
  <2> HIDE DEF place
  <2>2. ASSUME NEW x \in S, NEW y \in S, x # y PROVE place[x] # place[y]
    <3>1. place[x] < place[y] \/ place[y] < place[x]
      BY <1>4, <2>2 DEF Orders
    <3> QED BY <2>1, <3>1
  <2> QED BY <2>2
<1>6. \A i \in 1..n : \E x \in S : place[x] = i
  <2>1. place \in Injection(S, 1..n)
    BY <1>3, <1>5 DEF Injection, IsInjective
  <2>2. IsFiniteSet(1..n) /\ Cardinality(1..n) = n
    BY <1>1, FS_Interval
  <2>3. place \in Surjection(S, 1..n)
    <3> HIDE DEF place
    <3> QED BY <2>1, <2>2, FS_Injection
  <2> QED BY <2>3 DEF Surjection
<1>7. s = [i \in 1..n |-> s[i]] /\ \A i \in 1..n : s[i] \in S /\ place[s[i]] = i
  <2> DEFINE places == {<<x, Cardinality({y \in S : <<y, x>> \in R}) + 1>> : x \in S}
  <2>1. s = [i \in 1..n |-> CHOOSE x \in S : <<x, i>> \in places]
    BY DEF InOrder
  <2>2. \A x \in S, i \in 1..n : <<x, i>> \in places <=> place[x] = i
    OBVIOUS
  <2>4. s = [i \in 1..n |-> s[i]]
    <3> HIDE DEF places, n, place
    <3> QED BY <2>1
  <2> HIDE DEF places, place, s
  <2>3. ASSUME NEW i \in 1..n PROVE s[i] \in S /\ place[s[i]] = i
    <3>1. \E x \in S : <<x, i>> \in places
      BY <1>6, <2>2
    <3>2. (CHOOSE x \in S : <<x, i>> \in places) \in S
          /\ <<CHOOSE x \in S : <<x, i>> \in places, i>> \in places
      BY <3>1
    <3> QED BY <2>1, <2>2, <3>2
  <2> QED BY <2>3, <2>4
<1> HIDE DEF s, place
<1>8. s \in Seq(S) /\ Len(s) = n /\ DOMAIN s = 1..n
  <2>1. s \in [1..n -> S]
    BY <1>7
  <2> QED BY <1>1, <2>1
<1>9. ToSet(s) = S
  <2>1. \A x \in S : s[place[x]] = x /\ place[x] \in 1..n
    BY <1>3, <1>5, <1>7
  <2> QED BY <1>7, <1>8, <2>1 DEF ToSet
<1>10. ASSUME NEW i \in DOMAIN s, NEW j \in DOMAIN s, i < j PROVE <<s[i], s[j]>> \in R
  <2>1. s[i] \in S /\ s[j] \in S /\ place[s[i]] = i /\ place[s[j]] = j
    BY <1>7, <1>8
  <2>2. ~(place[s[j]] < place[s[i]]) /\ s[i] # s[j]
    BY <1>1, <1>8, <1>10, <2>1
  <2>3. <<s[j], s[i]>> \notin R
    BY <1>4, <2>1, <2>2
  <2> QED BY <2>1, <2>2, <2>3 DEF Orders
<1>11. \A i, j \in DOMAIN s : s[i] = s[j] => i = j
  BY <1>7, <1>8
<1> QED BY <1>8, <1>9, <1>10, <1>11 DEF s

\* Numbers, ascending.
LEMMA AscendingIs ==
  ASSUME NEW S, IsFiniteSet(S), S \subseteq Int
  PROVE  /\ Ascending(S) \in Seq(S) /\ Len(Ascending(S)) = Cardinality(S)
         /\ DOMAIN Ascending(S) = 1..Cardinality(S) /\ ToSet(Ascending(S)) = S
         /\ \A i, j \in DOMAIN Ascending(S) : Ascending(S)[i] = Ascending(S)[j] => i = j
         /\ \A i, j \in DOMAIN Ascending(S) : i < j => Ascending(S)[i] < Ascending(S)[j]
<1> DEFINE R == {p \in S \X S : p[1] < p[2]}
<1>1. \A x, y \in S : <<x, y>> \in R <=> x < y
  OBVIOUS
<1>2. Ascending(S) = InOrder(S, R)
  BY DEF Ascending
<1> HIDE DEF R
<1>3. Orders(R, S)
  BY <1>1 DEF Orders
<1>4. ToSet(InOrder(S, R)) = S /\ DOMAIN InOrder(S, R) = 1..Cardinality(S)
  BY <1>3, InOrderIs
<1>5. \A i \in DOMAIN InOrder(S, R) : InOrder(S, R)[i] \in S
  BY <1>4 DEF ToSet
<1> QED BY <1>1, <1>2, <1>3, <1>5, InOrderIs

\* The least and the greatest of finitely many numbers.
LEMMA MinIs ==
  ASSUME NEW S, IsFiniteSet(S), S \subseteq Int, S # {}
  PROVE  Min(S) \in S /\ \A x \in S : Min(S) <= x
<1> DEFINE s == Ascending(S)
<1>1. /\ DOMAIN s = 1..Cardinality(S) /\ ToSet(s) = S
      /\ \A i, j \in DOMAIN s : i < j => s[i] < s[j]
  BY AscendingIs
<1>2. Cardinality(S) \in Nat \ {0}
  BY FS_EmptySet, FS_CardinalityType
<1> HIDE DEF s
<1>3. 1 \in DOMAIN s /\ \A i \in DOMAIN s : i = 1 \/ 1 < i
  BY <1>1, <1>2
<1>4. s[1] \in S /\ \A y \in S : s[1] =< y
  <2>1. s[1] \in S
    BY <1>1, <1>3 DEF ToSet
  <2>2. ASSUME NEW y \in S PROVE s[1] =< y
    <3>1. PICK i \in DOMAIN s : y = s[i]
      BY <1>1 DEF ToSet
    <3>2. s[1] \in Int /\ y \in Int
      BY <2>1
    <3>3. i = 1 \/ s[1] < s[i]
      BY <1>1, <1>3
    <3> QED BY <3>1, <3>2, <3>3
  <2> QED BY <2>1, <2>2
<1> QED BY <1>4 DEF Min

LEMMA MaxIs ==
  ASSUME NEW S, IsFiniteSet(S), S \subseteq Int, S # {}
  PROVE  Max(S) \in S /\ \A x \in S : x <= Max(S)
<1> DEFINE s == Ascending(S)
           n == Cardinality(S)
<1>1. /\ DOMAIN s = 1..n /\ ToSet(s) = S
      /\ \A i, j \in DOMAIN s : i < j => s[i] < s[j]
  BY AscendingIs
<1>2. n \in Nat \ {0}
  BY FS_EmptySet, FS_CardinalityType
<1> HIDE DEF s, n
<1>3. n \in DOMAIN s /\ \A i \in DOMAIN s : i = n \/ i < n
  BY <1>1, <1>2
<1>4. s[n] \in S /\ \A y \in S : s[n] >= y
  BY <1>1, <1>3 DEF ToSet
<1> QED BY <1>4 DEF Max

\* Two of them.
LEMMA MinMaxPair ==
  ASSUME NEW a \in Int, NEW b \in Int
  PROVE  /\ Min({a, b}) = IF a <= b THEN a ELSE b
         /\ Max({a, b}) = IF a <= b THEN b ELSE a
<1>1. IsFiniteSet({a, b})
  <2>1. {a, b} = {a} \cup {b} /\ IsFiniteSet({a})
    BY FS_Singleton
  <2>2. IsFiniteSet({a} \cup {b})
    BY <2>1, FS_AddElement
  <2> QED BY <2>1, <2>2
<1>2. Min({a, b}) \in {a, b} /\ \A x \in {a, b} : Min({a, b}) <= x
  BY <1>1, MinIs
<1>3. Max({a, b}) \in {a, b} /\ \A x \in {a, b} : x <= Max({a, b})
  BY <1>1, MaxIs
<1> QED BY <1>2, <1>3

-----------------------------------------------------------------------------
(* Sums.  SumFunction picks the next element as it likes.                  *)

Pick(U) == CHOOSE x \in U : TRUE
Sums(f, S, h) ==
  f = [U \in SUBSET S |-> IF U = {} THEN 0 ELSE h[Pick(U)] + f[U \ {Pick(U)}]]

LEMMA SumsAt ==
  ASSUME NEW f, NEW S, NEW h, Sums(f, S, h)
  PROVE  /\ f[{}] = 0
         /\ \A U \in SUBSET S : U # {} =>
              Pick(U) \in U /\ f[U] = h[Pick(U)] + f[U \ {Pick(U)}]
<1>1. \A U \in SUBSET S : f[U] = IF U = {} THEN 0 ELSE h[Pick(U)] + f[U \ {Pick(U)}]
  BY Zenon DEF Sums
<1>2. \A U \in SUBSET S : U # {} => Pick(U) \in U
  BY DEF Pick
<1>3. {} \in SUBSET S
  OBVIOUS
<1> QED BY <1>1, <1>2, <1>3

\* One element less.
LEMMA PickSmaller ==
  ASSUME NEW S, IsFiniteSet(S), NEW U \in SUBSET S, NEW x \in U
  PROVE  /\ IsFiniteSet(U) /\ Cardinality(U) \in Nat \ {0} /\ Cardinality(U) <= Cardinality(S)
         /\ U \ {x} \in SUBSET S /\ Cardinality(U \ {x}) = Cardinality(U) - 1
<1>1. IsFiniteSet(U) /\ Cardinality(U) <= Cardinality(S) /\ Cardinality(U) \in Nat
  BY FS_Subset, FS_CardinalityType
<1>2. Cardinality(U \ {x}) = Cardinality(U) - 1 /\ IsFiniteSet(U \ {x})
  BY <1>1, FS_RemoveElement
<1>3. Cardinality(U \ {x}) \in Nat
  BY <1>2, FS_CardinalityType
<1> QED BY <1>1, <1>2, <1>3

LEMMA SumsExist ==
  ASSUME NEW S, IsFiniteSet(S), NEW V \in {Nat, Int}, NEW h \in [S -> V]
  PROVE  \E f \in [SUBSET S -> V] : Sums(f, S, h)
<1> DEFINE N == Cardinality(S)
           Small(n) == {U \in SUBSET S : Cardinality(U) <= n}
           Good(f, n) == \A U \in Small(n) :
                           f[U] = IF U = {} THEN 0 ELSE h[Pick(U)] + f[U \ {Pick(U)}]
           P == {n \in 0..N : \E f \in [Small(n) -> V] : Good(f, n)}
<1>0. N \in Nat
  BY FS_CardinalityType
<1>1. 0 \in P
  <2> DEFINE f == [U \in Small(0) |-> 0]
  <2>1. \A U \in Small(0) : U = {}
    <3>1. ASSUME NEW U \in Small(0), U # {} PROVE FALSE
      <4>1. PICK x \in U : TRUE
        BY <3>1
      <4>2. Cardinality(U) <= 0 /\ U \in SUBSET S
        OBVIOUS
      <4>3. Cardinality(U) \in Nat \ {0}
        BY <4>1, <4>2, PickSmaller
      <4> QED BY <4>2, <4>3
    <3> QED BY <3>1
  <2>2. f \in [Small(0) -> V] /\ Good(f, 0)
    BY <2>1
  <2> HIDE DEF f, Small, Good
  <2> QED BY <1>0, <2>2
<1>2. ASSUME NEW n \in 0..N - 1, n \in P PROVE n + 1 \in P
  <2>1. PICK g \in [Small(n) -> V] : Good(g, n)
    BY <1>2
  <2> DEFINE f == [U \in Small(n + 1) |-> IF U = {} THEN 0 ELSE h[Pick(U)] + g[U \ {Pick(U)}]]
  <2>2. ASSUME NEW U \in Small(n + 1), U # {}
        PROVE  /\ Pick(U) \in U /\ U \ {Pick(U)} \in Small(n) /\ U \ {Pick(U)} \in Small(n + 1)
               /\ h[Pick(U)] + g[U \ {Pick(U)}] \in V
    <3>1. Pick(U) \in U
      BY <2>2 DEF Pick
    <3>2. U \ {Pick(U)} \in SUBSET S /\ Cardinality(U \ {Pick(U)}) = Cardinality(U) - 1
          /\ Cardinality(U) \in Nat
      BY <3>1, PickSmaller
    <3>3. U \ {Pick(U)} \in Small(n) /\ U \ {Pick(U)} \in Small(n + 1)
      BY <3>2
    <3>4. h[Pick(U)] \in V /\ g[U \ {Pick(U)}] \in V
      BY <2>1, <3>1, <3>3
    <3> QED BY <3>1, <3>3, <3>4
  <2> HIDE DEF Small
  <2>3. f \in [Small(n + 1) -> V]
    BY <2>2
  <2>4. \A U \in Small(n) : f[U] = g[U] /\ U \in Small(n + 1)
    <3>1. \A U \in Small(n) : U \in Small(n + 1)
      BY FS_Subset, FS_CardinalityType DEF Small
    <3> QED BY <2>1, <3>1
  <2>5. Good(f, n + 1)
    <3>1. ASSUME NEW U \in Small(n + 1), U # {}
          PROVE  f[U] = h[Pick(U)] + f[U \ {Pick(U)}]
      <4>1. f[U \ {Pick(U)}] = g[U \ {Pick(U)}]
        BY <2>2, <2>4, <3>1
      <4>2. f[U] = h[Pick(U)] + g[U \ {Pick(U)}]
        BY <3>1
      <4> QED BY <4>1, <4>2
    <3>2. ASSUME NEW U \in Small(n + 1), U = {} PROVE f[U] = 0
      BY <3>2
    <3> HIDE DEF f
    <3> QED BY <3>1, <3>2
  <2>6. n + 1 \in 0..N
    BY <1>0
  <2> HIDE DEF f, Good
  <2> QED BY <2>3, <2>5, <2>6
<1>3. N \in P
  <2> HIDE DEF P
  <2> QED BY <1>0, <1>1, <1>2, UpTo
<1>4. Small(N) = SUBSET S
  BY FS_Subset
<1>5. PICK f \in [SUBSET S -> V] : Good(f, N)
  <2> HIDE DEF Small
  <2> QED BY <1>3, <1>4
<1>6. f = [U \in SUBSET S |-> f[U]]
  OBVIOUS
<1>7. \A U \in SUBSET S : f[U] = IF U = {} THEN 0 ELSE h[Pick(U)] + f[U \ {Pick(U)}]
  BY <1>4, <1>5
<1> QED BY <1>6, <1>7 DEF Sums

\* A sum depends on what is summed alone.
LEMMA SumsAgree ==
  ASSUME NEW S, IsFiniteSet(S), NEW T, NEW f, NEW g, NEW h, NEW k,
         Sums(f, S, h), Sums(g, T, k), S \subseteq T, \A x \in S : h[x] = k[x]
  PROVE  \A U \in SUBSET S : f[U] = g[U]
<1> DEFINE N == Cardinality(S)
           P == {n \in 0..N : \A U \in SUBSET S : Cardinality(U) <= n => f[U] = g[U]}
<1>0. N \in Nat
  BY FS_CardinalityType
<1>1. f[{}] = 0 /\ g[{}] = 0
  BY SumsAt
<1>a. \A U \in SUBSET S : U # {} => Pick(U) \in U /\ f[U] = h[Pick(U)] + f[U \ {Pick(U)}]
  BY SumsAt
<1>2. ASSUME NEW U \in SUBSET S, U # {}
      PROVE  /\ Pick(U) \in U /\ U \ {Pick(U)} \in SUBSET S
             /\ Cardinality(U \ {Pick(U)}) = Cardinality(U) - 1 /\ Cardinality(U) \in Nat \ {0}
             /\ f[U] = h[Pick(U)] + f[U \ {Pick(U)}] /\ g[U] = h[Pick(U)] + g[U \ {Pick(U)}]
  <2>1. Pick(U) \in U /\ f[U] = h[Pick(U)] + f[U \ {Pick(U)}]
    BY <1>2, <1>a
  <2>2. U \in SUBSET T /\ g[U] = k[Pick(U)] + g[U \ {Pick(U)}]
    BY <1>2, SumsAt
  <2>3. h[Pick(U)] = k[Pick(U)]
    BY <2>1
  <2> QED BY <2>1, <2>2, <2>3, PickSmaller
<1>3. 0 \in P
  <2>1. ASSUME NEW U \in SUBSET S, Cardinality(U) <= 0 PROVE f[U] = g[U]
    <3>1. U = {}
      <4>1. U # {} => Cardinality(U) \in Nat \ {0}
        BY <1>2
      <4> QED BY <2>1, <4>1
    <3> QED BY <1>1, <3>1
  <2> QED BY <1>0, <2>1
<1>4. ASSUME NEW n \in 0..N - 1, n \in P PROVE n + 1 \in P
  <2>1. ASSUME NEW U \in SUBSET S, Cardinality(U) <= n + 1 PROVE f[U] = g[U]
    <3>1. CASE U = {}
      BY <1>1, <3>1
    <3>2. CASE U # {}
      <4>1. Cardinality(U \ {Pick(U)}) <= n /\ U \ {Pick(U)} \in SUBSET S
        BY <1>2, <2>1, <3>2
      <4>2. f[U \ {Pick(U)}] = g[U \ {Pick(U)}]
        BY <1>4, <4>1
      <4> QED BY <1>2, <3>2, <4>2
    <3> QED BY <3>1, <3>2
  <2>2. n + 1 \in 0..N
    BY <1>0
  <2> QED BY <2>1, <2>2
<1>5. N \in P
  <2> HIDE DEF P
  <2> QED BY <1>0, <1>3, <1>4, UpTo
<1> QED BY <1>5, FS_Subset

\* SumFunction is such a sum.
LEMMA SumIs ==
  ASSUME NEW S, IsFiniteSet(S), NEW V \in {Nat, Int}, NEW h \in [S -> V]
  PROVE  \E f \in [SUBSET S -> V] : Sums(f, S, h) /\ SumFunction(h) = f[S]
<1> DEFINE it == CHOOSE it :
                   it = [s \in SUBSET S |->
                           IF s = {} THEN 0
                           ELSE h[CHOOSE x \in s : TRUE] + it[s \ {CHOOSE x \in s : TRUE}]]
<1>1. SumFunction(h) = it[S]
  BY DEF SumFunction, SumFunctionOnSet, FoldFunctionOnSet, MapThenFoldSet
<1>2. PICK f \in [SUBSET S -> V] : Sums(f, S, h)
  BY SumsExist
<1>3. it = [s \in SUBSET S |->
              IF s = {} THEN 0
              ELSE h[CHOOSE x \in s : TRUE] + it[s \ {CHOOSE x \in s : TRUE}]]
  BY <1>2 DEF Sums, Pick
<1> HIDE DEF it
<1>4. Sums(it, S, h)
  BY <1>3 DEF Sums, Pick
<1>5. it[S] = f[S]
  BY <1>2, <1>4, SumsAgree
<1> QED BY <1>1, <1>2, <1>5

LEMMA SumEmpty ==
  ASSUME NEW h \in [{} -> Int]
  PROVE  SumFunction(h) = 0
BY FS_EmptySet, SumIs, SumsAt

LEMMA SumType ==
  ASSUME NEW S, IsFiniteSet(S), NEW V \in {Nat, Int}, NEW h \in [S -> V]
  PROVE  SumFunction(h) \in V
<1>1. PICK f \in [SUBSET S -> V] : SumFunction(h) = f[S]
  BY SumIs
<1>2. S \in SUBSET S
  OBVIOUS
<1> QED BY <1>1, <1>2

\* Any element can be taken out first.
Splits(f, S, h) == \A U \in SUBSET S : \A x \in U : f[U] = h[x] + f[U \ {x}]
LEMMA SumsSplit ==
  ASSUME NEW S, IsFiniteSet(S), NEW h, NEW f, Sums(f, S, h)
  PROVE  h \in [S -> Int] /\ f \in [SUBSET S -> Int] => Splits(f, S, h)
<1> DEFINE N == Cardinality(S)
           P == {n \in 0..N : \A U \in SUBSET S : Cardinality(U) <= n =>
                                \A x \in U : f[U] = h[x] + f[U \ {x}]}
<1>0. N \in Nat
  BY FS_CardinalityType
<1>1. \A U \in SUBSET S : U # {} => Pick(U) \in U /\ f[U] = h[Pick(U)] + f[U \ {Pick(U)}]
  BY SumsAt
<1> HAVE h \in [S -> Int] /\ f \in [SUBSET S -> Int]
<1>2. \A U \in SUBSET S : \A x \in U :
        /\ U \ {x} \in SUBSET S /\ Cardinality(U \ {x}) = Cardinality(U) - 1
        /\ Cardinality(U) \in Nat \ {0}
  BY PickSmaller
<1>3. 0 \in P
  <2>1. ASSUME NEW U \in SUBSET S, Cardinality(U) <= 0, NEW x \in U PROVE FALSE
    <3>1. Cardinality(U) \in Nat \ {0}
      BY <1>2
    <3> QED BY <2>1, <3>1
  <2> QED BY <1>0, <2>1
<1>4. ASSUME NEW n \in 0..N - 1, n \in P PROVE n + 1 \in P
  <2>1. ASSUME NEW U \in SUBSET S, Cardinality(U) <= n + 1, NEW x \in U
        PROVE  f[U] = h[x] + f[U \ {x}]
    <3> DEFINE c == Pick(U)
    <3>1. c \in U /\ f[U] = h[c] + f[U \ {c}]
      BY <1>1
    <3> HIDE DEF c
    <3>2. CASE x = c
      BY <3>1, <3>2
    <3>3. CASE x # c
      <4>1. /\ U \ {c} \in SUBSET S /\ x \in U \ {c} /\ Cardinality(U \ {c}) <= n
            /\ U \ {x} \in SUBSET S /\ c \in U \ {x} /\ Cardinality(U \ {x}) <= n
        BY <1>2, <2>1, <3>1, <3>3
      <4>2. f[U \ {c}] = h[x] + f[(U \ {c}) \ {x}] /\ f[U \ {x}] = h[c] + f[(U \ {x}) \ {c}]
        BY <1>4, <4>1
      <4>3. (U \ {c}) \ {x} = (U \ {x}) \ {c} /\ (U \ {c}) \ {x} \in SUBSET S
        OBVIOUS
      <4>4. h[x] \in Int /\ h[c] \in Int /\ f[(U \ {c}) \ {x}] \in Int
        BY <3>1, <4>3
      <4>5. f[U] = h[c] + (h[x] + f[(U \ {c}) \ {x}])
        BY <3>1, <4>2
      <4>6. f[U \ {x}] = h[c] + f[(U \ {c}) \ {x}]
        BY <4>2, <4>3
      <4> HIDE DEF P
      <4> QED BY <4>4, <4>5, <4>6
    <3> QED BY <3>2, <3>3
  <2>2. n + 1 \in 0..N
    BY <1>0
  <2> QED BY <2>1, <2>2
<1>5. N \in P
  <2> HIDE DEF P
  <2> QED BY <1>0, <1>3, <1>4, UpTo
<1> QED BY <1>5, FS_Subset DEF Splits

LEMMA SumSplit ==
  ASSUME NEW S, IsFiniteSet(S), NEW h \in [S -> Int], NEW x \in S
  PROVE  SumFunction(h) = h[x] + SumFunction([y \in S \ {x} |-> h[y]])
<1> DEFINE k == [y \in S \ {x} |-> h[y]]
<1>1. PICK f \in [SUBSET S -> Int] : Sums(f, S, h) /\ SumFunction(h) = f[S]
  BY SumIs
<1>2. IsFiniteSet(S \ {x}) /\ k \in [S \ {x} -> Int]
  BY FS_RemoveElement
<1>3. \A y \in S \ {x} : k[y] = h[y]
  OBVIOUS
<1> HIDE DEF k
<1>4. PICK g \in [SUBSET (S \ {x}) -> Int] :
        Sums(g, S \ {x}, k) /\ SumFunction(k) = g[S \ {x}]
  BY <1>2, SumIs
<1>5. g[S \ {x}] = f[S \ {x}]
  BY <1>1, <1>2, <1>3, <1>4, SumsAgree
<1>6. f[S] = h[x] + f[S \ {x}]
  <2>1. h \in [S -> Int] /\ f \in [SUBSET S -> Int] /\ Sums(f, S, h)
    BY <1>1
  <2>2. Splits(f, S, h)
    BY <2>1, SumsSplit
  <2>3. S \in SUBSET S
    OBVIOUS
  <2> QED BY <2>2, <2>3 DEF Splits
<1> QED BY <1>1, <1>4, <1>5, <1>6 DEF k

-----------------------------------------------------------------------------
(* The graph is connected, and its parts are closed.                       *)

\* What S leads to in one step within N, and sets that lead nowhere else.
Widened(S, N, L) == S \cup {x \in N : \E m \in S : <<m, x>> \in L}
Closed(S, N, L)  == \A m \in S : \A x \in N : <<m, x>> \in L => x \in S

\* Widened as often as N has elements, a set is closed: until it is, it grows.
LEMMA Closes ==
  ASSUME NEW N, IsFiniteSet(N), NEW L, NEW C \in [0..Cardinality(N) -> SUBSET N], C[0] # {},
         \A k \in 0..Cardinality(N) - 1 : C[k + 1] = Widened(C[k], N, L)
  PROVE  Closed(C[Cardinality(N)], N, L)
<1> DEFINE K == Cardinality(N)
           P == {k \in 0..K : Closed(C[k], N, L) \/ Cardinality(C[k]) >= k + 1}
<1>0. K \in Nat
  BY FS_CardinalityType
<1>1. \A k \in 0..K : /\ C[k] \in SUBSET N /\ IsFiniteSet(C[k])
                      /\ Cardinality(C[k]) \in Nat /\ Cardinality(C[k]) <= K
  <2>1. \A k \in 0..K : C[k] \in SUBSET N
    BY <1>0
  <2> QED BY <2>1, FS_Subset, FS_CardinalityType
<1>2. 0 \in P
  <2>1. 0 \in 0..K
    BY <1>0
  <2>2. Cardinality(C[0]) # 0 /\ Cardinality(C[0]) \in Nat
    BY <1>1, <2>1, FS_EmptySet
  <2> QED BY <2>1, <2>2
<1>3. ASSUME NEW k \in 0..K - 1, k \in P PROVE k + 1 \in P
  <2>0. k \in 0..K /\ k + 1 \in 0..K /\ k \in Nat
    BY <1>0
  <2>1. C[k + 1] = Widened(C[k], N, L)
    BY <1>3
  <2>2. CASE Closed(C[k], N, L)
    <3>1. C[k + 1] = C[k]
      BY <2>1, <2>2 DEF Widened, Closed
    <3> QED BY <2>0, <2>2, <3>1
  <2>3. CASE ~Closed(C[k], N, L)
    <3>1. PICK x \in N : x \in C[k + 1] /\ x \notin C[k]
      BY <2>1, <2>3 DEF Widened, Closed
    <3>2. C[k] \cup {x} \in SUBSET C[k + 1]
      BY <2>1, <3>1 DEF Widened
    <3>3. Cardinality(C[k] \cup {x}) = Cardinality(C[k]) + 1
      BY <1>1, <2>0, <3>1, FS_AddElement
    <3>4. Cardinality(C[k] \cup {x}) <= Cardinality(C[k + 1])
      BY <1>1, <2>0, <3>2, FS_Subset
    <3>5. Cardinality(C[k]) >= k + 1
      BY <1>3, <2>3
    <3>6. Cardinality(C[k]) \in Nat /\ Cardinality(C[k + 1]) \in Nat
      BY <1>1, <2>0
    <3>7. Cardinality(C[k + 1]) >= (k + 1) + 1
      BY <2>0, <3>3, <3>4, <3>5, <3>6
    <3> QED BY <2>0, <3>7
  <2> QED BY <2>2, <2>3
<1>4. K \in P
  <2>1. \A k \in 0..K - 1 : k \in P => k + 1 \in P
    BY <1>3
  <2>2. K \in 0..K
    BY <1>0
  <2> HIDE DEF P, K
  <2> QED BY <1>0, <1>2, <2>1, <2>2, UpTo
<1>5. ~(Cardinality(C[K]) >= K + 1)
  <2>1. Cardinality(C[K]) \in Nat /\ Cardinality(C[K]) <= K
    BY <1>0, <1>1
  <2> QED BY <1>0, <2>1
<1> QED BY <1>4, <1>5

\* It stays within any closed set it starts in.
LEMMA StaysWithin ==
  ASSUME NEW K \in Nat, NEW N, NEW L, NEW C, NEW D, C[0] \subseteq D, Closed(D, N, L),
         \A k \in 0..K - 1 : C[k + 1] = Widened(C[k], N, L)
  PROVE  C[K] \subseteq D
<1> DEFINE P == {k \in 0..K : C[k] \subseteq D}
<1>1. 0 \in P
  OBVIOUS
<1>2. ASSUME NEW k \in 0..K - 1, k \in P PROVE k + 1 \in P
  <2>1. k + 1 \in 0..K /\ C[k] \subseteq D
    BY <1>2
  <2>2. C[k + 1] = Widened(C[k], N, L)
    OBVIOUS
  <2>3. C[k + 1] \subseteq D
    BY <2>1, <2>2 DEF Widened, Closed
  <2> QED BY <2>1, <2>3
<1>3. K \in P
  <2> HIDE DEF P
  <2> QED BY <1>1, <1>2, UpTo
<1> QED BY <1>3

\* Two nodes with an edge, and what is known of the graph after the hub is chosen.
Linked(m, n) == \E e \in DOMAIN edges : Ends(edges[e]) = {m, n}
Links == {p \in Ids \X Ids : Linked(p[1], p[2])}
HubIs ==
  /\ hub \in Ids /\ DOMAIN adj = Ids
  /\ \A n \in Ids : Neighbours(n) = {m \in Ids : Linked(n, m)}

LEMMA LinksAre ==
  /\ \A m, n : <<m, n>> \in Links <=> m \in Ids /\ n \in Ids /\ Linked(m, n)
  /\ \A m, n : <<m, n>> \in Links => <<n, m>> \in Links
<1>1. \A m, n : {m, n} = {n, m}
  OBVIOUS
<1>2. \A m, n : Linked(m, n) <=> Linked(n, m)
  BY <1>1 DEF Linked
<1>3. \A m, n : <<m, n>> \in Links <=> m \in Ids /\ n \in Ids /\ Linked(m, n)
  BY DEF Links
<1> QED BY <1>2, <1>3

\* The nodes are finitely many, and so are their neighbours.
LEMMA IdsAre ==
  ASSUME NodesInv
  PROVE  /\ Ids = 1..Len(nodes) /\ Len(nodes) \in Nat
         /\ IsFiniteSet(Ids) /\ Cardinality(Ids) = Len(nodes)
         /\ IsFiniteSet(Others) /\ Others \subseteq Ids
<1>1. nodes \in Seq(NodeType)
  BY DEF NodesInv
<1>2. Ids = 1..Len(nodes) /\ Len(nodes) \in Nat
  BY <1>1 DEF Ids
<1>3. IsFiniteSet(Ids) /\ Cardinality(Ids) = Len(nodes)
  BY <1>2, FS_Interval
<1> QED BY <1>2, <1>3, FS_RemoveElement DEF Others

-----------------------------------------------------------------------------
(* The parts of the graph without some of its nodes.                       *)

LEMMA ComponentIs ==
  ASSUME NodesInv, HubIs, NEW N \in SUBSET Ids, NEW n \in N
  PROVE  /\ Component(n, N) \in SUBSET N /\ n \in Component(n, N)
         /\ Closed(Component(n, N), N, Links)
         /\ \A D : n \in D /\ Closed(D, N, Links) => Component(n, N) \subseteq D
<1> DEFINE K == Cardinality(N)
           V == SUBSET N
           step == [p \in V \X (1..K) |-> UNION {{m} \cup (Neighbours(m) \cap N) : m \in p[1]}]
<1>0. IsFiniteSet(N) /\ K \in Nat
  <2>1. IsFiniteSet(N)
    BY IdsAre, FS_Subset
  <2> QED BY <2>1, FS_CardinalityType
<1>1. \A S \in V : UNION {{m} \cup (Neighbours(m) \cap N) : m \in S} = Widened(S, N, Links)
  <2> SUFFICES ASSUME NEW S \in V
               PROVE  UNION {{m} \cup (Neighbours(m) \cap N) : m \in S} = Widened(S, N, Links)
    OBVIOUS
  <2>1. \A m \in S : \A x \in N : x \in Neighbours(m) <=> <<m, x>> \in Links
    BY LinksAre DEF HubIs
  <2>2. \A x : x \in UNION {{m} \cup (Neighbours(m) \cap N) : m \in S}
                <=> \E m \in S : x = m \/ (x \in N /\ <<m, x>> \in Links)
    <3>1. ASSUME NEW x, x \in UNION {{m} \cup (Neighbours(m) \cap N) : m \in S}
          PROVE  \E m \in S : x = m \/ (x \in N /\ <<m, x>> \in Links)
      <4>1. PICK m \in S : x \in {m} \cup (Neighbours(m) \cap N)
        BY <3>1
      <4> QED BY <2>1, <4>1
    <3>2. ASSUME NEW x, NEW m \in S, x = m \/ (x \in N /\ <<m, x>> \in Links)
          PROVE  x \in UNION {{k} \cup (Neighbours(k) \cap N) : k \in S}
      <4>1. x \in {m} \cup (Neighbours(m) \cap N)
        BY <2>1, <3>2
      <4> QED BY <4>1
    <3> QED BY <3>1, <3>2
  <2>3. \A x : x \in Widened(S, N, Links)
                <=> x \in S \/ (x \in N /\ \E m \in S : <<m, x>> \in Links)
    BY DEF Widened
  <2> QED BY <2>2, <2>3
<1>2. step \in [V \X (1..K) -> V]
  <2>1. \A S \in V : Widened(S, N, Links) \in V
    BY DEF Widened
  <2> QED BY <1>1, <2>1
<1>3. {n} \in V
  OBVIOUS
<1>4. PICK f : f \in [0..K -> V] /\ Runs(f, K, {n}, step)
  <2> HIDE DEF step, V, K
  <2> QED BY <1>0, <1>2, <1>3, StepsExist
<1>5. \A i \in 1..K : f[i] = UNION {{m} \cup (Neighbours(m) \cap N) : m \in f[i - 1]}
  <2> SUFFICES ASSUME NEW i \in 1..K
               PROVE  f[i] = UNION {{m} \cup (Neighbours(m) \cap N) : m \in f[i - 1]}
    OBVIOUS
  <2>1. i - 1 \in 0..K
    BY <1>0
  <2>2. <<f[i - 1], i>> \in V \X (1..K)
    BY <1>4, <2>1
  <2> QED BY <1>4, <2>2 DEF Runs
<1> DEFINE Body(g) == [k \in 0..K |-> IF k = 0 THEN {n}
                        ELSE UNION {{m} \cup (Neighbours(m) \cap N) : m \in g[k - 1]}]
           reach == CHOOSE g : g = Body(g)
<1> HIDE DEF step, V
<1>6. f = Body(f)
  <2>1. f = [k \in 0..K |-> f[k]]
    BY <1>4
  <2>2. \A k \in 0..K : k = 0 \/ k \in 1..K
    BY <1>0
  <2>3. f[0] = {n}
    BY <1>4 DEF Runs
  <2> QED BY <1>5, <2>1, <2>2, <2>3
<1>7. reach = Body(reach)
  <2> HIDE DEF Body
  <2> QED BY <1>6
<1>8. Component(n, N) = reach[K]
  BY DEF Component
<1> HIDE DEF reach
<1>9. /\ reach = [k \in 0..K |-> reach[k]] /\ reach[0] = {n}
      /\ \A k \in 1..K : reach[k] = UNION {{m} \cup (Neighbours(m) \cap N) : m \in reach[k - 1]}
  <2>1. \A k \in 0..K : reach[k] = IF k = 0 THEN {n}
                         ELSE UNION {{m} \cup (Neighbours(m) \cap N) : m \in reach[k - 1]}
    BY <1>7
  <2>2. 0 \in 0..K /\ \A k \in 1..K : k \in 0..K /\ k # 0
    BY <1>0
  <2>3. reach = [k \in 0..K |-> reach[k]]
    BY <1>7
  <2> QED BY <2>1, <2>2, <2>3
<1> DEFINE P == {k \in 0..K : reach[k] \in V}
<1>10. \A k \in 0..K : k \in P
  <2>1. 0 \in P
    <3>1. 0 \in 0..K
      BY <1>0
    <3> QED BY <1>3, <1>9, <3>1
  <2>2. ASSUME NEW k \in 0..K - 1, k \in P PROVE k + 1 \in P
    <3>1. k + 1 \in 1..K /\ (k + 1) - 1 = k /\ k + 1 \in 0..K
      BY <1>0
    <3>2. reach[k + 1] = UNION {{m} \cup (Neighbours(m) \cap N) : m \in reach[k]}
      BY <1>9, <3>1
    <3>3. reach[k + 1] \in V
      BY <2>2, <3>2 DEF V
    <3> QED BY <3>1, <3>3
  <2> HIDE DEF P
  <2> QED BY <1>0, <2>1, <2>2, UpTo
<1>11. reach \in [0..K -> SUBSET N]
  BY <1>9, <1>10 DEF V
<1>12. \A k \in 0..K - 1 : reach[k + 1] = Widened(reach[k], N, Links)
  <2> SUFFICES ASSUME NEW k \in 0..K - 1 PROVE reach[k + 1] = Widened(reach[k], N, Links)
    OBVIOUS
  <2>1. k + 1 \in 1..K /\ (k + 1) - 1 = k /\ k \in 0..K
    BY <1>0
  <2>2. reach[k + 1] = UNION {{m} \cup (Neighbours(m) \cap N) : m \in reach[k]}
    BY <1>9, <2>1
  <2> QED BY <1>1, <1>10, <2>1, <2>2
<1>13. Closed(reach[K], N, Links)
  BY <1>0, <1>9, <1>11, <1>12, Closes
<1>14. ASSUME NEW D, n \in D, Closed(D, N, Links) PROVE reach[K] \subseteq D
  <2>1. reach[0] \subseteq D
    BY <1>9, <1>14
  <2> HIDE DEF K
  <2> QED BY <1>0, <1>12, <1>14, <2>1, StaysWithin
<1>15. {n} \subseteq reach[K]
  <2> DEFINE Q == {k \in 0..K : n \in reach[k]}
  <2>1. 0 \in Q
    BY <1>0, <1>9
  <2>2. \A k \in 0..K - 1 : k \in Q => k + 1 \in Q
    BY <1>0, <1>12 DEF Widened
  <2> HIDE DEF Q
  <2>3. K \in Q
    BY <1>0, <2>1, <2>2, UpTo
  <2> QED BY <2>3 DEF Q
<1>16. reach[K] \in SUBSET N
  BY <1>0, <1>11
<1> HIDE DEF K
<1> QED BY <1>8, <1>13, <1>14, <1>15, <1>16

\* Parts that share a node are one.
LEMMA PartsAreDisjoint ==
  ASSUME NodesInv, HubIs, NEW N \in SUBSET Ids, NEW c \in Components(N), NEW d \in Components(N),
         c \cap d # {}
  PROVE  c = d
<1>1. PICK a \in N, b \in N : c = Component(a, N) /\ d = Component(b, N)
  BY DEF Components
<1>2. PICK m \in N : m \in c /\ m \in d
  BY <1>1, ComponentIs
<1>3. ASSUME NEW n \in N, m \in Component(n, N)
      PROVE  Component(n, N) = Component(m, N)
  <2>1. Component(m, N) \subseteq Component(n, N)
    BY <1>3, ComponentIs
  <2> DEFINE D == N \ Component(m, N)
  <2>2. Closed(D, N, Links)
    <3> SUFFICES ASSUME NEW x \in D, NEW y \in N, <<x, y>> \in Links, y \notin D PROVE FALSE
      BY DEF Closed
    <3>1. y \in Component(m, N) /\ <<y, x>> \in Links /\ x \in N /\ x \notin Component(m, N)
      BY LinksAre
    <3> QED BY <3>1, ComponentIs DEF Closed
  <2>3. n \in Component(m, N)
    <3>1. m \in Component(m, N)
      BY ComponentIs
    <3>2. n \notin Component(m, N) => Component(n, N) \subseteq D
      BY <2>2, ComponentIs
    <3> QED BY <1>3, <3>1, <3>2
  <2>4. Component(n, N) \subseteq Component(m, N)
    BY <2>3, ComponentIs
  <2> QED BY <2>1, <2>4
<1> QED BY <1>1, <1>2, <1>3

-----------------------------------------------------------------------------
(* From every node edges lead to the first, and so to any other.           *)

\* A node but the first was met from one before it, and joined to it.
RootInv ==
  /\ \A i \in 2..Len(nodes) : \E j \in 1..i - 1 : {j, i} \in seen_pairs
  /\ stage \notin {"describe", "failed"} => nodes # <<>>

LEMMA RootsInit == Init => RootInv
BY DEF Init, GraphInit, RootInv

LEMMA FollowKeepsRoots ==
  ASSUME NodesInv, RootInv, FollowReference
  PROVE  RootInv'
<1>1. PICK r \in RefType, t \in Tables :
        /\ FollowsTo(r, t) /\ (Known(t) \/ New(t)) /\ Join(r, visited'[t])
        /\ todo # <<>> /\ todo' = Tail(todo) /\ UNCHANGED <<stage, db, cur>>
  BY FollowIs
<1>2. Len(nodes) \in Nat /\ nodes \in Seq(NodeType) /\ cur.id \in 1..Len(nodes)
  BY <1>1 DEF NodesInv, FollowsTo
<1>3. seen_pairs' = seen_pairs \cup {{cur.id, visited'[t]}}
  BY <1>1 DEF Join
<1>4. CASE Known(t)
  <2>1. nodes' = nodes /\ nodes # <<>>
    BY <1>2, <1>4 DEF Known
  <2> QED BY <1>3, <2>1 DEF RootInv
<1>5. CASE New(t)
  <2>1. visited \in [Tables -> Nat] /\ visited'[t] = Len(nodes) + 1
    BY <1>5 DEF New, NodesInv
  <2>2. Len(nodes') = Len(nodes) + 1
    BY <1>1, <1>5, NodesGrow DEF New
  <2>3. nodes' # <<>>
    BY <1>2, <2>2
  <2>4. ASSUME NEW i \in 2..Len(nodes') PROVE \E j \in 1..i - 1 : {j, i} \in seen_pairs'
    <3>1. CASE i = Len(nodes) + 1
      <4>1. cur.id \in 1..i - 1 /\ {cur.id, i} \in seen_pairs'
        BY <1>2, <1>3, <2>1, <3>1
      <4> QED BY <4>1
    <3>2. CASE i # Len(nodes) + 1
      <4>1. i \in 2..Len(nodes)
        BY <1>2, <2>2, <3>2
      <4> QED BY <1>3, <4>1 DEF RootInv
    <3> QED BY <3>1, <3>2
  <2> QED BY <2>3, <2>4 DEF RootInv
<1> QED BY <1>1, <1>4, <1>5

LEMMA RootsNext ==
  ASSUME IInv, RootInv, [Next]_vars
  PROVE  RootInv'
<1>1. CASE FollowReference
  BY <1>1, FollowKeepsRoots DEF IInv
<1>2. CASE DescribeSource
  <2>1. nodes = <<>> /\ seen_pairs = {} /\ stage = "describe"
    BY <1>2 DEF DescribeSource, IInv, NodesInv
  <2>2. seen_pairs' = seen_pairs
        /\ \/ nodes' = <<Node(Source)>>
           \/ nodes' = <<>> /\ stage' = "failed"
    BY <1>2, <2>1 DEF DescribeSource
  <2>3. Len(nodes') \in {0, 1} /\ (stage' = "failed" \/ nodes' # <<>>)
    BY <2>2
  <2>4. ASSUME NEW i \in 2..Len(nodes') PROVE FALSE
    <3>1. CASE Len(nodes') = 0
      BY <3>1
    <3>2. CASE Len(nodes') = 1
      BY <3>2
    <3> QED BY <2>3, <3>1, <3>2
  <2> QED BY <2>3, <2>4 DEF RootInv
<1>3. CASE NextTable \/ SelfReference \/ Discovered
  <2>1. nodes' = nodes /\ seen_pairs' = seen_pairs /\ stage \notin {"describe", "failed"}
    BY <1>3 DEF NextTable, SelfReference, Discovered, graphVars
  <2> QED BY <2>1 DEF RootInv
<1>4. CASE ~(GraphNext /\ UNCHANGED <<layoutVars, placeVars>>)
  <2>1. /\ UNCHANGED graphVars
        /\ \/ stage' = stage
           \/ stage \notin {"describe", "discover", "failed"}
    BY <1>4, LaterIs
  <2> QED BY <2>1 DEF RootInv, graphVars
<1> QED BY <1>1, <1>2, <1>3, <1>4 DEF GraphNext

\* A set that holds a node and is closed holds every node.
LEMMA AllReached ==
  ASSUME NodesInv, EdgesInv, RootInv, NEW S \in SUBSET Ids, S # {}, Closed(S, Ids, Links)
  PROVE  S = Ids
<1>1. Ids = 1..Len(nodes) /\ Len(nodes) \in Nat /\ Ids \subseteq Nat
  BY IdsAre
<1>2. \A i \in Ids : i = 1 \/ \E j \in Ids : j < i /\ <<j, i>> \in Links /\ <<i, j>> \in Links
  <2> SUFFICES ASSUME NEW i \in Ids, i # 1
               PROVE  \E j \in Ids : j < i /\ <<j, i>> \in Links /\ <<i, j>> \in Links
    OBVIOUS
  <2>1. PICK j \in 1..i - 1 : {j, i} \in seen_pairs
    <3>1. i \in 2..Len(nodes)
      BY <1>1
    <3> QED BY <3>1 DEF RootInv
  <2>2. j \in Ids /\ j < i /\ Linked(j, i)
    BY <1>1, <2>1 DEF EdgesInv, Linked
  <2> QED BY <2>2, LinksAre
<1>3. 1 \in S
  <2>1. S \subseteq Nat
    BY <1>1
  <2>2. PICK m \in S : \A n \in S : m <= n
    BY <2>1, LeastIs
  <2>3. ASSUME m # 1 PROVE FALSE
    <3>1. PICK j \in Ids : j < m /\ <<m, j>> \in Links
      BY <1>2, <2>3
    <3>2. j \in S
      BY <3>1 DEF Closed
    <3> QED BY <1>1, <2>2, <3>1, <3>2
  <2> QED BY <2>2, <2>3
<1> DEFINE Left == Ids \ S
<1>4. ASSUME Left # {} PROVE FALSE
  <2>1. Left \subseteq Nat
    BY <1>1
  <2>2. PICK m \in Left : \A n \in Left : m <= n
    <3> HIDE DEF Left
    <3> QED BY <1>4, <2>1, LeastIs
  <2>3. PICK j \in Ids : j < m /\ <<j, m>> \in Links
    BY <1>2, <1>3, <2>2
  <2>4. j \in S
    BY <1>1, <2>2, <2>3
  <2> QED BY <2>2, <2>3, <2>4 DEF Closed
<1> QED BY <1>4

-----------------------------------------------------------------------------
(* The hub, and how far the others are from it.                            *)

HubInv == stage \notin {"describe", "discover", "hub", "failed"} => HubIs

LEMMA HubSelected ==
  ASSUME IInv, RootInv, SelectHub
  PROVE  HubIs'
<1>1. NodesInv /\ EdgesInv
  BY DEF IInv
<1> DEFINE E(n) == {e \in DOMAIN edges : n \in {edges[e].source, edges[e].target}}
           far(n, e) == IF edges[e].source = n THEN edges[e].target ELSE edges[e].source
           row(n) == [i \in DOMAIN Ascending(E(n)) |-> far(n, Ascending(E(n))[i])]
<1>2. /\ Ids' = Ids /\ edges' = edges /\ adj' = [n \in Ids |-> row(n)]
      /\ hub' = CHOOSE n \in Ids : \A m \in Ids \ {n} :
                  \/ Len(adj'[n]) > Len(adj'[m])
                  \/ Len(adj'[n]) = Len(adj'[m]) /\ n < m
  BY DEF SelectHub, graphVars, Ids
<1>3. /\ IsFiniteSet(DOMAIN edges) /\ DOMAIN edges \subseteq Int
      /\ \A e \in DOMAIN edges :
           /\ edges[e].source \in Ids /\ edges[e].target \in Ids
           /\ edges[e].source # edges[e].target
           /\ Ends(edges[e]) = {edges[e].source, edges[e].target}
  <2>1. edges \in Seq(EdgeType)
    BY <1>1 DEF EdgesInv
  <2>2. DOMAIN edges \subseteq Int
    BY <2>1
  <2> QED BY <1>1, <2>2, EdgesAre
<1>4. ASSUME NEW n \in Ids
      PROVE  /\ DOMAIN row(n) = 1..Cardinality(E(n)) /\ Cardinality(E(n)) \in Nat
             /\ ToSet(row(n)) = {m \in Ids : Linked(n, m)}
  <2>1. E(n) \in SUBSET DOMAIN edges /\ IsFiniteSet(E(n)) /\ E(n) \subseteq Int
    BY <1>3, FS_Subset
  <2>2. Cardinality(E(n)) \in Nat
    BY <2>1, FS_CardinalityType
  <2>3. DOMAIN Ascending(E(n)) = 1..Cardinality(E(n)) /\ ToSet(Ascending(E(n))) = E(n)
    <3> HIDE DEF E
    <3> QED BY <2>1, AscendingIs
  <2>4. ToSet(row(n)) = {far(n, e) : e \in E(n)}
    <3> HIDE DEF E
    <3> QED BY <2>3 DEF ToSet
  <2>5. \A e \in E(n) : far(n, e) \in Ids /\ Ends(edges[e]) = {n, far(n, e)} /\ e \in DOMAIN edges
    BY <1>3
  <2>6. ASSUME NEW m \in Ids, Linked(n, m) PROVE \E e \in E(n) : m = far(n, e)
    <3>1. PICK e \in DOMAIN edges : Ends(edges[e]) = {n, m}
      BY <2>6 DEF Linked
    <3>2. {edges[e].source, edges[e].target} = {n, m} /\ edges[e].source # edges[e].target
      BY <1>3, <3>1
    <3>3. e \in E(n)
      BY <3>2
    <3>4. far(n, e) = m
      BY <3>2
    <3> QED BY <3>3, <3>4
  <2>7. \A e \in E(n) : Linked(n, far(n, e))
    BY <2>5 DEF Linked
  <2> HIDE DEF far, E, row
  <2>8. {far(n, e) : e \in E(n)} = {m \in Ids : Linked(n, m)}
    BY <2>5, <2>6, <2>7
  <2>9. DOMAIN row(n) = 1..Cardinality(E(n))
    BY <2>3 DEF row
  <2> QED BY <2>2, <2>4, <2>8, <2>9
<1> HIDE DEF row, E, far
<1>5. \A n \in Ids : ToSet(adj'[n]) = {m \in Ids : Linked(n, m)} /\ Len(adj'[n]) \in Nat
  <2> SUFFICES ASSUME NEW n \in Ids
               PROVE  ToSet(adj'[n]) = {m \in Ids : Linked(n, m)} /\ Len(adj'[n]) \in Nat
    OBVIOUS
  <2>1. adj'[n] = row(n)
    BY <1>2
  <2> QED BY <1>4, <2>1
<1>6. hub' \in Ids
  <2> DEFINE Beats(n, m) == \/ Len(adj'[n]) > Len(adj'[m])
                            \/ Len(adj'[n]) = Len(adj'[m]) /\ n < m
             R == {p \in Ids \X Ids : Beats(p[1], p[2])}
             s == InOrder(Ids, R)
  <2>0. Ids = 1..Len(nodes) /\ Len(nodes) \in Nat /\ IsFiniteSet(Ids) /\ Cardinality(Ids) = Len(nodes)
    BY <1>1, IdsAre
  <2>1. nodes # <<>> /\ nodes \in Seq(NodeType)
    BY <1>1 DEF RootInv, SelectHub, NodesInv
  <2>2. 1 \in Ids
    BY <2>0, <2>1
  <2>3. \A n, m \in Ids : <<n, m>> \in R <=> Beats(n, m)
    OBVIOUS
  <2>4. /\ \A n \in Ids : ~Beats(n, n)
        /\ \A n, m, k \in Ids : Beats(n, m) /\ Beats(m, k) => Beats(n, k)
        /\ \A n, m \in Ids : n # m => Beats(n, m) \/ Beats(m, n)
    <3>1. \A n \in Ids : Len(adj'[n]) \in Nat /\ n \in Nat
      BY <1>5, <2>0
    <3> QED BY <3>1
  <2> HIDE DEF R, Beats
  <2>5. Orders(R, Ids)
    BY <2>3, <2>4 DEF Orders
  <2>6. /\ DOMAIN s = 1..Cardinality(Ids) /\ ToSet(s) = Ids
        /\ \A i, j \in DOMAIN s : i < j => <<s[i], s[j]>> \in R
    BY <2>0, <2>5, InOrderIs
  <2> HIDE DEF s
  <2>7. 1 \in DOMAIN s /\ s[1] \in Ids
    BY <2>0, <2>2, <2>6 DEF ToSet
  <2>8. ASSUME NEW m \in Ids \ {s[1]} PROVE Beats(s[1], m)
    <3>1. PICK j \in DOMAIN s : m = s[j]
      BY <2>6 DEF ToSet
    <3>2. 1 < j
      BY <2>0, <2>6, <3>1
    <3> QED BY <2>3, <2>6, <2>7, <3>1, <3>2
  <2>9. hub' = CHOOSE n \in Ids : \A m \in Ids \ {n} : Beats(n, m)
    BY <1>2 DEF Beats
  <2>10. \E n \in Ids : \A m \in Ids \ {n} : Beats(n, m)
    BY <2>7, <2>8
  <2> QED BY <2>9, <2>10
<1>7. \A n, m : Linked(n, m)' <=> Linked(n, m)
  BY <1>2 DEF Linked
<1>8. DOMAIN adj' = Ids
  BY <1>2
<1>9. \A n \in Ids : Neighbours(n)' = ToSet(adj'[n])
  BY DEF Neighbours
<1> QED BY <1>2, <1>5, <1>6, <1>7, <1>8, <1>9 DEF HubIs

LEMMA HubInit == Init => HubInv
BY DEF Init, GraphInit, HubInv

LEMMA HubNext ==
  ASSUME IInv, RootInv, HubInv, [Next]_vars
  PROVE  HubInv'
<1>1. CASE SelectHub
  BY <1>1, HubSelected DEF HubInv
<1>2. CASE GraphNext
  <2>1. stage' \in {"discover", "failed", "hub"}
    BY <1>2 DEF GraphNext, DescribeSource, NextTable, SelfReference, FollowReference, Discovered
  <2> QED BY <2>1 DEF HubInv
<1>3. CASE ~GraphNext /\ ~SelectHub
  <2>1. UNCHANGED <<nodes, edges, adj, hub>>
    BY <1>3 DEF Next, Step, GraphStep, LayoutStep, LayoutNext, PartitionSides, GrowBalanced, Grown,
       KlSwap, Swapped, SignColumns, BumpSameColumnEdges, OrderColumns, Place, Routed, NoRoute,
       Ended, vars, graphVars, layoutVars
  <2>2. stage' = stage \/ stage \notin {"describe", "discover", "hub", "failed"}
    BY <1>3 DEF Next, Step, GraphStep, LayoutStep, LayoutNext, PartitionSides, GrowBalanced, Grown,
       KlSwap, Swapped, SignColumns, BumpSameColumnEdges, OrderColumns, Place, Routed, NoRoute,
       Ended, vars
  <2>3. HubIs' <=> HubIs
    BY <2>1 DEF HubIs, Neighbours, Linked, Ids
  <2> QED BY <2>2, <2>3 DEF HubInv
<1> QED BY <1>1, <1>2, <1>3

\* Every other node is a whole number of edges, one or more, away from the hub.
LEMMA DistanceIs ==
  ASSUME NodesInv, EdgesInv, RootInv, HubIs, NEW n \in Ids
  PROVE  Distance[n] \in Nat /\ (n # hub => Distance[n] >= 1)
<1> DEFINE K == Len(nodes)
           V == SUBSET Ids
           Next1(S) == UNION {Neighbours(m) : m \in S}
           step == [p \in V \X (1..K) |-> Next1(p[1])]
<1>0. K \in Nat /\ IsFiniteSet(Ids) /\ Cardinality(Ids) = K
  BY IdsAre
<1>1. \A S \in V : Next1(S) = {x \in Ids : \E m \in S : <<m, x>> \in Links}
  <2> SUFFICES ASSUME NEW S \in V
               PROVE  Next1(S) = {x \in Ids : \E m \in S : <<m, x>> \in Links}
    OBVIOUS
  <2>1. \A m \in S : Neighbours(m) = {x \in Ids : <<m, x>> \in Links}
    BY LinksAre DEF HubIs
  <2>2. \A x : x \in Next1(S) <=> \E m \in S : x \in Neighbours(m)
    OBVIOUS
  <2> HIDE DEF Next1
  <2> QED BY <2>1, <2>2
<1> HIDE DEF Next1
<1>2. step \in [V \X (1..K) -> V]
  <2>1. \A S \in V : Next1(S) \in V
    BY <1>1
  <2> QED BY <2>1
<1>3. {hub} \in V
  BY DEF HubIs
<1>4. PICK f : f \in [0..K -> V] /\ Runs(f, K, {hub}, step)
  <2> HIDE DEF step, V, K
  <2> QED BY <1>0, <1>2, <1>3, StepsExist
<1>5. f[0] = {hub} /\ \A i \in 1..K : f[i] = Next1(f[i - 1])
  <2>1. f[0] = {hub}
    BY <1>4 DEF Runs
  <2> SUFFICES ASSUME NEW i \in 1..K PROVE f[i] = Next1(f[i - 1])
    BY <2>1
  <2>2. i - 1 \in 0..K
    BY <1>0
  <2>3. <<f[i - 1], i>> \in V \X (1..K)
    BY <1>4, <2>2
  <2> QED BY <1>4, <2>3 DEF Runs
<1> DEFINE Body(g) == [k \in 0..K |-> IF k = 0 THEN {hub} ELSE Next1(g[k - 1])]
           ring == CHOOSE g : g = Body(g)
<1> HIDE DEF step, V
<1>6. f = Body(f)
  <2>1. f = [k \in 0..K |-> f[k]]
    BY <1>4
  <2>2. \A k \in 0..K : k = 0 \/ k \in 1..K
    BY <1>0
  <2> QED BY <1>5, <2>1, <2>2
<1>7. ring = Body(ring)
  <2> HIDE DEF Body
  <2> QED BY <1>6
<1>8. Distance[n] = Min({k \in DOMAIN ring : n \in ring[k]})
  BY DEF Distance, Next1
<1> HIDE DEF ring
<1>9. /\ ring = [k \in 0..K |-> ring[k]] /\ DOMAIN ring = 0..K /\ ring[0] = {hub}
      /\ \A k \in 1..K : ring[k] = Next1(ring[k - 1])
  <2>1. \A k \in 0..K : ring[k] = IF k = 0 THEN {hub} ELSE Next1(ring[k - 1])
    BY <1>7
  <2>2. 0 \in 0..K /\ \A k \in 1..K : k \in 0..K /\ k # 0
    BY <1>0
  <2>3. ring = [k \in 0..K |-> ring[k]] /\ DOMAIN ring = 0..K
    BY <1>7
  <2> QED BY <2>1, <2>2, <2>3
<1> DEFINE P == {k \in 0..K : ring[k] \in V}
<1>10. \A k \in 0..K : ring[k] \in V
  <2>1. 0 \in P
    <3>1. 0 \in 0..K
      BY <1>0
    <3> QED BY <1>3, <1>9, <3>1
  <2>2. ASSUME NEW k \in 0..K - 1, k \in P PROVE k + 1 \in P
    <3>1. k + 1 \in 1..K /\ (k + 1) - 1 = k /\ k + 1 \in 0..K
      BY <1>0
    <3>2. ring[k + 1] = Next1(ring[k])
      BY <1>9, <3>1
    <3>3. ring[k + 1] \in V
      BY <1>1, <2>2, <3>2 DEF V
    <3> QED BY <3>1, <3>3
  <2>3. \A k \in 0..K : k \in P
    <3> HIDE DEF P
    <3> QED BY <1>0, <2>1, <2>2, UpTo
  <2> QED BY <2>3
<1> DEFINE C == [k \in 0..K |-> {x \in Ids : \E i \in 0..k : x \in ring[i]}]
<1>11. C \in [0..K -> SUBSET Ids] /\ C[0] # {}
  <2>1. C \in [0..K -> SUBSET Ids]
    OBVIOUS
  <2>2. 0 \in 0..K /\ 0 \in 0..0 /\ hub \in ring[0] /\ hub \in Ids
    BY <1>0, <1>9 DEF HubIs
  <2>3. hub \in C[0]
    BY <2>2
  <2> QED BY <2>1, <2>3
<1>12. \A k \in 0..K - 1 : C[k + 1] = Widened(C[k], Ids, Links)
  <2> SUFFICES ASSUME NEW k \in 0..K - 1
               PROVE  C[k + 1] = Widened(C[k], Ids, Links)
    OBVIOUS
  <2>1. k \in 0..K /\ k + 1 \in 0..K /\ k \in Nat
    BY <1>0
  <2>2. \A i \in 0..k : i \in 0..K /\ i + 1 \in 1..K /\ (i + 1) - 1 = i /\ i + 1 \in 0..k + 1
    BY <1>0
  <2>3. \A i \in 0..k : \A x \in Ids : x \in ring[i + 1] <=> \E m \in ring[i] : <<m, x>> \in Links
    <3> SUFFICES ASSUME NEW i \in 0..k, NEW x \in Ids
                 PROVE  x \in ring[i + 1] <=> \E m \in ring[i] : <<m, x>> \in Links
      OBVIOUS
    <3>1. ring[i + 1] = Next1(ring[i]) /\ ring[i] \in V
      BY <1>9, <1>10, <2>2
    <3>2. Next1(ring[i]) = {z \in Ids : \E m \in ring[i] : <<m, z>> \in Links}
      BY <1>1, <3>1
    <3> QED BY <3>1, <3>2
  <2>4. \A i \in 0..k : \A m \in ring[i] : m \in Ids
    BY <1>10, <2>2 DEF V
  <2>5. C[k] = {x \in Ids : \E i \in 0..k : x \in ring[i]}
        /\ C[k + 1] = {x \in Ids : \E i \in 0..k + 1 : x \in ring[i]}
    BY <2>1
  <2> HIDE DEF C
  <2>6. ASSUME NEW x \in C[k + 1] PROVE x \in C[k] \/ \E m \in C[k] : <<m, x>> \in Links
    <3>1. PICK i \in 0..k + 1 : x \in Ids /\ x \in ring[i]
      BY <2>5
    <3>2. CASE i \in 0..k
      BY <2>5, <3>1, <3>2
    <3>3. CASE i = k + 1
      <4>1. k \in 0..k
        BY <2>1
      <4>2. PICK m \in ring[k] : <<m, x>> \in Links
        BY <2>3, <3>1, <3>3, <4>1
      <4>3. m \in C[k]
        BY <2>4, <2>5, <4>1
      <4> QED BY <4>2, <4>3
    <3>4. i \in 0..k \/ i = k + 1
      BY <2>1
    <3> QED BY <3>2, <3>3, <3>4
  <2>7. C[k] \subseteq C[k + 1]
    <3>1. \A i \in 0..k : i \in 0..k + 1
      BY <2>1
    <3> QED BY <2>5, <3>1
  <2>8. ASSUME NEW x \in Ids, NEW m \in C[k], <<m, x>> \in Links PROVE x \in C[k + 1]
    <3>1. PICK i \in 0..k : m \in ring[i]
      BY <2>5
    <3>2. x \in ring[i + 1] /\ i + 1 \in 0..k + 1
      BY <2>2, <2>3, <2>8, <3>1
    <3> QED BY <2>5, <3>2
  <2>9. C[k + 1] \subseteq Ids
    BY <2>5
  <2> QED BY <2>6, <2>7, <2>8, <2>9 DEF Widened
<1>13. Closed(C[K], Ids, Links)
  <2> HIDE DEF C, K
  <2> QED BY <1>0, <1>11, <1>12, Closes
<1>14. C[K] = Ids
  <2>1. K \in 0..K
    BY <1>0
  <2>2. C[K] \in SUBSET Ids
    BY <1>11, <2>1
  <2>3. hub \in C[K]
    <3>1. 0 \in 0..K /\ hub \in ring[0] /\ hub \in Ids
      BY <1>0, <1>9 DEF HubIs
    <3> QED BY <2>1, <3>1
  <2> HIDE DEF C
  <2> QED BY <1>13, <2>2, <2>3, AllReached
<1> DEFINE D == {k \in 0..K : n \in ring[k]}
<1>15. D # {} /\ D \in SUBSET (0..K) /\ D \subseteq Int /\ IsFiniteSet(0..K)
  <2>1. K \in 0..K
    BY <1>0
  <2>2. \E k \in 0..K : n \in ring[k]
    BY <1>14, <2>1
  <2>3. D # {}
    BY <2>2
  <2>4. D \in SUBSET (0..K) /\ D \subseteq Int
    BY <1>0
  <2>5. IsFiniteSet(0..K)
    BY <1>0, FS_Interval
  <2> QED BY <2>3, <2>4, <2>5
<1>16. Min(D) \in D
  <2> HIDE DEF D
  <2>1. IsFiniteSet(D)
    BY <1>15, FS_Subset
  <2> QED BY <1>15, <2>1, MinIs
<1>17. Distance[n] \in 0..K /\ n \in ring[Distance[n]]
  BY <1>8, <1>9, <1>16
<1>18. Distance[n] = 0 => n = hub
  BY <1>9, <1>17
<1> HIDE DEF K
<1> QED BY <1>0, <1>17, <1>18

-----------------------------------------------------------------------------
(* The sides of the parts.                                                 *)

\* What a function makes of a finite set is finite.
LEMMA ImageIsFinite ==
  ASSUME NEW S, IsFiniteSet(S), NEW f
  PROVE  IsFiniteSet({f[x] : x \in S})
<1> DEFINE g == [x \in S |-> f[x]]
           T == {f[x] : x \in S}
<1>1. g \in Surjection(S, T)
  BY DEF Surjection
<1> HIDE DEF g, T
<1>2. IsFiniteSet(T)
  BY <1>1, FS_Surjection
<1> QED BY <1>2 DEF T

\* The parts, the largest first.
PartsBefore(cs) ==
  {p \in cs \X cs : \/ Cardinality(p[1]) > Cardinality(p[2])
                    \/ Cardinality(p[1]) = Cardinality(p[2]) /\ Min(p[1]) < Min(p[2])}

LEMMA PartsInOrder ==
  ASSUME NodesInv, HubIs, NEW N \in SUBSET Ids, NEW cs, cs = Components(N)
  PROVE  /\ IsFiniteSet(cs) /\ Cardinality(cs) \in Nat
         /\ DOMAIN InOrder(cs, PartsBefore(cs)) = 1..Cardinality(cs)
         /\ Len(InOrder(cs, PartsBefore(cs))) = Cardinality(cs)
         /\ ToSet(InOrder(cs, PartsBefore(cs))) = cs
<1> DEFINE f == [n \in N |-> Component(n, N)]
           R == PartsBefore(cs)
<1>1. IsFiniteSet(N) /\ N \subseteq Int
  BY IdsAre, FS_Subset
<1>2. IsFiniteSet(cs) /\ Cardinality(cs) \in Nat
  <2>1. {f[n] : n \in N} = cs
    BY DEF Components
  <2> HIDE DEF f
  <2>2. IsFiniteSet({f[n] : n \in N})
    BY <1>1, ImageIsFinite
  <2>3. IsFiniteSet(cs)
    BY <2>1, <2>2
  <2> QED BY <2>3, FS_CardinalityType
<1>3. \A c \in cs : c \in SUBSET N /\ c # {}
  <2> SUFFICES ASSUME NEW c \in cs PROVE c \in SUBSET N /\ c # {}
    OBVIOUS
  <2>1. PICK n \in N : c = Component(n, N)
    BY DEF Components
  <2>2. c \in SUBSET N /\ n \in c
    BY <2>1, ComponentIs
  <2> QED BY <2>2
<1>4. \A c \in cs : Cardinality(c) \in Nat /\ Min(c) \in c /\ Min(c) \in Int
  <2> SUFFICES ASSUME NEW c \in cs
               PROVE  Cardinality(c) \in Nat /\ Min(c) \in c /\ Min(c) \in Int
    OBVIOUS
  <2>1. IsFiniteSet(c) /\ c \subseteq Int /\ c # {}
    BY <1>1, <1>3, FS_Subset
  <2>2. Min(c) \in c
    BY <2>1, MinIs
  <2> QED BY <2>1, <2>2, FS_CardinalityType
<1>5. \A c, d \in cs : <<c, d>> \in R <=>
        \/ Cardinality(c) > Cardinality(d)
        \/ Cardinality(c) = Cardinality(d) /\ Min(c) < Min(d)
  BY DEF PartsBefore
<1> HIDE DEF R
<1>6. \A c, d \in cs : Min(c) = Min(d) => c = d
  <2> SUFFICES ASSUME NEW c \in cs, NEW d \in cs, Min(c) = Min(d) PROVE c = d
    OBVIOUS
  <2>1. c \cap d # {}
    BY <1>4
  <2> QED BY <2>1, PartsAreDisjoint
<1>7. Orders(R, cs)
  <2>1. \A c \in cs : <<c, c>> \notin R
    BY <1>4, <1>5
  <2>2. \A c, d, e \in cs : <<c, d>> \in R /\ <<d, e>> \in R => <<c, e>> \in R
    BY <1>4, <1>5
  <2>3. \A c, d \in cs : c # d => <<c, d>> \in R \/ <<d, c>> \in R
    BY <1>4, <1>5, <1>6
  <2> QED BY <2>1, <2>2, <2>3 DEF Orders
<1>8. DOMAIN InOrder(cs, R) = 1..Cardinality(cs) /\ ToSet(InOrder(cs, R)) = cs
      /\ Len(InOrder(cs, R)) = Cardinality(cs)
  BY <1>2, <1>7, InOrderIs
<1> QED BY <1>2, <1>8 DEF R

\* A part goes to one side as a whole.
Fair(f) == \A m, n \in Others : Linked(m, n) /\ m \in DOMAIN f => n \in DOMAIN f /\ f[m] = f[n]
Assign(f, c) == LET s == IF Cardinality(OnSide(f, 1)) <= Cardinality(OnSide(f, -1)) THEN 1 ELSE -1
                IN  [n \in c \cup DOMAIN f |-> IF n \in c THEN s ELSE f[n]]

LEMMA AssignIs ==
  ASSUME NodesInv, HubIs, NEW c \in Components(Others),
         NEW D \in SUBSET Others, NEW f \in [D -> {1, -1}]
  PROVE  /\ c \subseteq Others /\ c \cup D \in SUBSET Others
         /\ Assign(f, c) \in [c \cup D -> {1, -1}]
         /\ Fair(f) => Fair(Assign(f, c))
<1>1. Others \in SUBSET Ids
  BY IdsAre
<1>2. PICK k \in Others : c = Component(k, Others)
  BY DEF Components
<1>3. c \in SUBSET Others /\ Closed(c, Others, Links)
  BY <1>1, <1>2, ComponentIs
<1>4. PICK s \in {1, -1} : Assign(f, c) = [n \in c \cup D |-> IF n \in c THEN s ELSE f[n]]
  BY DEF Assign
<1>5. Assign(f, c) \in [c \cup D -> {1, -1}]
  BY <1>4
<1>6. \A m, n \in Others : Linked(m, n) => (m \in c <=> n \in c)
  <2>1. \A m, n \in Others : Linked(m, n) => <<m, n>> \in Links /\ <<n, m>> \in Links
    BY <1>1, LinksAre
  <2> QED BY <1>3, <2>1 DEF Closed
<1>7. ASSUME Fair(f) PROVE Fair(Assign(f, c))
  <2> DEFINE g == Assign(f, c)
  <2> SUFFICES ASSUME NEW m \in Others, NEW n \in Others, Linked(m, n), m \in DOMAIN g
               PROVE  n \in DOMAIN g /\ g[m] = g[n]
    BY DEF Fair
  <2>1. DOMAIN g = c \cup D /\ \A x \in c \cup D : g[x] = IF x \in c THEN s ELSE f[x]
    BY <1>4
  <2> HIDE DEF g
  <2>2. CASE m \in c
    BY <1>6, <2>1, <2>2
  <2>3. CASE m \notin c
    <3>1. m \in DOMAIN f /\ n \notin c
      BY <1>6, <2>1, <2>3
    <3>2. n \in DOMAIN f /\ f[m] = f[n]
      BY <1>7, <3>1 DEF Fair
    <3> QED BY <2>1, <2>3, <3>1, <3>2
  <2> QED BY <2>2, <2>3
<1> QED BY <1>3, <1>5, <1>7

LEMMA LptIs ==
  ASSUME NodesInv, HubIs
  PROVE  /\ LptAssign(Components(Others)) \in [Others -> {1, -1}]
         /\ Fair(LptAssign(Components(Others)))
<1> DEFINE cs == Components(Others)
           s == InOrder(cs, PartsBefore(cs))
           K == Cardinality(cs)
           V == UNION {[D -> {1, -1}] : D \in SUBSET Others}
           step == [p \in V \X (1..K) |-> Assign(p[1], s[p[2]])]
<1>0. Others \in SUBSET Ids
  BY IdsAre
<1>1. K \in Nat /\ DOMAIN s = 1..K /\ Len(s) = K /\ ToSet(s) = cs
  BY <1>0, PartsInOrder
<1>2. \A i \in 1..K : s[i] \in cs
  BY <1>1 DEF ToSet
<1>3. \A f \in V : DOMAIN f \in SUBSET Others /\ f \in [DOMAIN f -> {1, -1}]
  OBVIOUS
<1>4. \A f \in V, c \in cs :
        /\ Assign(f, c) \in V /\ DOMAIN Assign(f, c) = c \cup DOMAIN f
        /\ Fair(f) => Fair(Assign(f, c))
  <2> SUFFICES ASSUME NEW f \in V, NEW c \in cs
               PROVE  /\ Assign(f, c) \in V /\ DOMAIN Assign(f, c) = c \cup DOMAIN f
                      /\ Fair(f) => Fair(Assign(f, c))
    OBVIOUS
  <2>1. PICK D \in SUBSET Others : D = DOMAIN f /\ f \in [D -> {1, -1}]
    BY <1>3
  <2>2. /\ c \cup D \in SUBSET Others /\ Assign(f, c) \in [c \cup D -> {1, -1}]
        /\ Fair(f) => Fair(Assign(f, c))
    BY <2>1, AssignIs
  <2> QED BY <2>1, <2>2
<1>5. <<>> \in V /\ DOMAIN <<>> = {}
  <2>1. <<>> \in [{} -> {1, -1}] /\ {} \in SUBSET Others /\ DOMAIN <<>> = {}
    OBVIOUS
  <2> QED BY <2>1
<1> DEFINE Body(g) == [i \in 0..K |-> IF i = 0 THEN <<>>
                        ELSE CHOOSE r \in {Assign(x, s[i]) : x \in {g[i - 1]}} : TRUE]
           after == CHOOSE g : g = Body(g)
<1> HIDE DEF V
<1>6. step \in [V \X (1..K) -> V]
  <2> HIDE DEF cs, s, K
  <2> QED BY <1>2, <1>4
<1>7. PICK f : f \in [0..K -> V] /\ Runs(f, K, <<>>, step)
  <2> HIDE DEF step, K
  <2> QED BY <1>1, <1>5, <1>6, StepsExist
<1>8. \A g : \A i \in 1..K :
        (CHOOSE r \in {Assign(x, s[i]) : x \in {g[i - 1]}} : TRUE) = Assign(g[i - 1], s[i])
  OBVIOUS
<1>9. f = Body(f)
  <2> HIDE DEF s, K
  <2>1. f = [i \in 0..K |-> f[i]]
    BY <1>7
  <2>2. ASSUME NEW i \in 1..K PROVE f[i] = Assign(f[i - 1], s[i])
    <3>1. i - 1 \in 0..K
      BY <1>1
    <3>2. <<f[i - 1], i>> \in V \X (1..K)
      BY <1>7, <3>1
    <3> QED BY <1>7, <3>2 DEF Runs
  <2>3. f[0] = <<>>
    BY <1>7 DEF Runs
  <2>4. \A i \in 0..K : i = 0 \/ i \in 1..K
    BY <1>1
  <2> QED BY <1>8, <2>1, <2>2, <2>3, <2>4
<1>10. after = Body(after)
  <2> HIDE DEF Body
  <2> QED BY <1>9
<1>11. LptAssign(cs) = after[K]
  BY <1>1 DEF LptAssign, Iterate, Assign, PartsBefore
<1> HIDE DEF after, s, K, cs
<1>12. after[0] = <<>> /\ \A i \in 1..K : after[i] = Assign(after[i - 1], s[i])
  <2>1. \A i \in 0..K : after[i] = IF i = 0 THEN <<>>
                        ELSE CHOOSE r \in {Assign(x, s[i]) : x \in {after[i - 1]}} : TRUE
    BY <1>10
  <2>2. 0 \in 0..K /\ \A i \in 1..K : i \in 0..K /\ i # 0
    BY <1>1
  <2> QED BY <1>8, <2>1, <2>2
<1> DEFINE Good(i) == /\ after[i] \in V /\ Fair(after[i])
                      /\ DOMAIN after[i] = UNION {s[j] : j \in 1..i}
           P == {i \in 0..K : Good(i)}
<1>13. 0 \in P
  <2>1. UNION {s[j] : j \in 1..0} = {} /\ 0 \in 0..K
    BY <1>1
  <2>2. Fair(<<>>)
    BY <1>5 DEF Fair
  <2> QED BY <1>5, <1>12, <2>1, <2>2
<1>14. ASSUME NEW i \in 0..K - 1, i \in P PROVE i + 1 \in P
  <2>1. i + 1 \in 1..K /\ (i + 1) - 1 = i /\ i + 1 \in 0..K
    BY <1>1
  <2>2. after[i + 1] = Assign(after[i], s[i + 1]) /\ s[i + 1] \in cs
    BY <1>2, <1>12, <2>1
  <2>3. /\ after[i + 1] \in V /\ Fair(after[i + 1])
        /\ DOMAIN after[i + 1] = s[i + 1] \cup DOMAIN after[i]
    BY <1>4, <1>14, <2>2
  <2>4. UNION {s[j] : j \in 1..i + 1} = s[i + 1] \cup UNION {s[j] : j \in 1..i}
    <3>1. 1..i + 1 = (1..i) \cup {i + 1}
      BY <2>1
    <3> QED BY <3>1
  <2> QED BY <1>14, <2>1, <2>3, <2>4
<1>15. K \in P
  <2>1. \A i \in 0..K - 1 : i \in P => i + 1 \in P
    BY <1>14
  <2>2. K \in 0..K
    BY <1>1
  <2> HIDE DEF P
  <2> QED BY <1>1, <1>13, <2>1, <2>2, UpTo
<1>16. UNION {s[j] : j \in 1..K} = Others
  <2>1. \A j \in 1..K : s[j] \subseteq Others
    <3>1. \A c \in cs : c \subseteq Others
      BY <1>0, ComponentIs DEF Components, cs
    <3> QED BY <1>2, <3>1
  <2>2. ASSUME NEW n \in Others PROVE \E j \in 1..K : n \in s[j]
    <3>1. Component(n, Others) \in cs /\ n \in Component(n, Others)
      BY <1>0, ComponentIs DEF Components, cs
    <3>2. PICK j \in 1..K : s[j] = Component(n, Others)
      BY <1>1, <3>1 DEF ToSet
    <3> QED BY <3>1, <3>2
  <2> QED BY <2>1, <2>2
<1>17. after[K] \in [Others -> {1, -1}] /\ Fair(after[K])
  BY <1>3, <1>15, <1>16
<1> QED BY <1>11, <1>17 DEF cs

\* Once there are columns the sides do not change; a graph that the hub divides has
\* each of its parts on one side.
Columned == stage \in {"bump", "order", "place", "route", "drawn"}
Divided  == Cardinality(Components(Others)) > 1
PartsInv ==
  /\ stage \in {"grow", "swap"} => ~Divided
  /\ stage = "columns" \/ Columned => side \in [Others -> {1, -1}] /\ (Divided => Fair(side))

LEMMA GraphStays ==
  ASSUME UNCHANGED <<nodes, edges, adj, hub>>
  PROVE  /\ Ids' = Ids /\ Others' = Others /\ Components(Others)' = Components(Others)
         /\ Divided' = Divided
<1>1. Ids' = Ids
  BY DEF Ids
<1>2. Others' = Others
  BY <1>1 DEF Others
<1>3. \A N : \A n \in N : Component(n, N)' = Component(n, N)
  BY DEF Component, Neighbours
<1>4. Components(Others)' = Components(Others)
  BY <1>2, <1>3 DEF Components
<1> QED BY <1>1, <1>2, <1>4 DEF Divided

LEMMA PartsInit == Init => PartsInv
BY DEF Init, GraphInit, PartsInv, Columned

LEMMA PartsNext ==
  ASSUME IInv, HubInv, SideInv, PartsInv, [Next]_vars
  PROVE  PartsInv'
<1>1. CASE PartitionSides
  <2>1. UNCHANGED <<nodes, edges, adj, hub>> /\ stage = "sides"
    BY <1>1 DEF PartitionSides, graphVars
  <2>2. HubIs /\ NodesInv
    BY <2>1 DEF HubInv, IInv
  <2>3. CASE Divided
    <3>1. side' = LptAssign(Components(Others)) /\ stage' = "columns"
      BY <1>1, <2>3 DEF PartitionSides, Divided
    <3>2. side' \in [Others' -> {1, -1}] /\ Fair(side')
      BY <2>1, <2>2, <3>1, LptIs, GraphStays
    <3>3. Fair(side)'
      BY <2>1, <3>2, GraphStays DEF Fair, Linked
    <3> QED BY <3>1, <3>2, <3>3 DEF PartsInv, Columned
  <2>4. CASE ~Divided
    <3>1. stage' = "grow"
      BY <1>1, <2>4 DEF PartitionSides, Divided
    <3> QED BY <2>1, <2>4, <3>1, GraphStays DEF PartsInv, Columned
  <2> QED BY <2>3, <2>4
<1>2. CASE GraphNext \/ SelectHub
  <2>1. stage' \in {"discover", "failed", "hub", "sides"}
    BY <1>2 DEF GraphNext, DescribeSource, NextTable, SelfReference, FollowReference, Discovered,
       SelectHub
  <2> QED BY <2>1 DEF PartsInv, Columned
<1>3. CASE GrowBalanced \/ Grown \/ KlSwap
  <2>1. /\ UNCHANGED <<nodes, edges, adj, hub>>
        /\ stage \in {"grow", "swap"} /\ stage' \in {"grow", "swap"}
    BY <1>3 DEF GrowBalanced, Grown, KlSwap, graphVars, layoutVars
  <2> QED BY <2>1, GraphStays DEF PartsInv, Columned
<1>4. CASE Swapped
  <2>1. /\ UNCHANGED <<nodes, edges, adj, hub, side>>
        /\ stage = "swap" /\ stage' = "columns"
    BY <1>4 DEF Swapped, graphVars, layoutVars
  <2>2. side' \in [Others' -> {1, -1}] /\ ~Divided'
    BY <2>1, GraphStays DEF PartsInv, SideInv
  <2> QED BY <2>1, <2>2 DEF PartsInv, Columned
<1>5. CASE ~(GraphNext \/ SelectHub \/ PartitionSides \/ GrowBalanced \/ Grown \/ KlSwap \/ Swapped)
  <2>1. UNCHANGED <<nodes, edges, adj, hub, side>>
    BY <1>5 DEF Next, Step, GraphStep, LayoutStep, LayoutNext,
       SignColumns, BumpSameColumnEdges, OrderColumns, Place, Routed, NoRoute,
       Ended, vars, graphVars, layoutVars
  <2>2. stage' = stage \/ stage' = "failed" \/ ((stage = "columns" \/ Columned) /\ Columned')
    BY <1>5 DEF Next, Step, GraphStep, LayoutStep, LayoutNext,
       SignColumns, BumpSameColumnEdges, OrderColumns, Place, Routed, NoRoute,
       Ended, vars, Columned
  <2>3. stage' # "columns" \/ stage' = stage
    BY <2>2 DEF Columned
  <2>4. Fair(side)' <=> Fair(side)
    BY <2>1, GraphStays DEF Fair, Linked
  <2>5. Columned' => stage = "columns" \/ Columned
    BY <2>2 DEF Columned
  <2>6. stage' \in {"grow", "swap"} => stage \in {"grow", "swap"}
    BY <2>2 DEF Columned
  <2> QED BY <2>1, <2>3, <2>4, <2>5, <2>6, GraphStays DEF PartsInv
<1> QED BY <1>1, <1>2, <1>3, <1>4, <1>5

-----------------------------------------------------------------------------
(* The columns.                                                            *)

\* A node is on its side of the hub, which is in column 0.
OnTheirSides(col) ==
  /\ col \in [Ids -> Int] /\ col[hub] = 0
  /\ \A n \in Others : /\ side[n] = 1 => col[n] >= 1
                       /\ side[n] = -1 => col[n] <= -1

LEMMA SignedAre ==
  ASSUME NodesInv, EdgesInv, RootInv, HubIs, side \in [Others -> {1, -1}], SignColumns
  PROVE  OnTheirSides(column')
<1>1. column' = [n \in Ids |-> IF n = hub THEN 0 ELSE side[n] * Distance[n]]
  BY DEF SignColumns
<1>2. hub \in Ids /\ \A n \in Others : n \in Ids /\ n # hub
  BY DEF HubIs, Others
<1>3. \A n \in Others : Distance[n] \in Nat /\ Distance[n] >= 1 /\ side[n] \in {1, -1}
  BY <1>2, DistanceIs
<1>4. \A d \in Nat : 1 * d = d /\ (-1) * d = -d
  OBVIOUS
<1>5. \A n \in Others : side[n] * Distance[n] \in Int
                        /\ (side[n] = 1 => side[n] * Distance[n] >= 1)
                        /\ (side[n] = -1 => side[n] * Distance[n] <= -1)
  BY <1>3, <1>4
<1>6. \A n \in Ids : n = hub \/ n \in Others
  BY DEF Others
<1>7. column' \in [Ids -> Int]
  BY <1>1, <1>5, <1>6
<1> QED BY <1>1, <1>2, <1>5, <1>7 DEF OnTheirSides

\* b has every node where a has it, or further out.
Further(a, b) == \A n \in Ids : /\ a[n] >= 0 => b[n] >= a[n]
                                /\ a[n] < 0 => b[n] <= a[n]

LEMMA FurtherIs ==
  ASSUME NEW a \in [Ids -> Int], NEW b \in [Ids -> Int], NEW c \in [Ids -> Int],
         Further(a, b), Further(b, c)
  PROVE  Further(a, c) /\ (c = a => b = a)
<1>1. Further(a, c)
  BY DEF Further
<1>2. ASSUME c = a PROVE b = a
  <2>1. \A n \in Ids : b[n] = a[n]
    BY <1>2 DEF Further
  <2> QED BY <2>1
<1> QED BY <1>1, <1>2

LEMMA BumpIs ==
  ASSUME NodesInv, EdgesInv, HubIs, side \in [Others -> {1, -1}],
         NEW col, OnTheirSides(col), NEW e \in DOMAIN edges
  PROVE  /\ OnTheirSides(Bump(col, edges[e])) /\ Further(col, Bump(col, edges[e]))
         /\ Bump(col, edges[e]) = col => col[edges[e].source] # col[edges[e].target]
<1> DEFINE a == edges[e].source
           b == edges[e].target
           n == IF b # hub THEN b ELSE a
           new == [col EXCEPT ![n] = @ + (IF @ >= 0 THEN 1 ELSE -1)]
<1>1. a \in Ids /\ b \in Ids /\ a # b /\ hub \in Ids
  BY EdgesAre DEF HubIs
<1>2. col \in [Ids -> Int] /\ col[hub] = 0
  BY DEF OnTheirSides
<1>3. Bump(col, edges[e]) = IF col[a] # col[b] THEN col ELSE new
  BY DEF Bump
<1>4. Further(col, col)
  BY <1>2 DEF Further
<1>5. n \in Ids /\ n # hub /\ n \in Others
  BY <1>1 DEF Others
<1> HIDE DEF n
<1>6. /\ new \in [Ids -> Int] /\ new[n] = col[n] + (IF col[n] >= 0 THEN 1 ELSE -1)
      /\ \A m \in Ids : m # n => new[m] = col[m]
  BY <1>2, <1>5
<1> HIDE DEF new
<1>7. new # col
  BY <1>2, <1>5, <1>6
<1>8. Further(col, new)
  BY <1>2, <1>5, <1>6 DEF Further
<1>9. OnTheirSides(new)
  <2>1. new[hub] = 0
    BY <1>1, <1>2, <1>5, <1>6
  <2>2. ASSUME NEW m \in Others
        PROVE  /\ side[m] = 1 => new[m] >= 1
               /\ side[m] = -1 => new[m] <= -1
    <3>1. m \in Ids /\ col[m] \in Int /\ side[m] \in {1, -1}
      BY <1>2 DEF Others
    <3>2. (side[m] = 1 => col[m] >= 1) /\ (side[m] = -1 => col[m] <= -1)
      BY DEF OnTheirSides
    <3>3. CASE m = n
      BY <1>6, <3>1, <3>2, <3>3
    <3>4. CASE m # n
      BY <1>6, <3>1, <3>2, <3>4
    <3> QED BY <3>3, <3>4
  <2> QED BY <1>6, <2>1, <2>2 DEF OnTheirSides
<1> QED BY <1>3, <1>4, <1>7, <1>8, <1>9

\* A pass over the edges moves nodes outwards; when it moves none, no edge is within
\* a column.
LEMMA BumpedIs ==
  ASSUME NodesInv, EdgesInv, HubIs, side \in [Others -> {1, -1}],
         NEW col, OnTheirSides(col)
  PROVE  /\ OnTheirSides(Bumped(col))
         /\ Bumped(col) = col =>
              \A e \in DOMAIN edges : col[edges[e].source] # col[edges[e].target]
<1> DEFINE K == Len(edges)
           V == {c \in [Ids -> Int] : OnTheirSides(c)}
           step == [p \in V \X (1..K) |-> Bump(p[1], edges[p[2]])]
<1>1. K \in Nat /\ DOMAIN edges = 1..K
  <2>1. edges \in Seq(EdgeType)
    BY DEF EdgesInv
  <2> QED BY <2>1
<1>2. \A c : c \in V <=> OnTheirSides(c)
  BY DEF OnTheirSides
<1>3. \A c \in V, e \in 1..K :
        /\ Bump(c, edges[e]) \in V /\ Further(c, Bump(c, edges[e]))
        /\ Bump(c, edges[e]) = c => c[edges[e].source] # c[edges[e].target]
  BY <1>1, <1>2, BumpIs
<1>4. V \subseteq [Ids -> Int] /\ col \in V
  BY <1>2
<1> DEFINE Body(g) == [i \in 0..K |-> IF i = 0 THEN col
                        ELSE CHOOSE r \in {Bump(x, edges[i]) : x \in {g[i - 1]}} : TRUE]
           after == CHOOSE g : g = Body(g)
<1> HIDE DEF V
<1>6. step \in [V \X (1..K) -> V]
  <2> HIDE DEF K
  <2> QED BY <1>3
<1>7. PICK f : f \in [0..K -> V] /\ Runs(f, K, col, step)
  <2> HIDE DEF step, K
  <2> QED BY <1>1, <1>4, <1>6, StepsExist
<1>8. \A g : \A i \in 1..K :
        (CHOOSE r \in {Bump(x, edges[i]) : x \in {g[i - 1]}} : TRUE) = Bump(g[i - 1], edges[i])
  OBVIOUS
<1>9. f = Body(f)
  <2> HIDE DEF K
  <2>1. f = [i \in 0..K |-> f[i]]
    BY <1>7
  <2>2. ASSUME NEW i \in 1..K PROVE f[i] = Bump(f[i - 1], edges[i])
    <3>1. i - 1 \in 0..K
      BY <1>1
    <3>2. <<f[i - 1], i>> \in V \X (1..K)
      BY <1>7, <3>1
    <3> QED BY <1>7, <3>2 DEF Runs
  <2>3. f[0] = col
    BY <1>7 DEF Runs
  <2>4. \A i \in 0..K : i = 0 \/ i \in 1..K
    BY <1>1
  <2> QED BY <1>8, <2>1, <2>2, <2>3, <2>4
<1>10. after = Body(after)
  <2> HIDE DEF Body
  <2> QED BY <1>9
<1>11. Bumped(col) = after[K]
  BY DEF Bumped, Iterate
<1> HIDE DEF after, K
<1>12. after[0] = col /\ \A i \in 1..K : after[i] = Bump(after[i - 1], edges[i])
  <2>1. \A i \in 0..K : after[i] = IF i = 0 THEN col
                        ELSE CHOOSE r \in {Bump(x, edges[i]) : x \in {after[i - 1]}} : TRUE
    BY <1>10
  <2>2. 0 \in 0..K /\ \A i \in 1..K : i \in 0..K /\ i # 0
    BY <1>1
  <2> QED BY <1>8, <2>1, <2>2
<1> DEFINE Good(i) == /\ after[i] \in V /\ Further(col, after[i])
                      /\ after[i] = col =>
                           \A e \in 1..i : col[edges[e].source] # col[edges[e].target]
           P == {i \in 0..K : Good(i)}
<1>13. 0 \in P
  <2>1. 0 \in 0..K /\ 1..0 = {}
    BY <1>1
  <2>2. Further(col, col)
    BY <1>4 DEF Further
  <2> QED BY <1>4, <1>12, <2>1, <2>2
<1>14. ASSUME NEW i \in 0..K - 1, i \in P PROVE i + 1 \in P
  <2>1. i + 1 \in 1..K /\ (i + 1) - 1 = i /\ i + 1 \in 0..K /\ 1..i + 1 = (1..i) \cup {i + 1}
    BY <1>1
  <2>2. after[i + 1] = Bump(after[i], edges[i + 1]) /\ Good(i)
    BY <1>12, <1>14, <2>1
  <2>3. after[i + 1] \in V /\ Further(after[i], after[i + 1])
    BY <1>3, <2>1, <2>2
  <2>4. Further(col, after[i + 1]) /\ (after[i + 1] = col => after[i] = col)
    BY <1>4, <2>2, <2>3, FurtherIs
  <2>5. ASSUME after[i + 1] = col, NEW e \in 1..i + 1
        PROVE  col[edges[e].source] # col[edges[e].target]
    <3>1. CASE e \in 1..i
      BY <2>2, <2>4, <2>5, <3>1
    <3>2. CASE e = i + 1
      BY <1>3, <1>4, <2>1, <2>2, <2>4, <2>5, <3>2
    <3> QED BY <2>1, <3>1, <3>2
  <2>6. Good(i + 1)
    BY <2>3, <2>4, <2>5
  <2> HIDE DEF Good
  <2> QED BY <2>1, <2>6
<1>15. K \in P
  <2>1. \A i \in 0..K - 1 : i \in P => i + 1 \in P
    BY <1>14
  <2>2. K \in 0..K
    BY <1>1
  <2> HIDE DEF P
  <2> QED BY <1>1, <1>13, <2>1, <2>2, UpTo
<1> QED BY <1>1, <1>2, <1>11, <1>15

\* Every node is on its side of the hub, and with the bumps done no edge is within a
\* column.
ColumnInv ==
  /\ stage = "bump" => OnTheirSides(column)
  /\ Columned =>
       /\ column \in [Ids -> Int]
       /\ \A n \in Others : /\ side[n] = 1 => column[n] > column[hub]
                            /\ side[n] = -1 => column[n] < column[hub]
       /\ stage # "bump" =>
            \A e \in DOMAIN edges : column[edges[e].source] # column[edges[e].target]

LEMMA ColumnsInit == Init => ColumnInv
BY DEF Init, GraphInit, ColumnInv, Columned

\* The least column, which becomes column 0.
LEMMA LeastColumn ==
  ASSUME NodesInv, HubIs, column \in [Ids -> Int]
  PROVE  Min({column[m] : m \in Ids}) \in Int
<1> DEFINE S == {column[m] : m \in Ids}
<1>1. IsFiniteSet(S) /\ S \subseteq Int /\ S # {}
  <2>1. IsFiniteSet(S)
    BY IdsAre, ImageIsFinite
  <2>2. hub \in Ids
    BY DEF HubIs
  <2> QED BY <2>1, <2>2
<1> HIDE DEF S
<1>2. Min(S) \in Int
  BY <1>1, MinIs
<1> QED BY <1>2 DEF S

LEMMA ColumnsNext ==
  ASSUME IInv, RootInv, HubInv, PartsInv, ColumnInv, [Next]_vars
  PROVE  ColumnInv'
<1>1. NodesInv /\ EdgesInv
  BY DEF IInv
<1>2. ASSUME UNCHANGED <<nodes, edges, adj, hub, side>>
      PROVE  /\ Ids' = Ids /\ Others' = Others
             /\ OnTheirSides(column)' <=> OnTheirSides(column')
  BY <1>2, GraphStays DEF OnTheirSides
<1>3. CASE SignColumns
  <2>1. UNCHANGED <<nodes, edges, adj, hub, side>> /\ stage = "columns" /\ stage' = "bump"
    BY <1>3 DEF SignColumns, graphVars
  <2>2. HubIs /\ side \in [Others -> {1, -1}]
    BY <2>1 DEF HubInv, PartsInv
  <2>3. OnTheirSides(column')
    BY <1>1, <1>3, <2>2, SignedAre
  <2>4. \A n \in Others : n \in Ids
    BY DEF Others
  <2>5. /\ column' \in [Ids -> Int]
        /\ \A n \in Others : /\ side[n] = 1 => column'[n] > column'[hub]
                             /\ side[n] = -1 => column'[n] < column'[hub]
    BY <2>3, <2>4 DEF OnTheirSides
  <2> QED BY <1>2, <2>1, <2>3, <2>5 DEF ColumnInv, Columned
<1>4. CASE BumpSameColumnEdges
  <2>1. /\ UNCHANGED <<nodes, edges, adj, hub, side>> /\ stage = "bump"
        /\ column' = Bumped(column) /\ stage' = IF column' = column THEN "order" ELSE "bump"
    BY <1>4 DEF BumpSameColumnEdges, graphVars
  <2>2. HubIs /\ side \in [Others -> {1, -1}] /\ OnTheirSides(column)
    BY <2>1 DEF HubInv, PartsInv, ColumnInv, Columned
  <2>3. /\ OnTheirSides(column')
        /\ column' = column =>
             \A e \in DOMAIN edges : column[edges[e].source] # column[edges[e].target]
    BY <1>1, <2>1, <2>2, BumpedIs
  <2>4. \A n \in Others : n \in Ids
    BY DEF Others
  <2>5. /\ column' \in [Ids -> Int]
        /\ \A n \in Others : /\ side[n] = 1 => column'[n] > column'[hub]
                             /\ side[n] = -1 => column'[n] < column'[hub]
    BY <2>3, <2>4 DEF OnTheirSides
  <2> QED BY <1>2, <2>1, <2>3, <2>5 DEF ColumnInv, Columned
<1>5. CASE OrderColumns
  <2> DEFINE low == Min({column[m] : m \in Ids})
  <2>1. /\ UNCHANGED <<nodes, edges, adj, hub, side>> /\ stage = "order" /\ stage' = "place"
        /\ column' = [n \in Ids |-> column[n] - low]
    BY <1>5 DEF OrderColumns, graphVars
  <2>2. /\ column \in [Ids -> Int] /\ HubIs
        /\ \A n \in Others : /\ side[n] = 1 => column[n] > column[hub]
                             /\ side[n] = -1 => column[n] < column[hub]
        /\ \A e \in DOMAIN edges : column[edges[e].source] # column[edges[e].target]
    BY <2>1 DEF HubInv, ColumnInv, Columned
  <2>3. low \in Int
    BY <1>1, <2>2, LeastColumn
  <2> HIDE DEF low
  <2>4. hub \in Ids /\ \A n \in Others : n \in Ids
    BY <2>2 DEF HubIs, Others
  <2>5. \A n \in Ids : column'[n] = column[n] - low /\ column[n] \in Int
    BY <2>1, <2>2
  <2>6. column' \in [Ids -> Int]
    BY <2>1, <2>2, <2>3
  <2>7. \A n \in Others : /\ side[n] = 1 => column'[n] > column'[hub]
                          /\ side[n] = -1 => column'[n] < column'[hub]
    BY <2>2, <2>3, <2>4, <2>5
  <2>8. \A e \in DOMAIN edges : column'[edges[e].source] # column'[edges[e].target]
    <3>1. \A e \in DOMAIN edges : edges[e].source \in Ids /\ edges[e].target \in Ids
      BY <1>1, EdgesAre
    <3> QED BY <2>2, <2>3, <2>5, <3>1
  <2> QED BY <1>2, <2>1, <2>6, <2>7, <2>8 DEF ColumnInv, Columned
<1>6. CASE GraphNext \/ SelectHub \/ PartitionSides \/ GrowBalanced \/ Grown \/ KlSwap \/ Swapped
  <2>1. ~Columned' /\ stage' # "bump"
    BY <1>6 DEF GraphNext, DescribeSource, NextTable, SelfReference, FollowReference, Discovered,
       SelectHub, PartitionSides, GrowBalanced, Grown, KlSwap, Swapped, Columned
  <2> QED BY <2>1 DEF ColumnInv
<1>7. CASE Place \/ Routed \/ NoRoute \/ Ended \/ UNCHANGED vars
  <2>1. UNCHANGED <<nodes, edges, adj, hub, side, column>>
    BY <1>7 DEF Place, Routed, NoRoute, Ended, vars, graphVars, layoutVars
  <2>2. stage' = stage \/ (Columned /\ stage # "bump" /\ stage' # "bump")
    BY <1>7 DEF Place, Routed, NoRoute, Ended, vars, Columned
  <2> QED BY <1>2, <2>1, <2>2 DEF ColumnInv, Columned
<1> QED BY <1>3, <1>4, <1>5, <1>6, <1>7 DEF Next, Step, GraphStep, LayoutStep, LayoutNext

-----------------------------------------------------------------------------
(* The order within the columns.  Means are compared as fractions.          *)

LEMMA Scaled ==
  ASSUME NEW x \in Int, NEW y \in Int, NEW z \in Nat \ {0}
  PROVE  (x < y <=> x * z < y * z) /\ (x <= y <=> x * z <= y * z)
<1>1. ASSUME NEW d \in Nat PROVE (x + d) * z = x * z + d * z /\ d * z >= 0 /\ (d > 0 => d * z > 0)
  OBVIOUS
<1>2. ASSUME NEW d \in Nat PROVE (y + d) * z = y * z + d * z /\ d * z >= 0 /\ (d > 0 => d * z > 0)
  OBVIOUS
<1>3. x * z \in Int /\ y * z \in Int
  OBVIOUS
<1>4. CASE x <= y
  <2>1. y - x \in Nat /\ x + (y - x) = y
    BY <1>4
  <2>2. y * z = x * z + (y - x) * z /\ (y - x) * z >= 0 /\ (y - x > 0 => (y - x) * z > 0)
    BY <1>1, <2>1
  <2>3. (y - x) * z \in Int
    BY <2>1
  <2>4. x < y => y - x > 0
    OBVIOUS
  <2>5. x = y => x * z = y * z
    OBVIOUS
  <2> QED BY <1>3, <1>4, <2>2, <2>3, <2>4, <2>5
<1>5. CASE y < x
  <2>1. x - y \in Nat /\ y + (x - y) = x /\ x - y > 0
    BY <1>5
  <2>2. x * z = y * z + (x - y) * z /\ (x - y) * z > 0
    BY <1>2, <2>1
  <2>3. (x - y) * z \in Int
    BY <2>1
  <2> QED BY <1>3, <1>5, <2>2, <2>3
<1> QED BY <1>4, <1>5

LEMMA Fractions ==
  ASSUME NEW a \in Int, NEW b \in Int, NEW c \in Int,
         NEW u \in Nat \ {0}, NEW v \in Nat \ {0}, NEW w \in Nat \ {0},
         a * v <= b * u, b * w <= c * v
  PROVE  a * w <= c * u /\ (a * v < b * u \/ b * w < c * v => a * w < c * u)
<1>1. /\ (a * v) * w = (a * w) * v /\ (b * u) * w = (b * w) * u /\ (c * v) * u = (c * u) * v
  OBVIOUS
<1>2. /\ a * v \in Int /\ b * u \in Int /\ b * w \in Int /\ c * v \in Int
      /\ a * w \in Int /\ c * u \in Int
  OBVIOUS
<1>3. /\ (a * v) * w <= (b * u) * w /\ (a * v < b * u => (a * v) * w < (b * u) * w)
      /\ (b * w) * u <= (c * v) * u /\ (b * w < c * v => (b * w) * u < (c * v) * u)
  BY <1>2, Scaled
<1>4. /\ (a * w) * v <= (c * u) * v
      /\ a * v < b * u \/ b * w < c * v => (a * w) * v < (c * u) * v
  <2>1. (a * w) * v \in Int /\ (b * w) * u \in Int /\ (c * u) * v \in Int
    BY <1>2
  <2> QED BY <1>1, <1>3, <2>1
<1> QED BY <1>2, <1>4, Scaled

\* s names every element of S once.
Enumerates(s, S) ==
  /\ DOMAIN s = 1..Len(s) /\ Len(s) \in Nat /\ ToSet(s) = S
  /\ \A i, j \in DOMAIN s : s[i] = s[j] => i = j

\* The nodes of a column, and orders of the nodes of every column.
InColumn(c) == {n \in Ids : column'[n] = c}
NewColumns  == {column'[n] : n \in Ids}
Arranged    == {rs \in [NewColumns -> Seq(Ids)] :
                  \A c \in NewColumns : Enumerates(rs[c], InColumn(c))}

LEMMA BarycenterIs ==
  ASSUME NodesInv, HubIs, NEW rs \in Arranged, NEW n \in Ids, NEW direction
  PROVE  \E a \in Int, u \in Nat \ {0} : Barycenter(rs, n, direction) = <<a, u>>
<1>1. \A m \in Ids : Position(rs, m) \in Nat
  <2> SUFFICES ASSUME NEW m \in Ids PROVE Position(rs, m) \in Nat
    OBVIOUS
  <2> DEFINE s == rs[column'[m]]
  <2>1. /\ DOMAIN s = 1..Len(s) /\ Len(s) \in Nat /\ m \in ToSet(s)
    BY DEF Arranged, NewColumns, InColumn, Enumerates
  <2>2. \E i \in DOMAIN s : s[i] = m
    BY <2>1 DEF ToSet
  <2>3. Position(rs, m) \in DOMAIN s
    BY <2>2 DEF Position
  <2> QED BY <2>1, <2>3
<1> DEFINE refs == {m \in Neighbours(n) : (column'[m] - column'[n]) * direction > 0}
<1>2. refs \in SUBSET Ids
  BY DEF HubIs
<1>3. IsFiniteSet(refs) /\ Cardinality(refs) \in Nat /\ (refs # {} => Cardinality(refs) # 0)
  BY <1>2, IdsAre, FS_Subset, FS_CardinalityType, FS_EmptySet
<1>4. Barycenter(rs, n, direction) =
        IF refs = {} THEN <<Position(rs, n), 1>>
        ELSE <<SumFunction([m \in refs |-> Position(rs, m)]), Cardinality(refs)>>
  BY DEF Barycenter
<1> HIDE DEF refs
<1>5. SumFunction([m \in refs |-> Position(rs, m)]) \in Int
  <2> DEFINE h == [m \in refs |-> Position(rs, m)]
  <2>1. h \in [refs -> Int]
    BY <1>1, <1>2
  <2> HIDE DEF h
  <2>2. SumFunction(h) \in Int
    BY <1>3, <2>1, SumType
  <2> QED BY <2>2 DEF h
<1>6. CASE refs = {}
  <2>1. Barycenter(rs, n, direction) = <<Position(rs, n), 1>> /\ Position(rs, n) \in Int
    BY <1>1, <1>4, <1>6
  <2>2. 1 \in Nat \ {0}
    OBVIOUS
  <2> QED BY <2>1, <2>2
<1>7. CASE refs # {}
  <2>1. PICK a : a = SumFunction([m \in refs |-> Position(rs, m)])
    OBVIOUS
  <2>2. Barycenter(rs, n, direction) = <<a, Cardinality(refs)>>
    BY <1>4, <1>7, <2>1
  <2>3. a \in Int /\ Cardinality(refs) \in Nat \ {0}
    BY <1>3, <1>5, <1>7, <2>1
  <2> QED BY <2>2, <2>3
<1> QED BY <1>6, <1>7

LEMMA SortIs ==
  ASSUME NodesInv, HubIs, NEW rs \in Arranged, NEW c \in NewColumns, NEW direction
  PROVE  SortColumn(rs, c, direction) \in Arranged
<1> DEFINE S == ToSet(rs[c])
           key == [n \in S |-> Barycenter(rs, n, direction)]
           R == {p \in S \X S :
                   LET a == key[p[1]]
                       b == key[p[2]]
                   IN  \/ a[1] * b[2] < b[1] * a[2]
                       \/ a[1] * b[2] = b[1] * a[2] /\ p[1] < p[2]}
           s == InOrder(S, R)
<1>1. S = InColumn(c) /\ S \in SUBSET Ids
  BY DEF Arranged, Enumerates, InColumn
<1>2. IsFiniteSet(S) /\ S \subseteq Int
  BY <1>1, IdsAre, FS_Subset
<1>3. SortColumn(rs, c, direction) = [rs EXCEPT ![c] = s]
  BY DEF SortColumn
<1> HIDE DEF S
<1>4. \A n \in S : key[n][1] \in Int /\ key[n][2] \in Nat \ {0}
  <2> SUFFICES ASSUME NEW n \in S PROVE key[n][1] \in Int /\ key[n][2] \in Nat \ {0}
    OBVIOUS
  <2>1. \E a \in Int, u \in Nat \ {0} : key[n] = <<a, u>>
    BY <1>1, BarycenterIs
  <2> HIDE DEF key
  <2> QED BY <2>1
<1> HIDE DEF key
<1> DEFINE Less(x, y) == key[x][1] * key[y][2] < key[y][1] * key[x][2]
           Same(x, y) == key[x][1] * key[y][2] = key[y][1] * key[x][2]
<1>5. \A x, y \in S : <<x, y>> \in R <=> Less(x, y) \/ (Same(x, y) /\ x < y)
  OBVIOUS
<1> HIDE DEF R
<1>6. \A x, y \in S : /\ Less(x, y) \/ Same(x, y) \/ Less(y, x)
                      /\ ~(Less(x, y) /\ Less(y, x)) /\ (Same(x, y) <=> Same(y, x))
                      /\ ~(Less(x, y) /\ Same(x, y)) /\ Same(x, x)
  <2> SUFFICES ASSUME NEW x \in S, NEW y \in S
               PROVE  /\ Less(x, y) \/ Same(x, y) \/ Less(y, x)
                      /\ ~(Less(x, y) /\ Less(y, x)) /\ (Same(x, y) <=> Same(y, x))
                      /\ ~(Less(x, y) /\ Same(x, y)) /\ Same(x, x)
    OBVIOUS
  <2>1. key[x][1] * key[y][2] \in Int /\ key[y][1] * key[x][2] \in Int
    BY <1>4
  <2> QED BY <2>1
<1>7. \A x, y, z \in S :
        (Less(x, y) \/ Same(x, y)) /\ (Less(y, z) \/ Same(y, z)) =>
          (Less(x, z) \/ Same(x, z)) /\ (Less(x, y) \/ Less(y, z) => Less(x, z))
  <2> SUFFICES ASSUME NEW x \in S, NEW y \in S, NEW z \in S,
                      Less(x, y) \/ Same(x, y), Less(y, z) \/ Same(y, z)
               PROVE  (Less(x, z) \/ Same(x, z)) /\ (Less(x, y) \/ Less(y, z) => Less(x, z))
    OBVIOUS
  <2>1. PICK a \in Int, b \in Int, d \in Int : a = key[x][1] /\ b = key[y][1] /\ d = key[z][1]
    BY <1>4
  <2>2. PICK u \in Nat \ {0}, v \in Nat \ {0}, w \in Nat \ {0} :
          u = key[x][2] /\ v = key[y][2] /\ w = key[z][2]
    BY <1>4
  <2>3. /\ a * v \in Int /\ b * u \in Int /\ b * w \in Int /\ d * v \in Int
        /\ a * w \in Int /\ d * u \in Int
    OBVIOUS
  <2>4. a * v <= b * u /\ b * w <= d * v
    BY <2>1, <2>2, <2>3
  <2>5. a * w <= d * u /\ (a * v < b * u \/ b * w < d * v => a * w < d * u)
    BY <2>4, Fractions
  <2> QED BY <2>1, <2>2, <2>3, <2>5
<1> HIDE DEF Less, Same
<1>8. Orders(R, S)
  <2>1. \A x \in S : <<x, x>> \notin R
    BY <1>2, <1>5, <1>6
  <2>2. ASSUME NEW x \in S, NEW y \in S, NEW z \in S, <<x, y>> \in R, <<y, z>> \in R
        PROVE  <<x, z>> \in R
    <3>1. x \in Int /\ y \in Int /\ z \in Int
      BY <1>2
    <3>2. /\ Less(x, y) \/ (Same(x, y) /\ x < y)
          /\ Less(y, z) \/ (Same(y, z) /\ y < z)
      BY <1>5, <2>2
    <3>3. CASE Less(x, y) \/ Less(y, z)
      BY <1>5, <1>7, <3>2, <3>3
    <3>4. CASE ~(Less(x, y) \/ Less(y, z))
      <4>1. x < z
        BY <3>1, <3>2, <3>4
      <4>2. Less(x, z) \/ Same(x, z)
        BY <1>7, <3>2
      <4> QED BY <1>5, <4>1, <4>2
    <3> QED BY <3>3, <3>4
  <2>3. ASSUME NEW x \in S, NEW y \in S, x # y PROVE <<x, y>> \in R \/ <<y, x>> \in R
    <3>1. x < y \/ y < x
      BY <1>2, <2>3
    <3> QED BY <1>5, <1>6, <3>1
  <2> QED BY <2>1, <2>2, <2>3 DEF Orders
<1>9. /\ s \in Seq(S) /\ Len(s) = Cardinality(S) /\ DOMAIN s = 1..Cardinality(S) /\ ToSet(s) = S
      /\ \A i, j \in DOMAIN s : s[i] = s[j] => i = j
  BY <1>2, <1>8, InOrderIs
<1> HIDE DEF s
<1>10. Cardinality(S) \in Nat
  BY <1>2, FS_CardinalityType
<1>11. Enumerates(s, InColumn(c)) /\ s \in Seq(Ids)
  <2>1. s \in Seq(Ids)
    BY <1>1, <1>9
  <2> QED BY <1>1, <1>9, <1>10, <2>1 DEF Enumerates
<1>12. rs \in [NewColumns -> Seq(Ids)] /\ \A d \in NewColumns : Enumerates(rs[d], InColumn(d))
  BY DEF Arranged
<1> DEFINE new == [rs EXCEPT ![c] = s]
<1>13. new \in [NewColumns -> Seq(Ids)] /\ new[c] = s /\ \A d \in NewColumns : d # c => new[d] = rs[d]
  BY <1>11, <1>12
<1> HIDE DEF new
<1>14. new \in Arranged
  BY <1>11, <1>12, <1>13 DEF Arranged
<1> QED BY <1>3, <1>14 DEF new

LEMMA SweepIs ==
  ASSUME NodesInv, HubIs, NEW rs \in Arranged, NEW cs \in Seq(NewColumns), NEW direction
  PROVE  Sweep(rs, cs, direction) \in Arranged
<1> DEFINE K == Len(cs)
           Sort(x, c) == SortColumn(x, c, direction)
           step == [p \in Arranged \X (1..K) |-> Sort(p[1], cs[p[2]])]
<1>1. K \in Nat /\ \A i \in 1..K : cs[i] \in NewColumns
  OBVIOUS
<1>2. \A x \in Arranged, i \in 1..K : Sort(x, cs[i]) \in Arranged
  BY <1>1, SortIs
<1> DEFINE Body(g) == [i \in 0..K |-> IF i = 0 THEN rs
                        ELSE CHOOSE r \in {Sort(x, cs[i]) : x \in {g[i - 1]}} : TRUE]
           after == CHOOSE g : g = Body(g)
<1>3. Sweep(rs, cs, direction) = after[K]
  BY DEF Sweep, Iterate
<1> HIDE DEF Sort
<1>4. step \in [Arranged \X (1..K) -> Arranged]
  <2> HIDE DEF K
  <2> QED BY <1>2
<1>5. PICK f : f \in [0..K -> Arranged] /\ Runs(f, K, rs, step)
  <2> HIDE DEF step, K
  <2> QED BY <1>1, <1>4, StepsExist
<1>6. \A g : \A i \in 1..K :
        (CHOOSE r \in {Sort(x, cs[i]) : x \in {g[i - 1]}} : TRUE) = Sort(g[i - 1], cs[i])
  OBVIOUS
<1>7. f = Body(f)
  <2> HIDE DEF K
  <2>1. f = [i \in 0..K |-> f[i]]
    BY <1>5
  <2>2. ASSUME NEW i \in 1..K PROVE f[i] = Sort(f[i - 1], cs[i])
    <3>1. i - 1 \in 0..K
      BY <1>1
    <3>2. <<f[i - 1], i>> \in Arranged \X (1..K)
      BY <1>5, <3>1
    <3> QED BY <1>5, <3>2 DEF Runs
  <2>3. f[0] = rs
    BY <1>5 DEF Runs
  <2>4. \A i \in 0..K : i = 0 \/ i \in 1..K
    BY <1>1
  <2> QED BY <1>6, <2>1, <2>2, <2>3, <2>4
<1>8. after = Body(after)
  <2> HIDE DEF Body
  <2> QED BY <1>7
<1> HIDE DEF after, K
<1>9. after[0] = rs /\ \A i \in 1..K : after[i] = Sort(after[i - 1], cs[i])
  <2>1. \A i \in 0..K : after[i] = IF i = 0 THEN rs
                        ELSE CHOOSE r \in {Sort(x, cs[i]) : x \in {after[i - 1]}} : TRUE
    BY <1>8
  <2>2. 0 \in 0..K /\ \A i \in 1..K : i \in 0..K /\ i # 0
    BY <1>1
  <2> QED BY <1>6, <2>1, <2>2
<1>10. after[K] \in Arranged
  BY <1>1, <1>2, <1>9, StaysIn
<1> QED BY <1>3, <1>10

\* Every column of the new layout lists its own nodes.
LEMMA OrderedIs ==
  ASSUME NodesInv, HubIs, column \in [Ids -> Int], OrderColumns
  PROVE  rows' \in Arranged
<1> DEFINE low     == Min({column[m] : m \in Ids})
           columns == Ascending(NewColumns)
           initial == [c \in ToSet(columns) |-> Ascending(InColumn(c))]
<1>1. column' = [n \in Ids |-> column[n] - low] /\ low \in Int
  BY LeastColumn DEF OrderColumns
<1> HIDE DEF low
<1>2. IsFiniteSet(NewColumns) /\ NewColumns \subseteq Int
  <2>1. IsFiniteSet({column'[n] : n \in Ids})
    BY IdsAre, ImageIsFinite
  <2>2. \A n \in Ids : column'[n] \in Int
    BY <1>1
  <2> QED BY <2>1, <2>2 DEF NewColumns
<1>3. /\ columns \in Seq(NewColumns) /\ ToSet(columns) = NewColumns
      /\ Reverse(columns) \in Seq(NewColumns)
  <2>1. columns \in Seq(NewColumns) /\ ToSet(columns) = NewColumns
    BY <1>2, AscendingIs
  <2> HIDE DEF columns
  <2>2. Reverse(columns) \in [1..Len(columns) -> NewColumns] /\ Len(columns) \in Nat
    BY <2>1 DEF Reverse
  <2>3. Reverse(columns) \in Seq(NewColumns)
    BY <2>2
  <2> QED BY <2>1, <2>3
<1>4. rows' = Sweep(Sweep(Sweep(Sweep(initial, columns, -1), Reverse(columns), 1), columns, -1),
                    Reverse(columns), 1)
  BY DEF OrderColumns, NewColumns, InColumn
<1> HIDE DEF columns
<1>5. initial \in Arranged
  <2>1. \A c : /\ Ascending(InColumn(c)) \in Seq(Ids)
               /\ Enumerates(Ascending(InColumn(c)), InColumn(c))
    <3> SUFFICES ASSUME NEW c
                 PROVE  /\ Ascending(InColumn(c)) \in Seq(Ids)
                        /\ Enumerates(Ascending(InColumn(c)), InColumn(c))
      OBVIOUS
    <3> DEFINE S == InColumn(c)
               s == Ascending(S)
    <3>1. S \in SUBSET Ids
      BY DEF InColumn
    <3> HIDE DEF S
    <3>2. IsFiniteSet(S) /\ S \subseteq Int /\ Cardinality(S) \in Nat
      BY <3>1, IdsAre, FS_Subset, FS_CardinalityType
    <3>3. /\ s \in Seq(S) /\ Len(s) = Cardinality(S) /\ DOMAIN s = 1..Cardinality(S) /\ ToSet(s) = S
          /\ \A i, j \in DOMAIN s : s[i] = s[j] => i = j
      BY <3>2, AscendingIs
    <3> HIDE DEF s
    <3>4. s \in Seq(Ids)
      BY <3>1, <3>3
    <3>5. Enumerates(s, S)
      BY <3>2, <3>3 DEF Enumerates
    <3> QED BY <3>4, <3>5 DEF s, S
  <2>2. initial = [c \in NewColumns |-> Ascending(InColumn(c))]
    BY <1>3
  <2> HIDE DEF initial
  <2> QED BY <2>1, <2>2 DEF Arranged
<1> HIDE DEF initial
<1> QED BY <1>3, <1>4, <1>5, SweepIs

\* Every column lists its own nodes.
RowsInv ==
  LaidOut => /\ DOMAIN rows = {column[n] : n \in Ids}
             /\ \A c \in DOMAIN rows :
                  Enumerates(rows[c], {n \in Ids : column[n] = c}) /\ rows[c] \in Seq(Ids)

LEMMA RowsInit == Init => RowsInv
BY DEF Init, GraphInit, RowsInv, LaidOut

LEMMA RowsNext ==
  ASSUME IInv, HubInv, ColumnInv, RowsInv, [Next]_vars
  PROVE  RowsInv'
<1>1. CASE OrderColumns
  <2>1. /\ UNCHANGED <<nodes, edges, adj, hub>> /\ stage = "order"
    BY <1>1 DEF OrderColumns, graphVars
  <2>2. NodesInv /\ HubIs /\ column \in [Ids -> Int]
    BY <2>1 DEF IInv, HubInv, ColumnInv, Columned
  <2>3. rows' \in Arranged
    BY <1>1, <2>2, OrderedIs
  <2>4. /\ DOMAIN rows' = NewColumns
        /\ \A c \in NewColumns : Enumerates(rows'[c], InColumn(c)) /\ rows'[c] \in Seq(Ids)
    BY <2>3 DEF Arranged
  <2>5. Ids' = Ids
    BY <2>1, GraphStays
  <2> QED BY <2>4, <2>5 DEF RowsInv, Enumerates, NewColumns, InColumn
<1>2. CASE GraphNext \/ SelectHub \/ PartitionSides \/ GrowBalanced \/ Grown \/ KlSwap \/ Swapped
           \/ SignColumns \/ BumpSameColumnEdges
  <2>1. ~LaidOut'
    BY <1>2 DEF GraphNext, DescribeSource, NextTable, SelfReference, FollowReference, Discovered,
       SelectHub, PartitionSides, GrowBalanced, Grown, KlSwap, Swapped, SignColumns,
       BumpSameColumnEdges, LaidOut
  <2> QED BY <2>1 DEF RowsInv
<1>3. CASE Place \/ Routed \/ NoRoute \/ Ended \/ UNCHANGED vars
  <2>1. UNCHANGED <<nodes, edges, adj, hub, column, rows>>
    BY <1>3 DEF Place, Routed, NoRoute, Ended, vars, graphVars, layoutVars
  <2>2. LaidOut' => LaidOut
    BY <1>3 DEF Place, Routed, NoRoute, Ended, vars, LaidOut
  <2> QED BY <2>1, <2>2, GraphStays DEF RowsInv, Enumerates
<1> QED BY <1>1, <1>2, <1>3 DEF Next, Step, GraphStep, LayoutStep, LayoutNext

-----------------------------------------------------------------------------
(* What the layout promises.                                               *)

LayoutInv == IInv /\ SideInv /\ RootInv /\ HubInv /\ PartsInv /\ ColumnInv /\ RowsInv

\* The graph is connected, the hub is its own, and sides, columns and rows are
\* as described from the choice of the hub to the last placement.
THEOREM LayoutHolds == Spec => []LayoutInv
<1>1. Spec => Init /\ [][Next]_vars
  BY DEF Spec
<1>2. Init => LayoutInv
  BY InitHolds, SidesInit, RootsInit, HubInit, PartsInit, ColumnsInit, RowsInit DEF LayoutInv
<1>3. LayoutInv /\ [Next]_vars => LayoutInv'
  BY StepKeeps, SidesNext, RootsNext, HubNext, PartsNext, ColumnsNext, RowsNext DEF LayoutInv
<1> QED BY <1>1, <1>2, <1>3, PTL

\* Tables that are joined are never left in one column, and every column of the
\* layout holds its own nodes.
THEOREM JoinedStayApart == Spec => []JoinedAreApart
<1>1. LayoutInv => JoinedAreApart
  <2> SUFFICES ASSUME LayoutInv, LaidOut
               PROVE  /\ \A e \in DOMAIN edges : column[edges[e].source] # column[edges[e].target]
                      /\ \A n \in Ids : \E i \in DOMAIN rows[column[n]] : rows[column[n]][i] = n
    BY DEF JoinedAreApart
  <2>1. \A e \in DOMAIN edges : column[edges[e].source] # column[edges[e].target]
    BY DEF LayoutInv, ColumnInv, Columned, LaidOut
  <2>2. ASSUME NEW n \in Ids PROVE \E i \in DOMAIN rows[column[n]] : rows[column[n]][i] = n
    <3>1. Enumerates(rows[column[n]], {m \in Ids : column[m] = column[n]})
      BY DEF LayoutInv, RowsInv
    <3>2. n \in ToSet(rows[column[n]])
      BY <3>1 DEF Enumerates
    <3> QED BY <3>2 DEF ToSet
  <2> QED BY <2>1, <2>2
<1> QED BY <1>1, LayoutHolds, PTL

\* When the hub divides the rest of the graph, no edge runs from its left to its
\* right.
THEOREM PartsStay == Spec => []PartsKeepTheirSide
<1>1. LayoutInv => PartsKeepTheirSide
  <2> SUFFICES ASSUME LayoutInv, LaidOut, Cardinality(Components(Others)) > 1,
                      NEW e \in DOMAIN edges
               PROVE  (column[edges[e].source] - column[hub])
                        * (column[edges[e].target] - column[hub]) >= 0
    BY DEF PartsKeepTheirSide
  <2> DEFINE a == edges[e].source
             b == edges[e].target
  <2>1. /\ column \in [Ids -> Int] /\ HubIs /\ side \in [Others -> {1, -1}] /\ Fair(side)
        /\ \A n \in Others : /\ side[n] = 1 => column[n] > column[hub]
                             /\ side[n] = -1 => column[n] < column[hub]
    BY DEF LayoutInv, ColumnInv, PartsInv, HubInv, Columned, LaidOut, Divided
  <2>2. a \in Ids /\ b \in Ids /\ hub \in Ids /\ Linked(a, b)
    BY <2>1, EdgesAre DEF LayoutInv, IInv, HubIs, Linked
  <2> HIDE DEF a, b
  <2>3. PICK x \in Int, y \in Int : x = column[a] - column[hub] /\ y = column[b] - column[hub]
    BY <2>1, <2>2
  <2>4. CASE a = hub \/ b = hub
    <3>1. x = 0 \/ y = 0
      BY <2>1, <2>2, <2>3, <2>4
    <3>2. x * y = 0
      BY <3>1
    <3> QED BY <2>3, <3>2 DEF a, b
  <2>5. CASE a # hub /\ b # hub
    <3>1. a \in Others /\ b \in Others
      BY <2>2, <2>5 DEF Others
    <3>2. side[a] = side[b] /\ side[a] \in {1, -1}
      BY <2>1, <2>2, <3>1 DEF Fair
    <3>3. (x > 0 /\ y > 0) \/ (x < 0 /\ y < 0)
      BY <2>1, <2>2, <2>3, <3>1, <3>2
    <3>4. x * y >= 0
      <4>1. CASE x > 0 /\ y > 0
        BY <4>1
      <4>2. CASE x < 0 /\ y < 0
        BY <4>2
      <4> QED BY <3>3, <4>1, <4>2
    <3> QED BY <2>3, <3>4 DEF a, b
  <2> QED BY <2>4, <2>5
<1> QED BY <1>1, LayoutHolds, PTL

-----------------------------------------------------------------------------
(* Sizes and spacings.                                                     *)

LEMMA SizesAre ==
  ASSUME NodesInv, NEW n \in Ids
  PROVE  Height(n) \in Nat /\ Height(n) >= 3 /\ Width(n) \in Nat
<1>1. db \in Databases /\ nodes \in Seq(NodeType) /\ n \in DOMAIN nodes
  BY DEF NodesInv, Ids
<1>a. nodes[n] \in NodeType
  BY <1>1
<1>2. nodes[n].path \in Tables
  BY <1>a DEF NodeType
<1>3. db.height[nodes[n].path] \in Nat \ 0..2 /\ db.width[nodes[n].path] \in Nat \ 0..4
  BY <1>1, <1>2, SizeAssumption DEF SizeAssumption
<1> QED BY <1>3 DEF Height, Width

RungInv == rung \in 1..5

LEMMA RungInit == Init => RungInv
BY DEF Init, RungInv

LEMMA LadderIs ==
  ASSUME EdgesInv, NEW r \in 1..5
  PROVE  /\ Len(Ladder) = 5
         /\ Ladder[r].box_gap \in Nat /\ Ladder[r].channel_padding \in Nat
<1>1. Len(edges) \in Nat
  <2>1. edges \in Seq(EdgeType)
    BY DEF EdgesInv
  <2> QED BY <2>1
<1>2. PICK k \in Nat, h \in Nat : k = Len(edges) /\ h = Len(edges) \div 2
  BY <1>1
<1>3. Ladder = <<Spacing(1, 1), Spacing(2, 1), Spacing(2, 3), Spacing(3, 1 + h), Spacing(3, 1 + k)>>
  BY <1>2 DEF Ladder
<1>4. Len(Ladder) = 5
  BY <1>3
<1>5. /\ Ladder[1] = Spacing(1, 1) /\ Ladder[2] = Spacing(2, 1) /\ Ladder[3] = Spacing(2, 3)
      /\ Ladder[4] = Spacing(3, 1 + h) /\ Ladder[5] = Spacing(3, 1 + k)
  BY <1>3
<1>6. \A a \in Nat, b \in Nat : Spacing(a, b).box_gap \in Nat /\ Spacing(a, b).channel_padding \in Nat
  BY DEF Spacing
<1>7. 1 + h \in Nat /\ 1 + k \in Nat
  OBVIOUS
<1>8. r = 1 \/ r = 2 \/ r = 3 \/ r = 4 \/ r = 5
  OBVIOUS
<1> QED BY <1>4, <1>5, <1>6, <1>7, <1>8

LEMMA RungNext ==
  ASSUME EdgesInv, RungInv, [Next]_vars
  PROVE  RungInv'
<1>1. CASE NoRoute
  <2>1. Len(Ladder) = 5 /\ rung \in 1..5
    BY LadderIs DEF RungInv
  <2>2. rung' = rung \/ (rung < 5 /\ rung' = rung + 1)
    BY <1>1, <2>1 DEF NoRoute
  <2> QED BY <2>1, <2>2 DEF RungInv
<1>2. CASE ~NoRoute
  <2>1. rung' = rung
    BY <1>2 DEF Next, Step, GraphStep, LayoutStep, Place, Routed, Ended, vars, placeVars
  <2> QED BY <2>1 DEF RungInv
<1> QED BY <1>1, <1>2

\* A column is as wide as its widest box, and the channel after it has room for two
\* stubs and a lane.
LEMMA WidthIs ==
  ASSUME NodesInv, NEW c, ToSet(rows[c]) \in SUBSET Ids
  PROVE  ColumnWidth(c) \in Nat /\ \A n \in ToSet(rows[c]) : Width(n) <= ColumnWidth(c)
<1> DEFINE T == ToSet(rows[c])
           w == [n \in T |-> Width(n)]
           S == {1} \cup {Width(n) : n \in T}
<1>1. IsFiniteSet(T)
  BY IdsAre, FS_Subset
<1>2. \A n \in T : Width(n) \in Nat
  BY SizesAre
<1>3. IsFiniteSet(S) /\ S \subseteq Int /\ 1 \in S
  <2>1. IsFiniteSet({w[n] : n \in T})
    <3> HIDE DEF w, T
    <3> QED BY <1>1, ImageIsFinite
  <2>2. {w[n] : n \in T} = {Width(n) : n \in T}
    OBVIOUS
  <2>3. IsFiniteSet({Width(n) : n \in T} \cup {1})
    <3> HIDE DEF w, T
    <3> QED BY <2>1, <2>2, FS_AddElement
  <2>4. S = {Width(n) : n \in T} \cup {1}
    OBVIOUS
  <2>5. S \subseteq Int
    BY <1>2
  <2> HIDE DEF S
  <2>6. IsFiniteSet(S)
    BY <2>3, <2>4
  <2> QED BY <2>4, <2>5, <2>6
<1>4. Max(S) \in S /\ \A x \in S : x <= Max(S)
  <2> HIDE DEF S
  <2> QED BY <1>3, MaxIs
<1>5. \A n \in T : Width(n) \in S
  OBVIOUS
<1>6. Max(S) \in Nat
  BY <1>2, <1>4
<1>7. ColumnWidth(c) = Max(S)
  BY DEF ColumnWidth
<1> QED BY <1>4, <1>5, <1>6, <1>7

LEMMA ChannelIs ==
  ASSUME NodesInv, EdgesInv, NEW c, NEW padding \in Nat
  PROVE  Channel(c, padding) \in Nat /\ Channel(c, padding) >= 2 * StubLen + 1
<1> DEFINE E == {e \in DOMAIN edges : Crosses(edges[e], c)}
<1>1. Cardinality(E) \in Nat
  <2>1. IsFiniteSet(E)
    BY EdgesAre, FS_Subset
  <2> QED BY <2>1, FS_CardinalityType
<1>2. Channel(c, padding) = Max({2 * padding + Cardinality(E), 2 * StubLen + 1})
  BY DEF Channel
<1> HIDE DEF E
<1>3. PICK a \in Nat : a = 2 * padding + Cardinality(E)
  BY <1>1
<1>4. PICK b \in Nat : b = 2 * StubLen + 1
  BY DEF StubLen
<1>5. Max({a, b}) = IF a <= b THEN b ELSE a
  BY MinMaxPair
<1> QED BY <1>2, <1>3, <1>4, <1>5

-----------------------------------------------------------------------------
(* Columns side by side.                                                   *)

\* Columns from left to right with their channels between them.
SideBySide(x, padding) ==
  \A c, d \in DOMAIN rows :
    /\ x[c] \in Nat
    /\ c < d => x[c] + ColumnWidth(c) + Channel(c, padding) <= x[d]

LEMMA ColumnXIs ==
  ASSUME NodesInv, EdgesInv, NEW padding \in Nat,
         IsFiniteSet(DOMAIN rows), DOMAIN rows \subseteq Int,
         \A c \in DOMAIN rows : ToSet(rows[c]) \in SUBSET Ids
  PROVE  SideBySide(ColumnX(padding), padding)
<1> DEFINE C == DOMAIN rows
           K == Cardinality(C)
           s == Columns
           w == [i \in 1..K |-> ColumnWidth(s[i]) + Channel(s[i], padding)]
<1>1. K \in Nat /\ K = Len(s)
  BY FS_CardinalityType, AscendingIs DEF Columns
<1>2. /\ \A i \in 1..K : s[i] \in C
      /\ \A c \in C : \E i \in 1..K : s[i] = c
      /\ \A i, j \in 1..K : s[i] = s[j] => i = j
      /\ \A i, j \in 1..K : i < j => s[i] < s[j]
  <2>1. /\ DOMAIN s = 1..K /\ ToSet(s) = C
        /\ \A i, j \in DOMAIN s : s[i] = s[j] => i = j
        /\ \A i, j \in DOMAIN s : i < j => s[i] < s[j]
    BY AscendingIs DEF Columns
  <2> HIDE DEF s, K, C
  <2>2. \A c : c \in C <=> \E i \in 1..K : s[i] = c
    BY <2>1 DEF ToSet
  <2> QED BY <2>1, <2>2
<1> HIDE DEF s, K
<1>3. \A i \in 1..K : ColumnWidth(s[i]) \in Nat /\ Channel(s[i], padding) \in Nat
  BY <1>2, WidthIs, ChannelIs
<1>4. w \in [1..K -> Nat]
  BY <1>3
<1> HIDE DEF w
<1> DEFINE step == [p \in Nat \X (1..K) |-> p[1] + w[p[2]]]
<1>5. PICK X \in [0..K -> Nat] : X[0] = 0 /\ \A i \in 1..K : X[i] = X[i - 1] + w[i]
  <2>1. step \in [Nat \X (1..K) -> Nat]
    BY <1>4
  <2>2. 0 \in Nat
    OBVIOUS
  <2>3. PICK X : X \in [0..K -> Nat] /\ Runs(X, K, 0, step)
    <3> HIDE DEF step
    <3> QED BY <1>1, <2>1, <2>2, StepsExist
  <2>4. ASSUME NEW i \in 1..K PROVE X[i] = X[i - 1] + w[i]
    <3>1. i - 1 \in 0..K
      BY <1>1
    <3>2. <<X[i - 1], i>> \in Nat \X (1..K)
      BY <2>3, <3>1
    <3>3. X[i] = step[<<X[i - 1], i>>]
      BY <2>3 DEF Runs
    <3> QED BY <3>2, <3>3
  <2> QED BY <2>3, <2>4 DEF Runs
<1> HIDE DEF step
<1> DEFINE Op(acc, c) == [x  |-> acc.x + ColumnWidth(c) + Channel(c, padding),
                          at |-> [d \in DOMAIN acc.at \cup {c} |->
                                    IF d = c THEN acc.x ELSE acc.at[d]]]
           first == [x |-> 0, at |-> <<>>]
           Body(g) == [i \in 0..K |-> IF i = 0 THEN first
                         ELSE CHOOSE r \in {Op(x, s[i]) : x \in {g[i - 1]}} : TRUE]
           after == CHOOSE g : g = Body(g)
<1>6. ColumnX(padding) = after[K].at
  BY <1>1 DEF ColumnX, Iterate, s
<1> DEFINE pos == [d \in C |-> CHOOSE i \in 1..K : s[i] = d]
           D(i) == {s[j] : j \in 1..i}
           f == [i \in 0..K |-> [x |-> X[i], at |-> [d \in D(i) |-> X[pos[d] - 1]]]]
<1>7. \A i \in 1..K : pos[s[i]] = i
  BY <1>2
<1> HIDE DEF pos
<1>8. ASSUME NEW i \in 1..K PROVE f[i] = Op(f[i - 1], s[i])
  <2>1. i \in 0..K /\ i - 1 \in 0..K
    BY <1>1
  <2>2. f[i - 1] = [x |-> X[i - 1], at |-> [d \in D(i - 1) |-> X[pos[d] - 1]]]
    BY <2>1
  <2>3. f[i] = [x |-> X[i], at |-> [d \in D(i) |-> X[pos[d] - 1]]]
    BY <2>1
  <2>4. D(i) = D(i - 1) \cup {s[i]}
    <3>1. \A j : j \in 1..i <=> j \in 1..i - 1 \/ j = i
      BY <1>1
    <3> QED BY <3>1
  <2> HIDE DEF f, D
  <2>5. DOMAIN f[i - 1].at = D(i - 1) /\ f[i - 1].x = X[i - 1]
        /\ \A d \in D(i - 1) : f[i - 1].at[d] = X[pos[d] - 1]
    BY <2>2
  <2>6. [d \in D(i - 1) \cup {s[i]} |-> IF d = s[i] THEN X[i - 1] ELSE f[i - 1].at[d]]
          = [d \in D(i) |-> X[pos[d] - 1]]
    BY <1>7, <2>4, <2>5
  <2>7. X[i] = X[i - 1] + ColumnWidth(s[i]) + Channel(s[i], padding)
    <3>1. X[i] = X[i - 1] + (ColumnWidth(s[i]) + Channel(s[i], padding))
      BY <1>5 DEF w
    <3>2. X[i - 1] \in Nat
      BY <2>1
    <3> QED BY <1>3, <3>1, <3>2
  <2> QED BY <2>3, <2>5, <2>6, <2>7
<1>9. f[0] = first
  <2>1. D(0) = {}
    OBVIOUS
  <2>2. 0 \in 0..K
    BY <1>1
  <2>3. f[0] = [x |-> X[0], at |-> [d \in D(0) |-> X[pos[d] - 1]]]
    BY <2>2
  <2> HIDE DEF D, f
  <2>4. [d \in D(0) |-> X[pos[d] - 1]] = <<>>
    BY <2>1
  <2> QED BY <1>5, <2>3, <2>4
<1>10. f = [i \in 0..K |-> f[i]]
  OBVIOUS
<1>f. ASSUME NEW i \in 0..K
      PROVE  f[i].at = [d \in D(i) |-> X[pos[d] - 1]]
  OBVIOUS
<1> HIDE DEF f, Op, first
<1>11. \A g : \A i \in 1..K :
         (CHOOSE r \in {Op(x, s[i]) : x \in {g[i - 1]}} : TRUE) = Op(g[i - 1], s[i])
  OBVIOUS
<1>12. f = Body(f)
  <2>1. \A i \in 0..K : i = 0 \/ i \in 1..K
    BY <1>1
  <2> QED BY <1>8, <1>9, <1>10, <1>11, <2>1
<1>13. after = Body(after)
  <2> HIDE DEF Body
  <2> QED BY <1>12
<1> HIDE DEF after
<1>14. after[0] = first /\ \A i \in 1..K : after[i] = Op(after[i - 1], s[i])
  <2>1. \A i \in 0..K : after[i] = IF i = 0 THEN first
                        ELSE CHOOSE r \in {Op(x, s[i]) : x \in {after[i - 1]}} : TRUE
    BY <1>13
  <2>2. 0 \in 0..K /\ \A i \in 1..K : i \in 0..K /\ i # 0
    BY <1>1
  <2> QED BY <1>11, <2>1, <2>2
<1> DEFINE P == {i \in 0..K : after[i] = f[i]}
<1>15. K \in P
  <2>1. 0 \in P
    BY <1>1, <1>9, <1>14
  <2>2. \A i \in 0..K - 1 : i \in P => i + 1 \in P
    <3> SUFFICES ASSUME NEW i \in 0..K - 1, i \in P PROVE i + 1 \in P
      OBVIOUS
    <3>1. i + 1 \in 1..K /\ (i + 1) - 1 = i /\ i + 1 \in 0..K
      BY <1>1
    <3>2. after[i + 1] = Op(after[i], s[i + 1]) /\ f[i + 1] = Op(f[i], s[i + 1])
      BY <1>8, <1>14, <3>1
    <3> QED BY <3>1, <3>2
  <2>3. K \in 0..K
    BY <1>1
  <2> HIDE DEF P
  <2> QED BY <1>1, <2>1, <2>2, <2>3, UpTo
<1>16. ColumnX(padding) = [d \in D(K) |-> X[pos[d] - 1]] /\ D(K) = C
  <2>1. K \in 0..K
    BY <1>1
  <2>2. D(K) = C
    <3>1. \A c : c \in C <=> \E i \in 1..K : s[i] = c
      BY <1>2
    <3> HIDE DEF C
    <3> QED BY <3>1
  <2> HIDE DEF D
  <2> QED BY <1>6, <1>f, <1>15, <2>1, <2>2
<1> HIDE DEF P, D, Body
<1>17. \A i \in 1..K : ColumnX(padding)[s[i]] = X[i - 1]
  BY <1>2, <1>7, <1>16
<1>18. ASSUME NEW i \in 0..K PROVE \A k \in 0..K - i : X[i] <= X[i + k]
  <2> DEFINE Q == {k \in 0..K - i : X[i] <= X[i + k]}
  <2>1. 0 \in Q /\ K - i \in Nat
    <3>1. i + 0 = i /\ X[i] \in Nat /\ 0 \in 0..K - i
      BY <1>1
    <3> QED BY <1>1, <3>1
  <2>2. \A k \in 0..(K - i) - 1 : k \in Q => k + 1 \in Q
    <3> SUFFICES ASSUME NEW k \in 0..(K - i) - 1, k \in Q PROVE k + 1 \in Q
      OBVIOUS
    <3>1. /\ i + k \in 0..K /\ i + (k + 1) \in 1..K /\ (i + (k + 1)) - 1 = i + k
          /\ k + 1 \in 0..K - i
      BY <1>1
    <3>2. X[i + (k + 1)] = X[i + k] + w[i + (k + 1)]
      BY <1>5, <3>1
    <3>3. X[i] \in Nat /\ X[i + k] \in Nat /\ w[i + (k + 1)] \in Nat
      BY <1>4, <3>1
    <3> QED BY <3>1, <3>2, <3>3
  <2> HIDE DEF Q
  <2>3. \A k \in 0..K - i : k \in Q
    BY <2>1, <2>2, UpTo
  <2> QED BY <2>3 DEF Q
<1>19. ASSUME NEW c \in C, NEW d \in C
       PROVE  /\ ColumnX(padding)[c] \in Nat
              /\ c < d => ColumnX(padding)[c] + ColumnWidth(c) + Channel(c, padding)
                            <= ColumnX(padding)[d]
  <2>1. PICK i \in 1..K, j \in 1..K : s[i] = c /\ s[j] = d
    BY <1>2
  <2>2. i - 1 \in 0..K /\ i \in 0..K /\ j - 1 \in 0..K
    BY <1>1
  <2>3. ColumnX(padding)[c] = X[i - 1] /\ ColumnX(padding)[d] = X[j - 1]
    BY <1>17, <2>1
  <2>4. X[i - 1] \in Nat /\ X[i] \in Nat /\ X[j - 1] \in Nat
    BY <2>2
  <2>5. X[i] = X[i - 1] + ColumnWidth(c) + Channel(c, padding)
    BY <1>3, <1>5, <2>1, <2>4 DEF w
  <2>6. ASSUME c < d PROVE X[i] <= X[j - 1]
    <3>1. i < j
      <4>1. c \in Int /\ d \in Int
        OBVIOUS
      <4>2. j < i => d < c
        BY <1>2, <2>1
      <4>3. i = j => c = d
        BY <2>1
      <4> HIDE DEF C
      <4> QED BY <1>1, <2>6, <4>1, <4>2, <4>3
    <3>2. (j - 1) - i \in 0..K - i /\ i + ((j - 1) - i) = j - 1
      BY <1>1, <3>1
    <3> QED BY <1>18, <2>2, <3>2
  <2> QED BY <2>3, <2>4, <2>5, <2>6
<1> QED BY <1>19 DEF SideBySide

-----------------------------------------------------------------------------
(* Boxes in a column.                                                      *)

\* The room a run of boxes takes is that of its first or last and of the others.
LEMMA RoomSplit ==
  ASSUME NodesInv, NEW gap \in Nat, NEW ids \in Seq(Ids),
         NEW S \in SUBSET (1..Len(ids)), NEW k \in S
  PROVE  RoomOf(ids, S, gap) = Height(ids[k]) + gap + RoomOf(ids, S \ {k}, gap)
<1> DEFINE h == [j \in S |-> Height(ids[j]) + gap]
<1>1. \A j \in S : ids[j] \in Ids
  OBVIOUS
<1>2. h \in [S -> Int]
  BY <1>1, SizesAre
<1>3. IsFiniteSet(S)
  <2>1. IsFiniteSet(1..Len(ids))
    BY FS_Interval
  <2> QED BY <2>1, FS_Subset
<1>4. h[k] = Height(ids[k]) + gap
  OBVIOUS
<1>5. [j \in S \ {k} |-> h[j]] = [j \in S \ {k} |-> Height(ids[j]) + gap]
  OBVIOUS
<1>6. SumFunction(h) = h[k] + SumFunction([j \in S \ {k} |-> h[j]])
  <2> HIDE DEF h
  <2> QED BY <1>2, <1>3, SumSplit
<1>7. RoomOf(ids, S, gap) = SumFunction(h)
  BY DEF RoomOf
<1>8. RoomOf(ids, S \ {k}, gap) = SumFunction([j \in S \ {k} |-> h[j]])
  BY <1>5 DEF RoomOf
<1> HIDE DEF h
<1> QED BY <1>4, <1>6, <1>7, <1>8

LEMMA RoomType ==
  ASSUME NodesInv, NEW gap \in Nat, NEW ids \in Seq(Ids), NEW S \in SUBSET (1..Len(ids))
  PROVE  RoomOf(ids, S, gap) \in Nat
<1> DEFINE h == [j \in S |-> Height(ids[j]) + gap]
<1>1. \A j \in S : ids[j] \in Ids
  OBVIOUS
<1>2. h \in [S -> Nat]
  BY <1>1, SizesAre
<1>3. IsFiniteSet(S)
  <2>1. IsFiniteSet(1..Len(ids))
    BY FS_Interval
  <2> QED BY <2>1, FS_Subset
<1>4. RoomOf(ids, S, gap) = SumFunction(h)
  BY DEF RoomOf
<1> HIDE DEF h
<1> QED BY <1>2, <1>3, <1>4, SumType

LEMMA RoomsAre ==
  ASSUME NodesInv, NEW gap \in Nat, NEW ids \in Seq(Ids), NEW i \in 1..Len(ids)
  PROVE  /\ RoomOf(ids, i..i - 1, gap) = 0
         /\ \A k \in i..Len(ids) :
              /\ RoomOf(ids, i..k - 1, gap) \in Nat
              /\ RoomOf(ids, i..k, gap) = RoomOf(ids, i..k - 1, gap) + Height(ids[k]) + gap
         /\ \A k \in 1..i : RoomOf(ids, k..i - 1, gap) \in Nat
         /\ \A k \in 1..i - 1 :
              RoomOf(ids, k..i - 1, gap) = Height(ids[k]) + gap + RoomOf(ids, k + 1..i - 1, gap)
<1>1. RoomOf(ids, i..i - 1, gap) = 0
  <2>1. i..i - 1 = {}
    OBVIOUS
  <2> DEFINE h == [j \in i..i - 1 |-> Height(ids[j]) + gap]
  <2>2. h \in [{} -> Int]
    BY <2>1
  <2>3. RoomOf(ids, i..i - 1, gap) = SumFunction(h)
    BY DEF RoomOf
  <2> HIDE DEF h
  <2> QED BY <2>2, <2>3, SumEmpty
<1>2. ASSUME NEW k \in i..Len(ids)
      PROVE  /\ RoomOf(ids, i..k - 1, gap) \in Nat
             /\ RoomOf(ids, i..k, gap) = RoomOf(ids, i..k - 1, gap) + Height(ids[k]) + gap
  <2>1. /\ i..k \in SUBSET (1..Len(ids)) /\ k \in i..k /\ (i..k) \ {k} = i..k - 1
        /\ i..k - 1 \in SUBSET (1..Len(ids)) /\ ids[k] \in Ids
    OBVIOUS
  <2>2. RoomOf(ids, i..k, gap) = Height(ids[k]) + gap + RoomOf(ids, (i..k) \ {k}, gap)
    BY <2>1, RoomSplit
  <2>3. RoomOf(ids, i..k - 1, gap) \in Nat /\ Height(ids[k]) \in Nat
    BY <2>1, RoomType, SizesAre
  <2>4. RoomOf(ids, i..k, gap) = Height(ids[k]) + gap + RoomOf(ids, i..k - 1, gap)
    BY <2>1, <2>2
  <2> QED BY <2>3, <2>4
<1>3. ASSUME NEW k \in 1..i - 1
      PROVE  RoomOf(ids, k..i - 1, gap) = Height(ids[k]) + gap + RoomOf(ids, k + 1..i - 1, gap)
  <2>1. /\ k..i - 1 \in SUBSET (1..Len(ids)) /\ k \in k..i - 1
        /\ (k..i - 1) \ {k} = k + 1..i - 1
    OBVIOUS
  <2>2. RoomOf(ids, k..i - 1, gap) = Height(ids[k]) + gap + RoomOf(ids, (k..i - 1) \ {k}, gap)
    BY <2>1, RoomSplit
  <2> QED BY <2>1, <2>2
<1>4. ASSUME NEW k \in 1..i PROVE RoomOf(ids, k..i - 1, gap) \in Nat
  <2>1. k..i - 1 \in SUBSET (1..Len(ids))
    OBVIOUS
  <2> QED BY <2>1, RoomType
<1> QED BY <1>1, <1>2, <1>3, <1>4

\* The columns as RowsInv has them.
Filed ==
  /\ column \in [Ids -> Int] /\ DOMAIN rows = {column[n] : n \in Ids}
  /\ \A c \in DOMAIN rows :
       Enumerates(rows[c], {n \in Ids : column[n] = c}) /\ rows[c] \in Seq(Ids)

LEMMA FiledAre ==
  ASSUME NodesInv, Filed
  PROVE  /\ IsFiniteSet(DOMAIN rows) /\ DOMAIN rows \subseteq Int
         /\ \A n \in Ids : column[n] \in DOMAIN rows
                           /\ \E k \in 1..Len(rows[column[n]]) : rows[column[n]][k] = n
         /\ \A c \in DOMAIN rows :
              /\ ToSet(rows[c]) \in SUBSET Ids
              /\ DOMAIN rows[c] = 1..Len(rows[c]) /\ Len(rows[c]) \in Nat
              /\ \A k \in 1..Len(rows[c]) : rows[c][k] \in Ids /\ column[rows[c][k]] = c
              /\ \A j, k \in 1..Len(rows[c]) : rows[c][j] = rows[c][k] => j = k
<1>1. IsFiniteSet(DOMAIN rows) /\ DOMAIN rows \subseteq Int
  <2>1. IsFiniteSet({column[n] : n \in Ids})
    BY IdsAre, ImageIsFinite
  <2> QED BY <2>1 DEF Filed
<1>2. ASSUME NEW c \in DOMAIN rows
      PROVE  /\ ToSet(rows[c]) = {n \in Ids : column[n] = c}
             /\ DOMAIN rows[c] = 1..Len(rows[c]) /\ Len(rows[c]) \in Nat
             /\ \A j, k \in 1..Len(rows[c]) : rows[c][j] = rows[c][k] => j = k
  BY DEF Filed, Enumerates
<1>3. ASSUME NEW c \in DOMAIN rows, NEW k \in 1..Len(rows[c])
      PROVE  rows[c][k] \in Ids /\ column[rows[c][k]] = c
  <2>1. rows[c][k] \in ToSet(rows[c])
    BY <1>2 DEF ToSet
  <2> QED BY <1>2, <2>1
<1>4. ASSUME NEW n \in Ids
      PROVE  /\ column[n] \in DOMAIN rows
             /\ \E k \in 1..Len(rows[column[n]]) : rows[column[n]][k] = n
  <2>1. column[n] \in DOMAIN rows
    BY DEF Filed
  <2>2. n \in ToSet(rows[column[n]])
    BY <1>2, <2>1
  <2> QED BY <1>2, <2>1, <2>2 DEF ToSet
<1> QED BY <1>1, <1>2, <1>3, <1>4

\* Boxes of a column in their order, each a gap below the one before.
Spaced(y, ids, gap) ==
  \A k \in 1..Len(ids) - 1 : y[ids[k]] + Height(ids[k]) + gap <= y[ids[k + 1]]
Stacks(gap) == {y \in [Ids -> Int] : \A c \in DOMAIN rows : Spaced(y, rows[c], gap)}

\* What happens to the boxes of one column leaves the others as they are.
LEMMA OneColumn ==
  ASSUME NodesInv, Filed, NEW gap, NEW y \in Stacks(gap), NEW c \in DOMAIN rows,
         NEW z \in [Ids -> Int], \A n \in Ids : column[n] # c => z[n] = y[n],
         Spaced(z, rows[c], gap)
  PROVE  z \in Stacks(gap)
<1>1. ASSUME NEW d \in DOMAIN rows, d # c PROVE Spaced(z, rows[d], gap)
  <2>1. \A k \in 1..Len(rows[d]) : z[rows[d][k]] = y[rows[d][k]]
    BY <1>1, FiledAre
  <2>2. Len(rows[d]) \in Nat
    BY FiledAre
  <2>3. \A k \in 1..Len(rows[d]) - 1 : k \in 1..Len(rows[d]) /\ k + 1 \in 1..Len(rows[d])
    BY <2>2
  <2>4. Spaced(y, rows[d], gap)
    BY DEF Stacks
  <2> QED BY <2>1, <2>3, <2>4 DEF Spaced
<1> QED BY <1>1 DEF Stacks

LEMMA InitialIs ==
  ASSUME NodesInv, Filed, NEW gap \in Nat
  PROVE  InitialRows(gap) \in Stacks(gap)
<1>1. ASSUME NEW c \in DOMAIN rows, NEW k \in 1..Len(rows[c])
      PROVE  InitialRows(gap)[rows[c][k]] = RoomOf(rows[c], 1..k - 1, gap)
  <2> DEFINE ids == rows[c]
             n == ids[k]
             above == {i \in DOMAIN ids : \E j \in DOMAIN ids : i < j /\ ids[j] = n}
  <2>1. n \in Ids /\ column[n] = c /\ DOMAIN ids = 1..Len(ids) /\ Len(ids) \in Nat
        /\ \A j \in 1..Len(ids) : ids[j] = n => j = k
    BY FiledAre
  <2>2. InitialRows(gap)[n] = SumFunction([i \in above |-> Height(ids[i]) + gap])
    BY <2>1 DEF InitialRows
  <2>3. above = 1..k - 1
    <3>1. \A i : i \in above <=> i \in 1..Len(ids) /\ i < k
      BY <2>1
    <3>2. \A i : i \in 1..k - 1 <=> i \in 1..Len(ids) /\ i < k
      BY <2>1
    <3> HIDE DEF above
    <3> QED BY <3>1, <3>2
  <2> HIDE DEF above
  <2> QED BY <2>2, <2>3 DEF RoomOf
<1>2. ASSUME NEW c \in DOMAIN rows, NEW k \in 1..Len(rows[c])
      PROVE  RoomOf(rows[c], 1..k - 1, gap) \in Nat
  <2>1. rows[c] \in Seq(Ids)
    BY DEF Filed
  <2>2. 1..k - 1 \in SUBSET (1..Len(rows[c]))
    BY FiledAre
  <2> QED BY <2>1, <2>2, RoomType
<1>3. InitialRows(gap) \in [Ids -> Int]
  <2>1. ASSUME NEW n \in Ids PROVE InitialRows(gap)[n] \in Int
    <3>1. PICK k \in 1..Len(rows[column[n]]) : rows[column[n]][k] = n
      BY FiledAre
    <3>2. column[n] \in DOMAIN rows
      BY FiledAre
    <3>3. InitialRows(gap)[n] = RoomOf(rows[column[n]], 1..k - 1, gap)
      BY <1>1, <3>1, <3>2
    <3>4. RoomOf(rows[column[n]], 1..k - 1, gap) \in Nat
      BY <1>2, <3>2
    <3> QED BY <3>3, <3>4
  <2>2. InitialRows(gap) = [n \in Ids |-> InitialRows(gap)[n]]
    BY DEF InitialRows
  <2> QED BY <2>1, <2>2
<1>4. ASSUME NEW c \in DOMAIN rows PROVE Spaced(InitialRows(gap), rows[c], gap)
  <2> SUFFICES ASSUME NEW k \in 1..Len(rows[c]) - 1
               PROVE  InitialRows(gap)[rows[c][k]] + Height(rows[c][k]) + gap
                        <= InitialRows(gap)[rows[c][k + 1]]
    BY DEF Spaced
  <2>1. rows[c] \in Seq(Ids) /\ Len(rows[c]) \in Nat
    BY FiledAre DEF Filed
  <2>2. /\ k \in 1..Len(rows[c]) /\ k + 1 \in 1..Len(rows[c]) /\ (k + 1) - 1 = k
        /\ 1 \in 1..Len(rows[c])
    BY <2>1
  <2>3. /\ InitialRows(gap)[rows[c][k]] = RoomOf(rows[c], 1..k - 1, gap)
        /\ InitialRows(gap)[rows[c][k + 1]] = RoomOf(rows[c], 1..k, gap)
    BY <1>1, <2>2
  <2>4. RoomOf(rows[c], 1..k, gap) = RoomOf(rows[c], 1..k - 1, gap) + Height(rows[c][k]) + gap
    BY <2>1, <2>2, RoomsAre
  <2>5. RoomOf(rows[c], 1..k - 1, gap) \in Nat /\ Height(rows[c][k]) \in Nat
    <3>1. rows[c][k] \in Ids
      BY <2>2, FiledAre
    <3> QED BY <1>2, <2>2, <3>1, SizesAre
  <2> QED BY <2>3, <2>4, <2>5
<1> QED BY <1>3, <1>4 DEF Stacks

LEMMA NudgeDownIs ==
  ASSUME NodesInv, Filed, NEW gap \in Nat, NEW c \in DOMAIN rows, NEW y \in Stacks(gap),
         NEW i \in 1..Len(rows[c]), NEW desired \in Int
  PROVE  NudgeDown(y, rows[c], i, desired, gap) \in Stacks(gap)
<1> DEFINE ids   == rows[c]
           after == {k \in Barriers(ids, i) : k > i}
           limit == IF after = {} THEN desired
                    ELSE Min({desired, y[ids[Min(after)]] - RoomOf(ids, i..(Min(after) - 1), gap)})
           floor(k) == limit + RoomOf(ids, i..(k - 1), gap)
           z == [n \in Ids |-> IF \E k \in i..Len(ids) : ids[k] = n
                              THEN Max({y[n], floor(Rank(ids, n))}) ELSE y[n]]
<1>1. /\ ids \in Seq(Ids) /\ DOMAIN ids = 1..Len(ids) /\ Len(ids) \in Nat
      /\ \A k \in 1..Len(ids) : ids[k] \in Ids /\ column[ids[k]] = c
      /\ \A j, k \in 1..Len(ids) : ids[j] = ids[k] => j = k
  BY FiledAre DEF Filed
<1>2. y \in [Ids -> Int] /\ Spaced(y, ids, gap)
  BY DEF Stacks
<1>3. NudgeDown(y, ids, i, desired, gap) = IF limit <= y[ids[i]] THEN y ELSE z
  BY DEF NudgeDown
<1>4. \A k \in i..Len(ids) :
        /\ RoomOf(ids, i..k - 1, gap) \in Nat
        /\ RoomOf(ids, i..k, gap) = RoomOf(ids, i..k - 1, gap) + Height(ids[k]) + gap
  BY <1>1, RoomsAre
<1>0. RoomOf(ids, i..i - 1, gap) = 0
  BY <1>1, RoomsAre
<1>h. \A k \in 1..Len(ids) : Height(ids[k]) \in Nat
  BY <1>1, SizesAre
<1> HIDE DEF ids
<1>5. limit \in Int
  <2>1. CASE after = {}
    BY <2>1
  <2>2. CASE after # {}
    <3>1. after \in SUBSET (i..Len(ids))
      BY <1>1 DEF Barriers
    <3>2. IsFiniteSet(after) /\ after \subseteq Int
      <4>1. IsFiniteSet(i..Len(ids))
        BY <1>1, FS_Interval
      <4>2. \A k \in i..Len(ids) : k \in Int
        OBVIOUS
      <4> HIDE DEF after
      <4>3. after \subseteq Int
        BY <3>1, <4>2
      <4> QED BY <3>1, <4>1, <4>3, FS_Subset
    <3> HIDE DEF after
    <3>3. Min(after) \in i..Len(ids)
      BY <2>2, <3>1, <3>2, MinIs
    <3>4. y[ids[Min(after)]] \in Int /\ RoomOf(ids, i..(Min(after) - 1), gap) \in Nat
      BY <1>1, <1>2, <1>4, <3>3
    <3>5. PICK b \in Int : b = y[ids[Min(after)]] - RoomOf(ids, i..(Min(after) - 1), gap)
      BY <3>4
    <3>6. Min({desired, b}) \in Int
      BY MinMaxPair
    <3> QED BY <2>2, <3>5, <3>6
  <2> QED BY <2>1, <2>2
<1> HIDE DEF limit, after
<1>6. CASE limit <= y[ids[i]]
  BY <1>3, <1>6 DEF ids
<1>7. CASE ~(limit <= y[ids[i]])
  <2>1. \A k \in i..Len(ids) : Rank(ids, ids[k]) = k
    <3> SUFFICES ASSUME NEW k \in i..Len(ids) PROVE Rank(ids, ids[k]) = k
      OBVIOUS
    <3>1. k \in DOMAIN ids
      BY <1>1
    <3>2. Rank(ids, ids[k]) \in DOMAIN ids /\ ids[Rank(ids, ids[k])] = ids[k]
      BY <3>1 DEF Rank
    <3> QED BY <1>1, <3>1, <3>2
  <2>2. ASSUME NEW k \in i..Len(ids)
        PROVE  /\ floor(k) \in Int
               /\ z[ids[k]] = IF y[ids[k]] <= floor(k) THEN floor(k) ELSE y[ids[k]]
    <3>1. floor(k) \in Int
      BY <1>4, <1>5
    <3>2. ids[k] \in Ids /\ y[ids[k]] \in Int
      BY <1>1, <1>2
    <3>3. z[ids[k]] = Max({y[ids[k]], floor(k)})
      BY <2>1, <3>2
    <3> HIDE DEF z, floor
    <3>4. Max({y[ids[k]], floor(k)}) = IF y[ids[k]] <= floor(k) THEN floor(k) ELSE y[ids[k]]
      BY <3>1, <3>2, MinMaxPair
    <3> QED BY <3>1, <3>3, <3>4
  <2>3. \A n \in Ids : ~(\E k \in i..Len(ids) : ids[k] = n) => z[n] = y[n]
    OBVIOUS
  <2>4. \A k \in i..Len(ids) - 1 : floor(k + 1) = floor(k) + Height(ids[k]) + gap
    <3> SUFFICES ASSUME NEW k \in i..Len(ids) - 1
                 PROVE  floor(k + 1) = floor(k) + Height(ids[k]) + gap
      OBVIOUS
    <3>1. k \in i..Len(ids) /\ (k + 1) - 1 = k /\ k \in 1..Len(ids)
      BY <1>1
    <3>2. RoomOf(ids, i..k, gap) = RoomOf(ids, i..k - 1, gap) + Height(ids[k]) + gap
          /\ RoomOf(ids, i..k - 1, gap) \in Nat /\ Height(ids[k]) \in Nat
      BY <1>4, <1>h, <3>1
    <3> QED BY <1>5, <3>1, <3>2
  <2>5. z = [n \in Ids |-> z[n]]
    OBVIOUS
  <2> HIDE DEF z, floor
  <2>6. z \in [Ids -> Int]
    <3>1. ASSUME NEW n \in Ids PROVE z[n] \in Int
      <4>1. CASE \E k \in i..Len(ids) : ids[k] = n
        <5>1. PICK k \in i..Len(ids) : ids[k] = n
          BY <4>1
        <5> QED BY <1>2, <2>2, <5>1
      <4>2. CASE ~\E k \in i..Len(ids) : ids[k] = n
        BY <1>2, <2>3, <4>2
      <4> QED BY <4>1, <4>2
    <3> QED BY <2>5, <3>1
  <2>7. \A n \in Ids : column[n] # c => z[n] = y[n]
    <3> SUFFICES ASSUME NEW n \in Ids, column[n] # c PROVE z[n] = y[n]
      OBVIOUS
    <3>1. ~\E k \in i..Len(ids) : ids[k] = n
      BY <1>1
    <3> QED BY <2>3, <3>1
  <2>8. Spaced(z, ids, gap)
    <3> SUFFICES ASSUME NEW k \in 1..Len(ids) - 1
                 PROVE  z[ids[k]] + Height(ids[k]) + gap <= z[ids[k + 1]]
      BY DEF Spaced
    <3>1. k \in 1..Len(ids) /\ k + 1 \in 1..Len(ids)
      BY <1>1
    <3>2. /\ ids[k] \in Ids /\ ids[k + 1] \in Ids
          /\ y[ids[k]] \in Int /\ y[ids[k + 1]] \in Int /\ Height(ids[k]) \in Nat
      BY <1>1, <1>2, <1>h, <3>1
    <3>3. y[ids[k]] + Height(ids[k]) + gap <= y[ids[k + 1]]
      BY <1>2 DEF Spaced
    <3>4. y[ids[k + 1]] <= z[ids[k + 1]] /\ z[ids[k + 1]] \in Int
      <4>1. CASE k + 1 \in i..Len(ids)
        BY <2>2, <3>2, <4>1
      <4>2. CASE k + 1 \notin i..Len(ids)
        <5>1. ~\E j \in i..Len(ids) : ids[j] = ids[k + 1]
          BY <1>1, <3>1, <4>2
        <5> QED BY <2>3, <3>2, <5>1
      <4> QED BY <4>1, <4>2
    <3>5. CASE k < i
      <4>1. ~\E j \in i..Len(ids) : ids[j] = ids[k]
        BY <1>1, <3>1, <3>5
      <4>2. z[ids[k]] = y[ids[k]]
        BY <2>3, <3>2, <4>1
      <4> QED BY <3>2, <3>3, <3>4, <4>2
    <3>6. CASE k >= i
      <4>1. k \in i..Len(ids) /\ k + 1 \in i..Len(ids) /\ k \in i..Len(ids) - 1
        BY <1>1, <3>1, <3>6
      <4>2. PICK a \in Int, b \in Int : a = floor(k) /\ b = floor(k + 1)
        BY <2>2, <4>1
      <4>3. b = a + Height(ids[k]) + gap
        BY <2>4, <4>1, <4>2
      <4>4. z[ids[k]] = IF y[ids[k]] <= a THEN a ELSE y[ids[k]]
        BY <2>2, <4>1, <4>2
      <4>5. z[ids[k + 1]] = IF y[ids[k + 1]] <= b THEN b ELSE y[ids[k + 1]]
        BY <2>2, <4>1, <4>2
      <4>6. b <= z[ids[k + 1]]
        BY <3>2, <4>5
      <4>7. CASE y[ids[k]] <= a
        BY <3>2, <3>4, <4>3, <4>4, <4>6, <4>7
      <4>8. CASE ~(y[ids[k]] <= a)
        BY <3>2, <3>3, <3>4, <4>4, <4>8
      <4> QED BY <4>7, <4>8
    <3> QED BY <1>1, <3>5, <3>6
  <2>9. z \in Stacks(gap)
    BY <2>6, <2>7, <2>8, OneColumn DEF ids
  <2> QED BY <1>3, <1>7, <2>9 DEF ids
<1> QED BY <1>6, <1>7

LEMMA NudgeUpIs ==
  ASSUME NodesInv, Filed, NEW gap \in Nat, NEW c \in DOMAIN rows, NEW y \in Stacks(gap),
         NEW i \in 1..Len(rows[c]), NEW desired \in Int
  PROVE  NudgeUp(y, rows[c], i, desired, gap) \in Stacks(gap)
<1> DEFINE ids    == rows[c]
           before == {k \in Barriers(ids, i) : k < i}
           limit  == IF before = {} THEN desired
                     ELSE Max({desired, y[ids[Max(before)]]
                                          + RoomOf(ids, Max(before)..(i - 1), gap)})
           ceiling(k) == limit - RoomOf(ids, k..(i - 1), gap)
           z == [n \in Ids |-> IF \E k \in 1..i : ids[k] = n
                              THEN Min({y[n], ceiling(Rank(ids, n))}) ELSE y[n]]
<1>1. /\ ids \in Seq(Ids) /\ DOMAIN ids = 1..Len(ids) /\ Len(ids) \in Nat
      /\ \A k \in 1..Len(ids) : ids[k] \in Ids /\ column[ids[k]] = c
      /\ \A j, k \in 1..Len(ids) : ids[j] = ids[k] => j = k
  BY FiledAre DEF Filed
<1>2. y \in [Ids -> Int] /\ Spaced(y, ids, gap)
  BY DEF Stacks
<1>3. NudgeUp(y, ids, i, desired, gap) = IF limit >= y[ids[i]] THEN y ELSE z
  BY DEF NudgeUp
<1>4. \A k \in 1..i : RoomOf(ids, k..i - 1, gap) \in Nat
  BY <1>1, RoomsAre
<1>a. \A k \in 1..i - 1 :
        RoomOf(ids, k..i - 1, gap) = Height(ids[k]) + gap + RoomOf(ids, k + 1..i - 1, gap)
  BY <1>1, RoomsAre
<1>h. \A k \in 1..Len(ids) : Height(ids[k]) \in Nat
  BY <1>1, SizesAre
<1>i. i \in 1..Len(ids)
  OBVIOUS
<1> HIDE DEF ids
<1>5. limit \in Int
  <2>1. CASE before = {}
    BY <2>1
  <2>2. CASE before # {}
    <3>1. before \in SUBSET (1..i)
      BY <1>1 DEF Barriers
    <3>2. IsFiniteSet(before) /\ before \subseteq Int
      <4>1. IsFiniteSet(1..i)
        BY <1>i, FS_Interval
      <4>2. \A k \in 1..i : k \in Int
        OBVIOUS
      <4> HIDE DEF before
      <4>3. before \subseteq Int
        BY <3>1, <4>2
      <4> QED BY <3>1, <4>1, <4>3, FS_Subset
    <3> HIDE DEF before
    <3>3. Max(before) \in 1..i
      BY <2>2, <3>1, <3>2, MaxIs
    <3>4. y[ids[Max(before)]] \in Int /\ RoomOf(ids, Max(before)..(i - 1), gap) \in Nat
      <4>1. ids[Max(before)] \in Ids
        BY <1>1, <1>i, <3>3
      <4> QED BY <1>2, <1>4, <3>3, <4>1
    <3>5. PICK b \in Int : b = y[ids[Max(before)]] + RoomOf(ids, Max(before)..(i - 1), gap)
      BY <3>4
    <3>6. Max({desired, b}) \in Int
      BY MinMaxPair
    <3> QED BY <2>2, <3>5, <3>6
  <2> QED BY <2>1, <2>2
<1> HIDE DEF limit, before
<1>6. CASE limit >= y[ids[i]]
  BY <1>3, <1>6 DEF ids
<1>7. CASE ~(limit >= y[ids[i]])
  <2>1. \A k \in 1..i : Rank(ids, ids[k]) = k
    <3> SUFFICES ASSUME NEW k \in 1..i PROVE Rank(ids, ids[k]) = k
      OBVIOUS
    <3>1. k \in DOMAIN ids
      BY <1>1, <1>i
    <3>2. Rank(ids, ids[k]) \in DOMAIN ids /\ ids[Rank(ids, ids[k])] = ids[k]
      BY <3>1 DEF Rank
    <3> QED BY <1>1, <3>1, <3>2
  <2>2. ASSUME NEW k \in 1..i
        PROVE  /\ ceiling(k) \in Int
               /\ z[ids[k]] = IF y[ids[k]] <= ceiling(k) THEN y[ids[k]] ELSE ceiling(k)
    <3>1. ceiling(k) \in Int
      BY <1>4, <1>5
    <3>2. ids[k] \in Ids /\ y[ids[k]] \in Int
      BY <1>1, <1>2, <1>i
    <3>3. z[ids[k]] = Min({y[ids[k]], ceiling(k)})
      BY <2>1, <3>2
    <3> HIDE DEF z, ceiling
    <3>4. Min({y[ids[k]], ceiling(k)}) = IF y[ids[k]] <= ceiling(k) THEN y[ids[k]] ELSE ceiling(k)
      BY <3>1, <3>2, MinMaxPair
    <3> QED BY <3>1, <3>3, <3>4
  <2>3. \A n \in Ids : ~(\E k \in 1..i : ids[k] = n) => z[n] = y[n]
    OBVIOUS
  <2>4. \A k \in 1..i - 1 : ceiling(k + 1) = ceiling(k) + Height(ids[k]) + gap
    <3> SUFFICES ASSUME NEW k \in 1..i - 1
                 PROVE  ceiling(k + 1) = ceiling(k) + Height(ids[k]) + gap
      OBVIOUS
    <3>1. k \in 1..i /\ k + 1 \in 1..i /\ k \in 1..Len(ids)
      BY <1>1, <1>i
    <3>2. /\ RoomOf(ids, k..i - 1, gap) = Height(ids[k]) + gap + RoomOf(ids, k + 1..i - 1, gap)
          /\ RoomOf(ids, k + 1..i - 1, gap) \in Nat /\ Height(ids[k]) \in Nat
      BY <1>4, <1>a, <1>h, <3>1
    <3> QED BY <1>5, <3>2
  <2>5. z = [n \in Ids |-> z[n]]
    OBVIOUS
  <2> HIDE DEF z, ceiling
  <2>6. z \in [Ids -> Int]
    <3>1. ASSUME NEW n \in Ids PROVE z[n] \in Int
      <4>1. CASE \E k \in 1..i : ids[k] = n
        <5>1. PICK k \in 1..i : ids[k] = n
          BY <4>1
        <5> QED BY <1>2, <2>2, <5>1
      <4>2. CASE ~\E k \in 1..i : ids[k] = n
        BY <1>2, <2>3, <4>2
      <4> QED BY <4>1, <4>2
    <3> QED BY <2>5, <3>1
  <2>7. \A n \in Ids : column[n] # c => z[n] = y[n]
    <3> SUFFICES ASSUME NEW n \in Ids, column[n] # c PROVE z[n] = y[n]
      OBVIOUS
    <3>1. ~\E k \in 1..i : ids[k] = n
      BY <1>1, <1>i
    <3> QED BY <2>3, <3>1
  <2>8. Spaced(z, ids, gap)
    <3> SUFFICES ASSUME NEW k \in 1..Len(ids) - 1
                 PROVE  z[ids[k]] + Height(ids[k]) + gap <= z[ids[k + 1]]
      BY DEF Spaced
    <3>1. k \in 1..Len(ids) /\ k + 1 \in 1..Len(ids)
      BY <1>1
    <3>2. /\ ids[k] \in Ids /\ ids[k + 1] \in Ids
          /\ y[ids[k]] \in Int /\ y[ids[k + 1]] \in Int /\ Height(ids[k]) \in Nat
      BY <1>1, <1>2, <1>h, <3>1
    <3>3. y[ids[k]] + Height(ids[k]) + gap <= y[ids[k + 1]]
      BY <1>2 DEF Spaced
    <3>4. z[ids[k]] <= y[ids[k]] /\ z[ids[k]] \in Int
      <4>1. CASE k \in 1..i
        BY <2>2, <3>2, <4>1
      <4>2. CASE k \notin 1..i
        <5>1. ~\E j \in 1..i : ids[j] = ids[k]
          BY <1>1, <1>i, <3>1, <4>2
        <5> QED BY <2>3, <3>2, <5>1
      <4> QED BY <4>1, <4>2
    <3>5. CASE k >= i
      <4>1. ~\E j \in 1..i : ids[j] = ids[k + 1]
        BY <1>1, <1>i, <3>1, <3>5
      <4>2. z[ids[k + 1]] = y[ids[k + 1]]
        BY <2>3, <3>2, <4>1
      <4> QED BY <3>2, <3>3, <3>4, <4>2
    <3>6. CASE k < i
      <4>1. k \in 1..i /\ k + 1 \in 1..i /\ k \in 1..i - 1
        BY <1>1, <1>i, <3>1, <3>6
      <4>2. PICK a \in Int, b \in Int : a = ceiling(k) /\ b = ceiling(k + 1)
        BY <2>2, <4>1
      <4>3. b = a + Height(ids[k]) + gap
        BY <2>4, <4>1, <4>2
      <4>4. z[ids[k]] = IF y[ids[k]] <= a THEN y[ids[k]] ELSE a
        BY <2>2, <4>1, <4>2
      <4>5. z[ids[k + 1]] = IF y[ids[k + 1]] <= b THEN y[ids[k + 1]] ELSE b
        BY <2>2, <4>1, <4>2
      <4>6. z[ids[k]] <= a
        BY <3>2, <4>4
      <4>7. CASE y[ids[k + 1]] <= b
        BY <3>2, <3>3, <3>4, <4>5, <4>7
      <4>8. CASE ~(y[ids[k + 1]] <= b)
        BY <3>2, <3>4, <4>3, <4>5, <4>6, <4>8
      <4> QED BY <4>7, <4>8
    <3> QED BY <1>1, <1>i, <3>5, <3>6
  <2>9. z \in Stacks(gap)
    BY <2>6, <2>7, <2>8, OneColumn DEF ids
  <2> QED BY <1>3, <1>7, <2>9 DEF ids
<1> QED BY <1>6, <1>7

LEMMA NudgeIs ==
  ASSUME NodesInv, Filed, NEW gap \in Nat, NEW c \in DOMAIN rows, NEW y \in Stacks(gap),
         NEW i \in 1..Len(rows[c]), NEW desired \in Int
  PROVE  Nudge(y, rows[c], i, desired, gap) \in Stacks(gap)
BY NudgeDownIs, NudgeUpIs DEF Nudge

LEMMA PartnersAre ==
  ASSUME NodesInv, HubIs, NEW n \in Ids, NEW direction
  PROVE  /\ Partners(n, direction) \in SUBSET Ids /\ IsFiniteSet(Partners(n, direction))
         /\ Cardinality(Partners(n, direction)) \in Nat
         /\ Partners(n, direction) # {} => Cardinality(Partners(n, direction)) # 0
<1>1. Partners(n, direction) \in SUBSET Ids
  BY DEF HubIs, Partners
<1>2. IsFiniteSet(Partners(n, direction))
  BY <1>1, IdsAre, FS_Subset
<1> QED BY <1>1, <1>2, FS_CardinalityType, FS_EmptySet

LEMMA RoundIs ==
  ASSUME NEW sum \in Int, NEW count \in Nat \ {0}
  PROVE  Round(sum, count) \in Int
<1>1. sum \div count \in Int
  OBVIOUS
<1> QED BY <1>1 DEF Round

\* Towards its partners a box goes by a whole number of rows.
LEMMA DesiredIs ==
  ASSUME NodesInv, HubIs, NEW y \in [Ids -> Int], NEW n \in Ids, NEW direction,
         Partners(n, direction) # {}
  PROVE  Round(SumFunction([p \in Partners(n, direction) |-> Anchor(y, p)]),
               Cardinality(Partners(n, direction))) - Height(n) \div 2 \in Int
<1> DEFINE ps == Partners(n, direction)
           h == [p \in ps |-> Anchor(y, p)]
<1>1. /\ ps \in SUBSET Ids /\ IsFiniteSet(ps) /\ Cardinality(ps) \in Nat \ {0}
  BY PartnersAre
<1> HIDE DEF ps
<1>2. \A m \in Ids : Height(m) \div 2 \in Int
  BY SizesAre
<1>3. h \in [ps -> Int]
  BY <1>1, <1>2 DEF Anchor
<1> HIDE DEF h
<1>4. SumFunction(h) \in Int
  BY <1>1, <1>3, SumType
<1>5. Round(SumFunction(h), Cardinality(ps)) \in Int
  BY <1>1, <1>4, RoundIs
<1>6. Round(SumFunction(h), Cardinality(ps)) - Height(n) \div 2 \in Int
  BY <1>2, <1>5
<1> QED BY <1>6 DEF h, ps

LEMMA PullIs ==
  ASSUME NodesInv, HubIs, Filed, NEW gap \in Nat, NEW y \in Stacks(gap),
         NEW c \in DOMAIN rows, NEW direction
  PROVE  Pull(y, c, direction, gap) \in Stacks(gap)
<1> DEFINE ids == rows[c]
           N == Len(ids)
           R == {p \in (DOMAIN ids) \X (DOMAIN ids) :
                      \/ Priority(ids[p[1]]) > Priority(ids[p[2]])
                      \/ Priority(ids[p[1]]) = Priority(ids[p[2]]) /\ p[1] < p[2]}
           s == InOrder(DOMAIN ids, R)
           K == Len(s)
           V == Stacks(gap)
           Op(f, i) == LET ps == Partners(ids[i], direction)
                       IN  IF ps = {} THEN f
                           ELSE Nudge(f, ids, i, Round(SumFunction([p \in ps |-> Anchor(f, p)]),
                                                       Cardinality(ps)) - Height(ids[i]) \div 2, gap)
           Body(g) == [i \in 0..K |-> IF i = 0 THEN y
                        ELSE CHOOSE r \in {Op(x, s[i]) : x \in {g[i - 1]}} : TRUE]
           after == CHOOSE g : g = Body(g)
<1>1. Pull(y, c, direction, gap) = after[K]
  BY DEF Pull, Iterate
<1>2. /\ DOMAIN ids = 1..N /\ N \in Nat /\ \A i \in 1..N : ids[i] \in Ids
  BY FiledAre
<1>3. ASSUME NEW x \in V, NEW i \in 1..N PROVE Op(x, i) \in V
  <2>1. ids[i] \in Ids /\ x \in [Ids -> Int]
    BY <1>2 DEF Stacks
  <2>2. CASE Partners(ids[i], direction) = {}
    BY <2>2
  <2>3. CASE Partners(ids[i], direction) # {}
    <3> DEFINE d == Round(SumFunction([p \in Partners(ids[i], direction) |-> Anchor(x, p)]),
                          Cardinality(Partners(ids[i], direction))) - Height(ids[i]) \div 2
    <3>1. d \in Int
      BY <2>1, <2>3, DesiredIs
    <3>2. Op(x, i) = Nudge(x, ids, i, d, gap)
      BY <2>3
    <3> HIDE DEF d, Op
    <3> QED BY <3>1, <3>2, NudgeIs
  <2> QED BY <2>2, <2>3
<1> HIDE DEF Op
<1>4. K \in Nat /\ \A i \in 1..K : s[i] \in 1..N
  <2>1. IsFiniteSet(DOMAIN ids)
    BY <1>2, FS_Interval
  <2>2. \A i \in 1..N : Priority(ids[i]) \in Nat
    BY <1>2, PartnersAre DEF Priority
  <2>3. \A i, j \in 1..N : <<i, j>> \in R <=>
          \/ Priority(ids[i]) > Priority(ids[j])
          \/ Priority(ids[i]) = Priority(ids[j]) /\ i < j
    BY <1>2
  <2> HIDE DEF R, ids
  <2>4. Orders(R, 1..N)
    <3>1. \A i \in 1..N : <<i, i>> \notin R
      BY <2>2, <2>3
    <3>2. \A i, j, k \in 1..N : <<i, j>> \in R /\ <<j, k>> \in R => <<i, k>> \in R
      BY <2>2, <2>3
    <3>3. \A i, j \in 1..N : i # j => <<i, j>> \in R \/ <<j, i>> \in R
      BY <2>2, <2>3
    <3> QED BY <3>1, <3>2, <3>3 DEF Orders
  <2>5. s \in Seq(1..N)
    BY <1>2, <2>1, <2>4, InOrderIs
  <2> HIDE DEF s
  <2> QED BY <2>5
<1> HIDE DEF s, K, R
<1>5. y \in V
  OBVIOUS
<1> HIDE DEF V
<1> DEFINE step == [p \in V \X (1..K) |-> Op(p[1], s[p[2]])]
<1>6. step \in [V \X (1..K) -> V]
  BY <1>3, <1>4
<1>7. PICK f : f \in [0..K -> V] /\ Runs(f, K, y, step)
  <2> HIDE DEF step
  <2> QED BY <1>4, <1>5, <1>6, StepsExist
<1>8. \A g : \A i \in 1..K :
        (CHOOSE r \in {Op(x, s[i]) : x \in {g[i - 1]}} : TRUE) = Op(g[i - 1], s[i])
  OBVIOUS
<1>9. f = Body(f)
  <2>1. f = [i \in 0..K |-> f[i]]
    BY <1>7
  <2>2. ASSUME NEW i \in 1..K PROVE f[i] = Op(f[i - 1], s[i])
    <3>1. i - 1 \in 0..K
      BY <1>4
    <3>2. <<f[i - 1], i>> \in V \X (1..K)
      BY <1>7, <3>1
    <3> QED BY <1>7, <3>2 DEF Runs
  <2>3. f[0] = y
    BY <1>7 DEF Runs
  <2>4. \A i \in 0..K : i = 0 \/ i \in 1..K
    BY <1>4
  <2> QED BY <1>8, <2>1, <2>2, <2>3, <2>4
<1>10. after = Body(after)
  <2> HIDE DEF Body
  <2> QED BY <1>9
<1> HIDE DEF after
<1>11. after[0] = y /\ \A i \in 1..K : after[i] = Op(after[i - 1], s[i])
  <2>1. \A i \in 0..K : after[i] = IF i = 0 THEN y
                        ELSE CHOOSE r \in {Op(x, s[i]) : x \in {after[i - 1]}} : TRUE
    BY <1>10
  <2>2. 0 \in 0..K /\ \A i \in 1..K : i \in 0..K /\ i # 0
    BY <1>4
  <2> QED BY <1>8, <2>1, <2>2
<1>12. after[K] \in V
  <2>1. after[0] \in V
    BY <1>5, <1>11
  <2>2. \A i \in 1..K : after[i - 1] \in V => after[i] \in V
    BY <1>3, <1>4, <1>11
  <2> HIDE DEF Body
  <2> QED BY <1>4, <2>1, <2>2, StaysIn
<1> QED BY <1>1, <1>12 DEF V

LEMMA PullAllIs ==
  ASSUME NodesInv, HubIs, Filed, NEW gap \in Nat, NEW y \in Stacks(gap),
         NEW s \in Seq(DOMAIN rows), NEW direction
  PROVE  PullAll(y, s, direction, gap) \in Stacks(gap)
<1> DEFINE K == Len(s)
           V == Stacks(gap)
           Op(f, c) == Pull(f, c, direction, gap)
           Body(g) == [i \in 0..K |-> IF i = 0 THEN y
                        ELSE CHOOSE r \in {Op(x, s[i]) : x \in {g[i - 1]}} : TRUE]
           after == CHOOSE g : g = Body(g)
<1>1. PullAll(y, s, direction, gap) = after[K]
  BY DEF PullAll, Iterate
<1>3. ASSUME NEW x \in V, NEW c \in DOMAIN rows PROVE Op(x, c) \in V
  BY PullIs
<1> HIDE DEF Op
<1>4. K \in Nat /\ \A i \in 1..K : s[i] \in DOMAIN rows
  OBVIOUS
<1> HIDE DEF K
<1>5. y \in V
  OBVIOUS
<1> HIDE DEF V
<1> DEFINE step == [p \in V \X (1..K) |-> Op(p[1], s[p[2]])]
<1>6. step \in [V \X (1..K) -> V]
  BY <1>3, <1>4
<1>7. PICK f : f \in [0..K -> V] /\ Runs(f, K, y, step)
  <2> HIDE DEF step
  <2> QED BY <1>4, <1>5, <1>6, StepsExist
<1>8. \A g : \A i \in 1..K :
        (CHOOSE r \in {Op(x, s[i]) : x \in {g[i - 1]}} : TRUE) = Op(g[i - 1], s[i])
  OBVIOUS
<1>9. f = Body(f)
  <2>1. f = [i \in 0..K |-> f[i]]
    BY <1>7
  <2>2. ASSUME NEW i \in 1..K PROVE f[i] = Op(f[i - 1], s[i])
    <3>1. i - 1 \in 0..K
      BY <1>4
    <3>2. <<f[i - 1], i>> \in V \X (1..K)
      BY <1>7, <3>1
    <3> QED BY <1>7, <3>2 DEF Runs
  <2>3. f[0] = y
    BY <1>7 DEF Runs
  <2>4. \A i \in 0..K : i = 0 \/ i \in 1..K
    BY <1>4
  <2> QED BY <1>8, <2>1, <2>2, <2>3, <2>4
<1>10. after = Body(after)
  <2> HIDE DEF Body
  <2> QED BY <1>9
<1> HIDE DEF after
<1>11. after[0] = y /\ \A i \in 1..K : after[i] = Op(after[i - 1], s[i])
  <2>1. \A i \in 0..K : after[i] = IF i = 0 THEN y
                        ELSE CHOOSE r \in {Op(x, s[i]) : x \in {after[i - 1]}} : TRUE
    BY <1>10
  <2>2. 0 \in 0..K /\ \A i \in 1..K : i \in 0..K /\ i # 0
    BY <1>4
  <2> QED BY <1>8, <2>1, <2>2
<1>12. after[K] \in V
  <2>1. after[0] \in V
    BY <1>5, <1>11
  <2>2. \A i \in 1..K : after[i - 1] \in V => after[i] \in V
    BY <1>3, <1>4, <1>11
  <2> HIDE DEF Body
  <2> QED BY <1>4, <2>1, <2>2, StaysIn
<1> QED BY <1>1, <1>12 DEF V

LEMMA AlignSweepIs ==
  ASSUME NodesInv, HubIs, Filed, NEW gap \in Nat, NEW y \in Stacks(gap)
  PROVE  AlignSweep(y, gap) \in Stacks(gap)
<1> DEFINE s == Columns
<1>1. s \in Seq(DOMAIN rows)
  BY FiledAre, AscendingIs DEF Columns
<1> HIDE DEF s
<1>2. Reverse(s) \in Seq(DOMAIN rows)
  <2>1. Reverse(s) \in [1..Len(s) -> DOMAIN rows] /\ Len(s) \in Nat
    BY <1>1 DEF Reverse
  <2> QED BY <2>1
<1>3. PullAll(y, s, -1, gap) \in Stacks(gap)
  BY <1>1, PullAllIs
<1>4. PullAll(PullAll(y, s, -1, gap), Reverse(s), 1, gap) \in Stacks(gap)
  BY <1>2, <1>3, PullAllIs
<1> QED BY <1>4 DEF AlignSweep, s

\* However often and wherever boxes are nudged, those of a column keep their order
\* and the gap.
LEMMA AlignedIs ==
  ASSUME NodesInv, HubIs, Filed, NEW gap \in Nat
  PROVE  AlignedRows(gap) \in Stacks(gap)
<1> DEFINE s == [k \in 1..AlignSweeps |-> k]
           y == InitialRows(gap)
           K == Len(s)
           V == Stacks(gap)
           Op(f, k) == AlignSweep(f, gap)
           Body(g) == [i \in 0..K |-> IF i = 0 THEN y
                        ELSE CHOOSE r \in {Op(x, s[i]) : x \in {g[i - 1]}} : TRUE]
           after == CHOOSE g : g = Body(g)
<1>1. AlignedRows(gap) = after[K]
  BY DEF AlignedRows, Iterate
<1>3. ASSUME NEW x \in V, NEW c PROVE Op(x, c) \in V
  BY AlignSweepIs
<1> HIDE DEF Op
<1>4. K \in Nat
  BY DEF AlignSweeps
<1> HIDE DEF K
<1>5. y \in V
  BY InitialIs
<1> HIDE DEF V, y, s
<1> DEFINE step == [p \in V \X (1..K) |-> Op(p[1], s[p[2]])]
<1>6. step \in [V \X (1..K) -> V]
  BY <1>3, <1>4
<1>7. PICK f : f \in [0..K -> V] /\ Runs(f, K, y, step)
  <2> HIDE DEF step
  <2> QED BY <1>4, <1>5, <1>6, StepsExist
<1>8. \A g : \A i \in 1..K :
        (CHOOSE r \in {Op(x, s[i]) : x \in {g[i - 1]}} : TRUE) = Op(g[i - 1], s[i])
  OBVIOUS
<1>9. f = Body(f)
  <2>1. f = [i \in 0..K |-> f[i]]
    BY <1>7
  <2>2. ASSUME NEW i \in 1..K PROVE f[i] = Op(f[i - 1], s[i])
    <3>1. i - 1 \in 0..K
      BY <1>4
    <3>2. <<f[i - 1], i>> \in V \X (1..K)
      BY <1>7, <3>1
    <3> QED BY <1>7, <3>2 DEF Runs
  <2>3. f[0] = y
    BY <1>7 DEF Runs
  <2>4. \A i \in 0..K : i = 0 \/ i \in 1..K
    BY <1>4
  <2> QED BY <1>8, <2>1, <2>2, <2>3, <2>4
<1>10. after = Body(after)
  <2> HIDE DEF Body
  <2> QED BY <1>9
<1> HIDE DEF after
<1>11. after[0] = y /\ \A i \in 1..K : after[i] = Op(after[i - 1], s[i])
  <2>1. \A i \in 0..K : after[i] = IF i = 0 THEN y
                        ELSE CHOOSE r \in {Op(x, s[i]) : x \in {after[i - 1]}} : TRUE
    BY <1>10
  <2>2. 0 \in 0..K /\ \A i \in 1..K : i \in 0..K /\ i # 0
    BY <1>4
  <2> QED BY <1>8, <2>1, <2>2
<1>12. after[K] \in V
  <2>1. after[0] \in V
    BY <1>5, <1>11
  <2>2. \A i \in 1..K : after[i - 1] \in V => after[i] \in V
    BY <1>3, <1>4, <1>11
  <2> HIDE DEF Body
  <2> QED BY <1>4, <2>1, <2>2, StaysIn
<1> QED BY <1>1, <1>12 DEF V

\* A gap to the next box is a gap to every later one.
LEMMA StackOrder ==
  ASSUME NodesInv, Filed, NEW gap \in Nat, NEW y \in Stacks(gap), NEW c \in DOMAIN rows,
         NEW i \in 1..Len(rows[c]), NEW j \in 1..Len(rows[c]), i < j
  PROVE  y[rows[c][i]] + Height(rows[c][i]) + gap <= y[rows[c][j]]
<1> DEFINE ids == rows[c]
           N == Len(ids)
           M == N - (i + 1)
           Q == {k \in 0..M :
                   y[ids[i]] + Height(ids[i]) + gap <= y[ids[i + 1 + k]]}
<1>1. /\ N \in Nat /\ \A k \in 1..N : ids[k] \in Ids /\ Height(ids[k]) \in Nat
  BY FiledAre, SizesAre
<1>2. y \in [Ids -> Int] /\ \A k \in 1..N - 1 : y[ids[k]] + Height(ids[k]) + gap <= y[ids[k + 1]]
  BY DEF Stacks, Spaced
<1>3. i \in 1..N /\ j \in 1..N
  OBVIOUS
<1> HIDE DEF ids, N
<1>4. M \in Nat /\ i \in 1..N - 1
  BY <1>1, <1>3
<1>5. 0 \in Q
  <2>1. i + 1 + 0 = i + 1 /\ 0 \in 0..M
    BY <1>4
  <2> QED BY <1>2, <1>4, <2>1
<1>6. \A k \in 0..M - 1 : k \in Q => k + 1 \in Q
  <2> SUFFICES ASSUME NEW k \in 0..M - 1, k \in Q PROVE k + 1 \in Q
    OBVIOUS
  <2>1. /\ i + 1 + k \in 1..N - 1 /\ i + 1 + k \in 1..N /\ (i + 1 + k) + 1 \in 1..N
        /\ i + 1 + (k + 1) = (i + 1 + k) + 1 /\ k + 1 \in 0..M
    <3> HIDE DEF Q
    <3>1. k \in Int /\ 0 <= k /\ k + 1 <= M
      BY <1>4
    <3>2. i \in Int /\ 1 <= i /\ N \in Int /\ M = N - (i + 1)
      BY <1>1, <1>3
    <3> HIDE DEF M
    <3> QED BY <1>4, <3>1, <3>2
  <2> DEFINE m == i + 1 + k
  <2>2. /\ y[ids[m]] + Height(ids[m]) + gap <= y[ids[m + 1]]
        /\ y[ids[i]] + Height(ids[i]) + gap <= y[ids[m]]
    BY <1>2, <2>1
  <2>3. /\ y[ids[m]] \in Int /\ y[ids[m + 1]] \in Int /\ y[ids[i]] \in Int
        /\ Height(ids[m]) \in Nat /\ Height(ids[i]) \in Nat
    BY <1>1, <1>2, <1>3, <2>1
  <2>4. y[ids[i]] + Height(ids[i]) + gap <= y[ids[m + 1]]
    <3> HIDE DEF m
    <3> QED BY <2>2, <2>3
  <2> QED BY <2>1, <2>4
<1>7. j - (i + 1) \in 0..M /\ i + 1 + (j - (i + 1)) = j
  BY <1>1, <1>3
<1> HIDE DEF Q, M
<1>8. j - (i + 1) \in Q
  BY <1>4, <1>5, <1>6, <1>7, UpTo
<1> QED BY <1>7, <1>8 DEF Q, ids

-----------------------------------------------------------------------------
(* The placement.                                                          *)

\* Boxes r on a canvas b: inside of the margin, columns two stubs and a lane apart,
\* the boxes of a column a gap apart.
PlacedAt(r, b, gap) ==
  /\ b[1] \in Int /\ b[2] \in Int
  /\ \A n \in Ids :
       /\ r[n].top \in Int /\ r[n].left \in Int
       /\ r[n].height = Height(n) /\ r[n].width = Width(n)
       /\ Margin <= r[n].top /\ r[n].top + Height(n) + Margin <= b[1]
       /\ Margin <= r[n].left /\ r[n].left + Width(n) + Margin <= b[2]
  /\ \A m, n \in Ids :
       column[m] < column[n] => r[m].left + Width(m) + 2 * StubLen < r[n].left
  /\ \A c \in DOMAIN rows : \A i, j \in 1..Len(rows[c]) :
       i < j => r[rows[c][i]].top + Height(rows[c][i]) + gap <= r[rows[c][j]].top

PlacedInv == Placed => PlacedAt(rects, bounds, Ladder[rung].box_gap)

LEMMA MarginIs ==
  ASSUME NodesInv, EdgesInv
  PROVE  Margin \in Nat /\ StubLen + 1 <= Margin
<1>1. Len(edges) \in Nat
  <2>1. edges \in Seq(EdgeType)
    BY DEF EdgesInv
  <2> QED BY <2>1
<1>2. Margin = IF Len(edges) <= StubLen + 1 THEN StubLen + 1 ELSE Len(edges)
  <2>1. PICK a \in Int, b \in Int : a = Len(edges) /\ b = StubLen + 1
    BY <1>1 DEF StubLen
  <2>2. Max({a, b}) = IF a <= b THEN b ELSE a
    BY MinMaxPair
  <2> QED BY <2>1, <2>2 DEF Margin
<1> QED BY <1>1, <1>2 DEF StubLen

\* The greatest of the boxes' ends.
LEMMA EndsAre ==
  ASSUME NodesInv, NEW f \in [Ids -> Int], Ids # {}
  PROVE  Max({f[n] : n \in Ids}) \in Int /\ \A n \in Ids : f[n] <= Max({f[n2] : n2 \in Ids})
<1> DEFINE S == {f[n] : n \in Ids}
<1>1. IsFiniteSet(S)
  BY IdsAre, ImageIsFinite
<1>2. S \subseteq Int /\ S # {} /\ \A n \in Ids : f[n] \in S
  OBVIOUS
<1>3. Max(S) \in S /\ \A x \in S : x <= Max(S)
  <2> HIDE DEF S
  <2> QED BY <1>1, <1>2, MaxIs
<1> QED BY <1>2, <1>3

LEMMA PlaceIs ==
  ASSUME NodesInv, EdgesInv, HubIs, Filed, RungInv, Place
  PROVE  PlacedAt(rects', bounds', Ladder[rung].box_gap)
<1> DEFINE gap == Ladder[rung].box_gap
           padding == Ladder[rung].channel_padding
           x == ColumnX(padding)
           y == AlignedRows(gap)
           up == Min({0} \cup {y[n] : n \in Ids})
           r == rects'
<1>1. gap \in Nat /\ padding \in Nat
  BY LadderIs DEF RungInv
<1>2. /\ r = [n \in Ids |-> [top |-> y[n] - up + Margin, left |-> x[column[n]] + Margin,
                             height |-> Height(n), width |-> Width(n)]]
      /\ bounds' = <<Max({r[n].top + r[n].height : n \in Ids}) + Margin,
                     Max({r[n].left + r[n].width : n \in Ids}) + Margin>>
  BY DEF Place
<1> HIDE DEF gap, padding
<1>3. y \in Stacks(gap) /\ y \in [Ids -> Int]
  <2>1. y \in Stacks(gap)
    BY <1>1, AlignedIs
  <2> QED BY <2>1 DEF Stacks
<1>4. SideBySide(x, padding)
  BY <1>1, FiledAre, ColumnXIs
<1> HIDE DEF x, y
<1>5. up \in Int /\ \A n \in Ids : up <= y[n]
  <2> DEFINE S == {0} \cup {y[n] : n \in Ids}
  <2>1. IsFiniteSet({y[n] : n \in Ids})
    BY IdsAre, ImageIsFinite
  <2>2. IsFiniteSet(S)
    <3>1. IsFiniteSet({y[n] : n \in Ids} \cup {0})
      BY <2>1, FS_AddElement
    <3>2. S = {y[n] : n \in Ids} \cup {0}
      OBVIOUS
    <3> QED BY <3>1, <3>2
  <2>3. S \subseteq Int /\ S # {} /\ \A n \in Ids : y[n] \in S
    BY <1>3
  <2>4. Min(S) \in S /\ \A z \in S : Min(S) <= z
    <3> HIDE DEF S
    <3> QED BY <2>2, <2>3, MinIs
  <2>5. up = Min(S)
    OBVIOUS
  <2> HIDE DEF S, up
  <2> QED BY <2>3, <2>4, <2>5
<1> HIDE DEF up, r
<1>6. Margin \in Nat
  BY MarginIs
<1>7. \A n \in Ids : Height(n) \in Nat /\ Width(n) \in Nat
  BY SizesAre
<1>8. \A n \in Ids : x[column[n]] \in Nat /\ column[n] \in DOMAIN rows /\ column[n] \in Int
  BY <1>4, FiledAre DEF SideBySide
<1>9. ASSUME NEW n \in Ids
      PROVE  /\ r[n].top = y[n] - up + Margin /\ r[n].left = x[column[n]] + Margin
             /\ r[n].height = Height(n) /\ r[n].width = Width(n)
             /\ r[n].top \in Int /\ r[n].left \in Int
             /\ Margin <= r[n].top /\ Margin <= r[n].left
  <2>1. /\ r[n].top = y[n] - up + Margin /\ r[n].left = x[column[n]] + Margin
        /\ r[n].height = Height(n) /\ r[n].width = Width(n)
    BY <1>2
  <2>2. y[n] \in Int /\ x[column[n]] \in Nat /\ up <= y[n]
    BY <1>3, <1>5, <1>8
  <2> QED BY <1>5, <1>6, <2>1, <2>2
<1>10. /\ bounds'[1] \in Int /\ bounds'[2] \in Int
       /\ \A n \in Ids : /\ r[n].top + Height(n) + Margin <= bounds'[1]
                         /\ r[n].left + Width(n) + Margin <= bounds'[2]
  <2> DEFINE f == [n \in Ids |-> r[n].top + r[n].height]
             g == [n \in Ids |-> r[n].left + r[n].width]
  <2>1. f \in [Ids -> Int] /\ g \in [Ids -> Int]
    BY <1>7, <1>9
  <2>2. /\ {f[n] : n \in Ids} = {r[n].top + r[n].height : n \in Ids}
        /\ {g[n] : n \in Ids} = {r[n].left + r[n].width : n \in Ids}
    OBVIOUS
  <2>3. \A n \in Ids : f[n] = r[n].top + Height(n) /\ g[n] = r[n].left + Width(n)
    BY <1>9
  <2> HIDE DEF f, g
  <2>4. Ids # {}
    BY DEF HubIs
  <2>5. /\ bounds'[1] = Max({f[n] : n \in Ids}) + Margin
        /\ bounds'[2] = Max({g[n] : n \in Ids}) + Margin
    BY <1>2, <2>2
  <2>6. /\ Max({f[n] : n \in Ids}) \in Int /\ \A n \in Ids : f[n] <= Max({f[m] : m \in Ids})
        /\ Max({g[n] : n \in Ids}) \in Int /\ \A n \in Ids : g[n] <= Max({g[m] : m \in Ids})
    BY <2>1, <2>4, EndsAre
  <2>7. PICK a \in Int, b \in Int : a = Max({f[n] : n \in Ids}) /\ b = Max({g[n] : n \in Ids})
    BY <2>6
  <2>8. ASSUME NEW n \in Ids
        PROVE  f[n] + Margin <= a + Margin /\ g[n] + Margin <= b + Margin
    <3>1. f[n] \in Int /\ g[n] \in Int /\ f[n] <= a /\ g[n] <= b
      BY <2>1, <2>6, <2>7
    <3> QED BY <1>6, <3>1
  <2> QED BY <1>6, <2>3, <2>5, <2>7, <2>8
<1>11. ASSUME NEW m \in Ids, NEW n \in Ids, column[m] < column[n]
       PROVE  r[m].left + Width(m) + 2 * StubLen < r[n].left
  <2>1. column[m] \in DOMAIN rows /\ column[n] \in DOMAIN rows
    BY <1>8
  <2>2. x[column[m]] + ColumnWidth(column[m]) + Channel(column[m], padding) <= x[column[n]]
    BY <1>4, <1>11, <2>1 DEF SideBySide
  <2>3. Width(m) <= ColumnWidth(column[m]) /\ ColumnWidth(column[m]) \in Nat
    <3>1. ToSet(rows[column[m]]) \in SUBSET Ids /\ m \in ToSet(rows[column[m]])
      <4>1. ToSet(rows[column[m]]) = {k \in Ids : column[k] = column[m]}
        BY <2>1 DEF Filed, Enumerates
      <4> QED BY <4>1
    <3> QED BY <3>1, WidthIs
  <2>4. Channel(column[m], padding) \in Nat /\ Channel(column[m], padding) >= 2 * StubLen + 1
    BY <1>1, ChannelIs
  <2>5. /\ x[column[m]] \in Nat /\ x[column[n]] \in Nat /\ Width(m) \in Nat
        /\ r[m].left = x[column[m]] + Margin /\ r[n].left = x[column[n]] + Margin
    BY <1>7, <1>8, <1>9
  <2>6. 2 * StubLen \in Nat
    BY DEF StubLen
  <2> QED BY <1>6, <2>2, <2>3, <2>4, <2>5, <2>6
<1>12. ASSUME NEW c \in DOMAIN rows, NEW i \in 1..Len(rows[c]), NEW j \in 1..Len(rows[c]), i < j
       PROVE  r[rows[c][i]].top + Height(rows[c][i]) + gap <= r[rows[c][j]].top
  <2> DEFINE m == rows[c][i]
             n == rows[c][j]
  <2>1. m \in Ids /\ n \in Ids
    BY FiledAre
  <2>2. y[m] + Height(m) + gap <= y[n]
    BY <1>1, <1>3, <1>12, StackOrder
  <2> HIDE DEF m, n
  <2>3. /\ r[m].top = y[m] - up + Margin /\ r[n].top = y[n] - up + Margin
        /\ y[m] \in Int /\ y[n] \in Int /\ Height(m) \in Nat
    BY <1>3, <1>7, <1>9, <2>1
  <2>4. r[m].top + Height(m) + gap <= r[n].top
    <3>1. PICK a \in Int, b \in Int, u \in Int, w \in Nat, h \in Nat :
            a = y[m] /\ b = y[n] /\ u = up /\ w = Margin /\ h = Height(m)
      BY <1>5, <1>6, <2>3
    <3>2. a + h + gap <= b /\ r[m].top = a - u + w /\ r[n].top = b - u + w
      BY <2>2, <2>3, <3>1
    <3>3. (a - u + w) + h + gap <= b - u + w
      BY <1>1, <3>2
    <3> QED BY <3>1, <3>2, <3>3
  <2> QED BY <2>4 DEF m, n
<1>13. PlacedAt(r, bounds', gap)
  BY <1>9, <1>10, <1>11, <1>12 DEF PlacedAt
<1> QED BY <1>13 DEF r, gap

LEMMA PlacedInit == Init => PlacedInv
BY DEF Init, GraphInit, PlacedInv, Placed

LEMMA PlacedNext ==
  ASSUME LayoutInv, RungInv, PlacedInv, [Next]_vars
  PROVE  PlacedInv'
<1>1. CASE Place
  <2>1. NodesInv /\ EdgesInv /\ stage = "place"
    BY <1>1 DEF LayoutInv, IInv, Place
  <2>2. HubIs /\ Filed
    BY <2>1 DEF LayoutInv, HubInv, ColumnInv, Columned, RowsInv, LaidOut, Filed
  <2>3. PlacedAt(rects', bounds', Ladder[rung].box_gap)
    BY <1>1, <2>1, <2>2, PlaceIs
  <2>4. UNCHANGED <<db, nodes, edges, column, rows, rung>>
    BY <1>1 DEF Place, graphVars, layoutVars
  <2>5. /\ Ids' = Ids /\ Margin' = Margin /\ Ladder' = Ladder
        /\ \A n : Height(n)' = Height(n) /\ Width(n)' = Width(n)
    BY <2>4 DEF Ids, Margin, Ladder, Height, Width
  <2>6. PlacedAt(rects, bounds, Ladder[rung].box_gap)'
    BY <2>3, <2>4, <2>5 DEF PlacedAt
  <2> QED BY <2>6 DEF PlacedInv
<1>2. CASE GraphNext \/ LayoutNext \/ NoRoute
  <2>1. ~Placed'
    BY <1>2 DEF GraphNext, DescribeSource, NextTable, SelfReference, FollowReference, Discovered,
       LayoutNext, SelectHub, PartitionSides, GrowBalanced, Grown, KlSwap, Swapped, SignColumns,
       BumpSameColumnEdges, OrderColumns, NoRoute, Placed
  <2> QED BY <2>1 DEF PlacedInv
<1>3. CASE Routed \/ Ended \/ UNCHANGED vars
  <2>1. UNCHANGED <<db, nodes, edges, column, rows, rung, rects, bounds>>
    BY <1>3 DEF Routed, Ended, vars, graphVars, layoutVars, placeVars
  <2>2. Placed' => Placed
    BY <1>3 DEF Routed, Ended, vars, Placed
  <2>3. /\ Ids' = Ids /\ Margin' = Margin /\ Ladder' = Ladder
        /\ \A n : Height(n)' = Height(n) /\ Width(n)' = Width(n)
    BY <2>1 DEF Ids, Margin, Ladder, Height, Width
  <2> QED BY <2>1, <2>2, <2>3 DEF PlacedInv, PlacedAt
<1> QED BY <1>1, <1>2, <1>3 DEF Next, Step, GraphStep, LayoutStep

PlaceInv == LayoutInv /\ RungInv /\ PlacedInv

\* On whichever rung, every placement keeps boxes and columns apart and inside the
\* canvas with its margin.
THEOREM PlacementHolds == Spec => []PlaceInv
<1>1. Init => RungInv /\ PlacedInv
  BY RungInit, PlacedInit
<1>2. LayoutInv /\ RungInv /\ PlacedInv /\ [Next]_vars => RungInv' /\ PlacedInv'
  <2>1. LayoutInv => EdgesInv
    BY DEF LayoutInv, IInv
  <2> QED BY <2>1, RungNext, PlacedNext
<1>3. Spec => Init /\ [][Next]_vars
  BY DEF Spec
<1> QED BY <1>1, <1>2, <1>3, LayoutHolds, PTL DEF PlaceInv

LEMMA PlacedColumns ==
  ASSUME PlaceInv, Placed
  PROVE  /\ NodesInv /\ EdgesInv /\ Filed
         /\ Ladder[rung].box_gap \in Nat
         /\ PlacedAt(rects, bounds, Ladder[rung].box_gap)
<1>1. NodesInv /\ EdgesInv
  BY DEF PlaceInv, LayoutInv, IInv
<1>2. Filed
  BY DEF PlaceInv, LayoutInv, ColumnInv, Columned, RowsInv, LaidOut, Filed, Placed
<1>3. Ladder[rung].box_gap \in Nat
  BY <1>1, LadderIs DEF PlaceInv, RungInv
<1> QED BY <1>1, <1>2, <1>3 DEF PlaceInv, PlacedInv

\* The boxes of a column keep their order and the gap, those of two columns a
\* channel between them.
THEOREM DistanceIsKept == Spec => []BoxesKeepTheirDistance
<1>1. PlaceInv => BoxesKeepTheirDistance
  <2> SUFFICES ASSUME PlaceInv, Placed, NEW m \in Ids, NEW n \in Ids
               PROVE  /\ column[m] < column[n] =>
                           rects[m].left + rects[m].width + 2 * StubLen < rects[n].left
                      /\ \A i, j \in DOMAIN rows[column[n]] :
                           i < j /\ rows[column[n]][i] = m /\ rows[column[n]][j] = n =>
                             rects[m].top + rects[m].height + Ladder[rung].box_gap
                               <= rects[n].top
    BY DEF BoxesKeepTheirDistance
  <2>1. NodesInv /\ Filed /\ PlacedAt(rects, bounds, Ladder[rung].box_gap)
    BY PlacedColumns
  <2>2. rects[m].width = Width(m) /\ rects[m].height = Height(m)
    BY <2>1 DEF PlacedAt
  <2>3. column[n] \in DOMAIN rows /\ DOMAIN rows[column[n]] = 1..Len(rows[column[n]])
    BY <2>1, FiledAre
  <2>4. column[m] < column[n] => rects[m].left + Width(m) + 2 * StubLen < rects[n].left
    BY <2>1 DEF PlacedAt
  <2>5. \A i, j \in 1..Len(rows[column[n]]) :
          i < j /\ rows[column[n]][i] = m /\ rows[column[n]][j] = n =>
            rects[m].top + Height(m) + Ladder[rung].box_gap <= rects[n].top
    BY <2>1, <2>3 DEF PlacedAt
  <2> QED BY <2>2, <2>3, <2>4, <2>5
<1> QED BY <1>1, PlacementHolds, PTL

\* Every box has room for a stub on either side, inside of the canvas and outside of
\* the other boxes.
THEOREM BoxesCanAnchor == Spec => []EveryBoxCanAnchor
<1>1. PlaceInv => EveryBoxCanAnchor
  <2> SUFFICES ASSUME PlaceInv, Placed, NEW n \in Ids,
                      NEW row \in (rects[n].top + 1)..(rects[n].top + rects[n].height - 2),
                      NEW k \in 1..(StubLen + 1),
                      NEW col \in {rects[n].left - k, rects[n].left + rects[n].width + k - 1}
               PROVE  /\ row \in 0..(bounds[1] - 1) /\ col \in 0..(bounds[2] - 1)
                      /\ ~InBox(row, col)
    BY DEF EveryBoxCanAnchor
  <2> DEFINE gap == Ladder[rung].box_gap
  <2>1. NodesInv /\ EdgesInv /\ Filed /\ gap \in Nat /\ PlacedAt(rects, bounds, gap)
    BY PlacedColumns
  <2> HIDE DEF gap
  <2>2. Margin \in Nat /\ 2 <= Margin /\ k \in 1..2 /\ StubLen = 1
    BY <2>1, MarginIs DEF StubLen
  <2>3. \A m \in Ids : /\ rects[m].top \in Int /\ rects[m].left \in Int
                       /\ rects[m].height = Height(m) /\ rects[m].width = Width(m)
                       /\ Height(m) \in Nat /\ Width(m) \in Nat
    BY <2>1, SizesAre DEF PlacedAt
  <2>4. /\ Margin <= rects[n].top /\ rects[n].top + Height(n) + Margin <= bounds[1]
        /\ Margin <= rects[n].left /\ rects[n].left + Width(n) + Margin <= bounds[2]
        /\ bounds[1] \in Int /\ bounds[2] \in Int
    BY <2>1 DEF PlacedAt
  <2>5. PICK t \in Int, l \in Int, h \in Nat, w \in Nat :
          t = rects[n].top /\ l = rects[n].left /\ h = Height(n) /\ w = Width(n)
    BY <2>3
  <2>6. /\ row \in Int /\ t + 1 <= row /\ row <= t + h - 2
        /\ col \in Int /\ (col = l - k \/ col = l + w + k - 1)
    BY <2>2, <2>3, <2>5
  <2>7. row \in 0..(bounds[1] - 1) /\ col \in 0..(bounds[2] - 1)
    <3>1. PICK b \in Int, d \in Int : b = bounds[1] /\ d = bounds[2]
      BY <2>4
    <3>2. Margin <= t /\ t + h + Margin <= b /\ Margin <= l /\ l + w + Margin <= d
      BY <2>4, <2>5, <3>1
    <3>3. 0 <= row /\ row <= b - 1 /\ 0 <= col /\ col <= d - 1
      BY <2>2, <2>6, <3>2
    <3> QED BY <2>6, <3>1, <3>3
  <2>8. ASSUME NEW m \in Ids, row \in Rows(rects[m]), col \in Cols(rects[m]) PROVE FALSE
    <3>1. PICK T \in Int, L \in Int, H \in Nat, W \in Nat :
            T = rects[m].top /\ L = rects[m].left /\ H = Height(m) /\ W = Width(m)
      BY <2>3
    <3>2. T <= row /\ row <= T + H - 1 /\ L <= col /\ col <= L + W - 1
      BY <2>3, <2>8, <3>1 DEF Rows, Cols
    <3>3. column[m] \in Int /\ column[n] \in Int
      BY <2>1 DEF Filed
    <3>4. CASE column[m] < column[n]
      <4>1. L + W + 2 < l
        BY <2>1, <2>2, <2>5, <3>1, <3>4 DEF PlacedAt
      <4> QED BY <2>2, <2>6, <3>2, <4>1
    <3>5. CASE column[n] < column[m]
      <4>1. l + w + 2 < L
        BY <2>1, <2>2, <2>5, <3>1, <3>5 DEF PlacedAt
      <4> QED BY <2>2, <2>6, <3>2, <4>1
    <3>6. CASE m = n
      <4>1. L = l /\ W = w
        BY <2>5, <3>1, <3>6
      <4> QED BY <2>2, <2>6, <3>2, <4>1
    <3>7. CASE column[m] = column[n] /\ m # n
      <4> DEFINE ids == rows[column[n]]
      <4>1. column[n] \in DOMAIN rows
        BY <2>1, FiledAre
      <4>2. PICK i \in 1..Len(ids) : ids[i] = n
        BY <2>1, FiledAre
      <4>3. PICK j \in 1..Len(ids) : ids[j] = m
        BY <2>1, <3>7, FiledAre
      <4>4. \A a, b \in 1..Len(ids) :
              a < b => rects[ids[a]].top + Height(ids[a]) + gap <= rects[ids[b]].top
        BY <2>1, <4>1 DEF PlacedAt
      <4>5. Len(ids) \in Nat
        BY <2>1, <4>1, FiledAre
      <4> HIDE DEF ids
      <4>6. i < j \/ j < i
        BY <3>7, <4>2, <4>3, <4>5
      <4>7. t + h + gap <= T \/ T + H + gap <= t
        BY <2>5, <3>1, <4>2, <4>3, <4>4, <4>6
      <4> QED BY <2>1, <2>6, <3>2, <4>7
    <3> QED BY <3>3, <3>4, <3>5, <3>6, <3>7
  <2> QED BY <2>7, <2>8 DEF InBox
<1> QED BY <1>1, PlacementHolds, PTL

=============================================================================
