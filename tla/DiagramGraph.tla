---------------------------- MODULE DiagramGraph ----------------------------
(***************************************************************************)
(* The first stage of explore.diagram, diagram/graph.py: a breadth-first   *)
(* walk from one table along its foreign keys, in both directions, that    *)
(* builds a graph with one node per table and one edge per pair of tables. *)
(*                                                                         *)
(* A path is a member of Tables.  Node ids count from 1, in the code from  *)
(* 0.  What a describe answers is read from `db', which does not change    *)
(* while the diagram is built: the answers come from the explore cache or  *)
(* from a catalog that is taken as still.                                  *)
(***************************************************************************)
EXTENDS Integers, SequencesExt

CONSTANTS Tables,     \* every table of the database
          Source,     \* the table the client asked for
          Databases,  \* the databases to draw
          MaxDepth    \* MAX_DEPTH: levels expanded

\* A foreign key: `column' of table `owner' points at table `ref'.
ForeignKey == [owner : Tables, column : {"x", "y"}, ref : Tables, nullable : BOOLEAN]
Side       == {"source", "target"}

\* describe(t) answers with the foreign keys of t's columns in the columns'
\* order, each with the side t is on; t may also not resolve to a table.
ASSUME GraphAssumption ==
  /\ Source \in Tables /\ MaxDepth \in Nat \ {0}
  /\ \A d \in Databases :
       /\ d.refs \in [Tables -> Seq([fk : ForeignKey, side : Side])]
       /\ \A t \in Tables : \A r \in ToSet(d.refs[t]) :
            t = IF r.side = "source" THEN r.fk.owner ELSE r.fk.ref
       /\ d.resolved \subseteq Tables

VARIABLES stage,       \* the step of build_diagram that comes next
          db,          \* the database
          nodes,       \* the nodes by id
          edges,       \* the edges in the order they were found
          seen_pairs,  \* pairs of nodes that have their edge
          visited,     \* the id of each table met, 0 if none
          queue,       \* tables waiting to be expanded
          cur,         \* the table being expanded
          todo         \* the references of `cur' that are left

graphVars == <<db, nodes, edges, seen_pairs, visited, queue, cur, todo>>

Node(t)        == [path |-> t, unavailable |-> t \notin db.resolved]
Entry(t, i, d) == [path |-> t, id |-> i, depth |-> d]

GraphInit == /\ stage = "describe" /\ db \in Databases
             /\ nodes = <<>> /\ edges = <<>> /\ seen_pairs = {}
             /\ visited = [t \in Tables |-> 0]
             /\ queue = <<>> /\ cur = Entry(Source, 0, 0) /\ todo = <<>>

DescribeSource ==
  /\ stage = "describe"
  /\ IF Source \in db.resolved
     THEN /\ stage' = "discover"
          /\ nodes' = <<Node(Source)>>
          /\ visited' = [visited EXCEPT ![Source] = 1]
          /\ queue' = <<Entry(Source, 1, 0)>>
     ELSE stage' = "failed" /\ UNCHANGED <<nodes, visited, queue>>
  /\ UNCHANGED <<db, edges, seen_pairs, cur, todo>>

NextTableLast ==       \* faulty variant: a stack, not a queue
  /\ stage = "discover" /\ todo = <<>> /\ queue # <<>>
  /\ cur' = Last(queue) /\ queue' = Front(queue)
  /\ todo' = db.refs[cur'.path]
  /\ UNCHANGED <<stage, db, nodes, edges, seen_pairs, visited>>
NextTable ==
  /\ stage = "discover" /\ todo = <<>> /\ queue # <<>>
  /\ cur' = Head(queue) /\ queue' = Tail(queue)
  /\ todo' = db.refs[cur'.path]
  /\ UNCHANGED <<stage, db, nodes, edges, seen_pairs, visited>>

\* _ref_path: the table at the other end.
OtherEnd(r) == IF r.side = "source" THEN r.fk.ref ELSE r.fk.owner

SelfReference == /\ stage = "discover" /\ todo # <<>>
                 /\ OtherEnd(Head(todo)) = cur.path
                 /\ todo' = Tail(todo)
                 /\ UNCHANGED <<stage, db, nodes, edges, seen_pairs, visited, queue, cur>>

\* A table met for the first time is described, gets its node, and is expanded
\* later unless it did not resolve or lies too deep.
Expandable(t, depth) == t \in db.resolved /\ depth < MaxDepth
Meet(t) ==
  IF visited[t] # 0 THEN UNCHANGED <<visited, nodes, queue>>
  ELSE LET id == Len(nodes) + 1
       IN  /\ visited' = [visited EXCEPT ![t] = id]
           /\ nodes' = Append(nodes, Node(t))
           /\ queue' = IF Expandable(t, cur.depth + 1)
                       THEN Append(queue, Entry(t, id, cur.depth + 1)) ELSE queue

\* _column_nullable: what is known of the owner's column, if the owner resolved.
EdgeByCurrent(r, target) ==  \* faulty variant: asks the table being expanded
  [source |-> cur.id, target |-> target, fk_side |-> r.side, fk |-> r.fk,
   fk_nullable |-> ~nodes'[cur.id].unavailable /\ r.fk.nullable]
NewEdge(r, target) ==
  LET owner == IF r.side = "source" THEN cur.id ELSE target
  IN  [source |-> cur.id, target |-> target, fk_side |-> r.side, fk |-> r.fk,
       fk_nullable |-> ~nodes'[owner].unavailable /\ r.fk.nullable]

JoinNothing(r, target) ==    \* faulty variant: only tables not met before
  IF target < Len(nodes') THEN UNCHANGED <<seen_pairs, edges>>
  ELSE /\ seen_pairs' = seen_pairs \cup {{cur.id, target}}
       /\ edges' = Append(edges, NewEdge(r, target))
Join(r, target) ==
  IF {cur.id, target} \in seen_pairs THEN UNCHANGED <<seen_pairs, edges>>
  ELSE /\ seen_pairs' = seen_pairs \cup {{cur.id, target}}
       /\ edges' = Append(edges, NewEdge(r, target))

FollowReference ==
  /\ stage = "discover" /\ todo # <<>>
  /\ OtherEnd(Head(todo)) # cur.path
  /\ Meet(OtherEnd(Head(todo)))
  /\ Join(Head(todo), visited'[OtherEnd(Head(todo))])
  /\ todo' = Tail(todo)
  /\ UNCHANGED <<stage, db, cur>>

Discovered == /\ stage = "discover" /\ todo = <<>> /\ queue = <<>>
              /\ stage' = "hub"
              /\ UNCHANGED graphVars

GraphNext == DescribeSource \/ NextTable \/ SelfReference \/ FollowReference \/ Discovered

-----------------------------------------------------------------------------
Drawn == {nodes[i].path : i \in DOMAIN nodes}

\* The tables within k references of the source, through tables that resolve.
Listed(t) == IF t \in db.resolved THEN ToSet(db.refs[t]) ELSE {}
Reach(S)  == UNION {{t} \cup {OtherEnd(r) : r \in Listed(t)} : t \in S}
Within[k \in 0..MaxDepth] == IF k = 0 THEN {Source} ELSE Reach(Within[k - 1])

\* Every table up to MAX_DEPTH references away is drawn, once, and no other,
\* in whatever order the walk meets them, cycles and tables that do not
\* resolve included (graph.py 1-4, 72-134).
EveryTableOnce ==
  stage \notin {"describe", "discover", "failed"} =>
    /\ Drawn = Within[MaxDepth]
    /\ \A i, j \in DOMAIN nodes : nodes[i].path = nodes[j].path => i = j

\* The relationships of every table that was expanded are drawn, as one edge
\* for each pair of tables; two tables at MAX_DEPTH may lack theirs.
EveryPairJoined ==
  stage \notin {"describe", "discover", "failed"} =>
    \A t \in Within[MaxDepth - 1] \cap db.resolved :
      \A r \in ToSet(db.refs[t]) :
        OtherEnd(r) # t =>
          Cardinality({e \in DOMAIN edges :
            {nodes[edges[e].source].path, nodes[edges[e].target].path}
               = {t, OtherEnd(r)}}) = 1

\* The markers at an edge's ends are those of its foreign key: fk_side names
\* the end that owns it, and the edge is optional exactly when the owner was
\* described and its column allows NULL (graph.py 119-132, 176-181).
EdgesTellTheirKey ==
  \A e \in DOMAIN edges :
    LET edge  == edges[e]
        owner == IF edge.fk_side = "source" THEN edge.source ELSE edge.target
        other == IF edge.fk_side = "source" THEN edge.target ELSE edge.source
    IN  /\ nodes[owner].path = edge.fk.owner /\ nodes[other].path = edge.fk.ref
        /\ edge.fk_nullable <=> edge.fk.owner \in db.resolved /\ edge.fk.nullable
=============================================================================
