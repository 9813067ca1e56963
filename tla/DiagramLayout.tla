---------------------------- MODULE DiagramLayout ----------------------------
(***************************************************************************)
(* The second stage, diagram/layout.py: the table with the most edges      *)
(* becomes the hub, the others are split into a left and a right side,     *)
(* their distance from the hub gives their column, tables that are joined  *)
(* are moved apart when they share one, and sweeps order every column.     *)
(* The loops whose end is not plain (growing the sides, swapping, moving   *)
(* apart) take one action per round.                                       *)
(***************************************************************************)
EXTENDS DiagramGraph

VARIABLES adj,        \* adj[n]: n's neighbours in the order of the edges
          hub,        \* the hub's id
          side,       \* 1 or -1 for the nodes that have one
          frontiers,  \* _grow_balanced: nodes whose neighbours may be claimed
          rounds,     \* _kl_swap: rounds left
          column,     \* the column of each node
          rows        \* the nodes of each column, top to bottom

layoutVars == <<adj, hub, side, frontiers, rounds, column, rows>>

LayoutInit == /\ adj = <<>> /\ hub = 0 /\ side = <<>> /\ frontiers = <<>> /\ rounds = 0
              /\ column = <<>> /\ rows = <<>>

-----------------------------------------------------------------------------
(* The graph.                                                              *)

Ids    == DOMAIN nodes
Others == Ids \ {hub}
Neighbours(n) == ToSet(adj[n])

\* The elements of S in the order R: an element's place is how many come before it.
\* (SetToSortSeq, without TLC's SortSeq.)
InOrder(S, R) ==
  LET places == {<<x, Cardinality({y \in S : <<y, x>> \in R}) + 1>> : x \in S}
  IN  [i \in 1..Cardinality(S) |-> CHOOSE x \in S : <<x, i>> \in places]
Ascending(S)  == InOrder(S, {p \in S \X S : p[1] < p[2]})

\* FoldLeft, with each intermediate result bound so that TLC evaluates it once.
Iterate(op(_, _), base, s) ==
  LET after[i \in 0..Len(s)] ==
        IF i = 0 THEN base ELSE CHOOSE r \in {op(x, s[i]) : x \in {after[i - 1]}} : TRUE
  IN  after[Len(s)]

\* The nodes of N that n reaches without leaving N.
Component(n, N) ==
  LET reach[k \in 0..Cardinality(N)] ==
        IF k = 0 THEN {n}
        ELSE UNION {{m} \cup (Neighbours(m) \cap N) : m \in reach[k - 1]}
  IN  reach[Cardinality(N)]
Components(N) == {Component(n, N) : n \in N}

\* Distance from the hub.
Distance == LET ring[k \in 0..Len(nodes)] ==
                  IF k = 0 THEN {hub} ELSE UNION {Neighbours(m) : m \in ring[k - 1]}
            IN  [n \in Ids |-> Min({k \in DOMAIN ring : n \in ring[k]})]

\* _adjacency and _select_hub.
SelectHub ==
  /\ stage = "hub"
  /\ adj' = [n \in Ids |->
               LET at == Ascending({e \in DOMAIN edges : n \in {edges[e].source, edges[e].target}})
               IN  [i \in DOMAIN at |-> LET e == edges[at[i]]
                                       IN  IF e.source = n THEN e.target ELSE e.source]]
  /\ hub' = CHOOSE n \in Ids : \A m \in Ids \ {n} :
              \/ Len(adj'[n]) > Len(adj'[m])
              \/ Len(adj'[n]) = Len(adj'[m]) /\ n < m
  /\ stage' = "sides"
  /\ UNCHANGED <<graphVars, side, frontiers, rounds, column, rows>>

-----------------------------------------------------------------------------
(* _partition_sides.                                                       *)

OnSide(f, s) == {n \in DOMAIN f : f[n] = s}

\* Largest component first, each to the lighter side.
LptAssign(cs) ==
  LET largestFirst == InOrder(cs, {p \in cs \X cs :
                        \/ Cardinality(p[1]) > Cardinality(p[2])
                        \/ Cardinality(p[1]) = Cardinality(p[2]) /\ Min(p[1]) < Min(p[2])})
      assign(f, c) == LET s == IF Cardinality(OnSide(f, 1)) <= Cardinality(OnSide(f, -1))
                               THEN 1 ELSE -1
                      IN  [n \in c \cup DOMAIN f |-> IF n \in c THEN s ELSE f[n]]
  IN  Iterate(assign, <<>>, largestFirst)

KlMaxRounds == 20

\* The hub's neighbours, ascending, to alternating sides.
Seeds == LET ns == Ascending(Neighbours(hub)) IN
         [s \in {1, -1} |-> LET mine == {i \in DOMAIN ns : i % 2 = IF s = 1 THEN 1 ELSE 0}
                            IN  Ascending({ns[i] : i \in mine})]

PartitionSides ==
  /\ stage = "sides"
  /\ LET cs == Components(Others)
     IN  IF Cardinality(cs) > 1
         THEN /\ side' = LptAssign(cs) /\ stage' = "columns"
              /\ UNCHANGED <<frontiers, rounds>>
         ELSE /\ frontiers' = Seeds
              /\ side' = [n \in ToSet(Seeds[1]) \cup ToSet(Seeds[-1]) |->
                            IF n \in ToSet(Seeds[1]) THEN 1 ELSE -1]
              /\ rounds' = KlMaxRounds
              /\ stage' = "grow"
  /\ UNCHANGED <<graphVars, adj, hub, column, rows>>

\* The lighter side claims what its first frontier node with unclaimed
\* neighbours touches; with none left, the least node nobody claimed.
GrowBalanced ==
  /\ stage = "grow" /\ DOMAIN side # Others
  /\ LET s == IF 2 * Cardinality(OnSide(side, 1)) <= Cardinality(DOMAIN side) THEN 1 ELSE -1
         unclaimed(n) == SelectSeq(adj[n], LAMBDA m : m \in Others \ DOMAIN side)
         k == SelectInSeq(frontiers[s], LAMBDA n : unclaimed(n) # <<>>)
         rest == IF k = 0 THEN <<>> ELSE SubSeq(frontiers[s], k + 1, Len(frontiers[s]))
         claimed == IF k = 0 THEN <<Min(Others \ DOMAIN side)>> ELSE unclaimed(frontiers[s][k])
     IN  /\ frontiers' = [frontiers EXCEPT ![s] = rest \o claimed]
         /\ side' = [n \in ToSet(claimed) \cup DOMAIN side |->
                       IF n \in DOMAIN side THEN side[n] ELSE s]
  /\ UNCHANGED <<stage, graphVars, adj, hub, rounds, column, rows>>

Grown == /\ stage = "grow" /\ DOMAIN side = Others
         /\ stage' = "swap"
         /\ UNCHANGED <<graphVars, layoutVars>>

\* _kl_swap: what swapping u and v would save in edges between the sides, the edges
\* of the hub aside.
RestAdj(n) ==
  {m \in Others : \E e \in DOMAIN edges : {edges[e].source, edges[e].target} = {n, m}}
Balance(n) == Cardinality({m \in RestAdj(n) : side[m] # side[n]})
                - Cardinality({m \in RestAdj(n) : side[m] = side[n]})
GainIgnoringEdge(u, v) == Balance(u) + Balance(v)  \* faulty: their own edge stays cut
Gain(u, v) == Balance(u) + Balance(v) - (IF v \in RestAdj(u) THEN 2 ELSE 0)

\* The first of the pairs with the greatest gain, if that is positive.
BestPairs == LET pairs == OnSide(side, 1) \X OnSide(side, -1)
             IN  {p \in pairs : /\ Gain(p[1], p[2]) > 0
                                /\ \A q \in pairs :
                                     \/ Gain(q[1], q[2]) < Gain(p[1], p[2])
                                     \/ Gain(q[1], q[2]) = Gain(p[1], p[2])
                                        /\ (p[1] < q[1] \/ (p[1] = q[1] /\ p[2] <= q[2]))}
KlSwap == /\ stage = "swap" /\ rounds > 0
          /\ \E p \in BestPairs :
               side' = [side EXCEPT ![p[1]] = -1, ![p[2]] = 1]
          /\ rounds' = rounds - 1
          /\ UNCHANGED <<stage, graphVars, adj, hub, frontiers, column, rows>>

Swapped == /\ stage = "swap" /\ (rounds = 0 \/ BestPairs = {})
           /\ stage' = "columns"
           /\ UNCHANGED <<graphVars, layoutVars>>

-----------------------------------------------------------------------------
(* _signed_columns.                                                        *)

SignColumns == /\ stage = "columns"
               /\ column' = [n \in Ids |-> IF n = hub THEN 0 ELSE side[n] * Distance[n]]
               /\ stage' = "bump"
               /\ UNCHANGED <<graphVars, adj, hub, side, frontiers, rounds, rows>>

\* One pass over the edges: an end of an edge within a column moves outwards.
BumpInwards(col, e) ==    \* faulty variant: towards the hub
  LET n == IF e.target # hub THEN e.target ELSE e.source
  IN  IF col[e.source] # col[e.target] THEN col
      ELSE [col EXCEPT ![n] = @ - (IF @ >= 0 THEN 1 ELSE -1)]
Bump(col, e) ==
  LET n == IF e.target # hub THEN e.target ELSE e.source
  IN  IF col[e.source] # col[e.target] THEN col
      ELSE [col EXCEPT ![n] = @ + (IF @ >= 0 THEN 1 ELSE -1)]
Bumped(col) == Iterate(Bump, col, edges)
BumpOnce ==    \* faulty variant: one pass, whatever it moved
  /\ stage = "bump"
  /\ column' = Bumped(column)
  /\ stage' = "order"
  /\ UNCHANGED <<graphVars, adj, hub, side, frontiers, rounds, rows>>
BumpSameColumnEdges ==
  /\ stage = "bump"
  /\ column' = Bumped(column)
  /\ stage' = IF column' = column THEN "order" ELSE "bump"
  /\ UNCHANGED <<graphVars, adj, hub, side, frontiers, rounds, rows>>

-----------------------------------------------------------------------------
(* _order_columns: two rounds, each left to right and right to left.       *)

Position(rs, n) == CHOOSE i \in DOMAIN rs[column'[n]] : rs[column'[n]][i] = n

\* The mean position of n's neighbours in the columns to the given side, its
\* own without any, as a pair <<sum, count>>.
Barycenter(rs, n, direction) ==
  LET refs == {m \in Neighbours(n) : (column'[m] - column'[n]) * direction > 0}
  IN  IF refs = {} THEN <<Position(rs, n), 1>>
      ELSE <<SumFunction([m \in refs |-> Position(rs, m)]), Cardinality(refs)>>
SortColumn(rs, c, direction) ==
  LET key == [n \in ToSet(rs[c]) |-> Barycenter(rs, n, direction)]
      before == {p \in ToSet(rs[c]) \X ToSet(rs[c]) :
                   LET a == key[p[1]]
                       b == key[p[2]]
                   IN  \/ a[1] * b[2] < b[1] * a[2]
                       \/ a[1] * b[2] = b[1] * a[2] /\ p[1] < p[2]}
  IN  [rs EXCEPT ![c] = InOrder(ToSet(rs[c]), before)]

Sweep(rs, cs, direction) == Iterate(LAMBDA r, c : SortColumn(r, c, direction), rs, cs)

OrderColumns ==
  /\ stage = "order"
  /\ column' = [n \in Ids |-> column[n] - Min({column[m] : m \in Ids})]
  /\ LET columns  == Ascending({column'[n] : n \in Ids})
         initial  == [c \in ToSet(columns) |-> Ascending({n \in Ids : column'[n] = c})]
         right(r) == Sweep(r, columns, -1)
         left(r)  == Sweep(r, Reverse(columns), 1)
     IN  rows' = left(right(left(right(initial))))
  /\ stage' = "place"
  /\ UNCHANGED <<graphVars, adj, hub, side, frontiers, rounds>>

LayoutNext == \/ SelectHub \/ PartitionSides \/ GrowBalanced \/ Grown \/ KlSwap \/ Swapped
              \/ SignColumns \/ BumpSameColumnEdges \/ OrderColumns

-----------------------------------------------------------------------------
LaidOut == stage \in {"place", "route", "drawn"}

\* Tables that are joined are never left in one column, though moving one end
\* of an edge outwards can bring it into the column of another neighbour
\* (layout.py 213-226); every column of the layout holds its own nodes.
JoinedAreApart ==
  LaidOut =>
    /\ \A e \in DOMAIN edges : column[edges[e].source] # column[edges[e].target]
    /\ \A n \in Ids : \E i \in DOMAIN rows[column[n]] : rows[column[n]][i] = n

\* When the hub separates the rest of the graph, no edge runs from the left of
\* the hub to its right: each part is on one side, and moving nodes apart
\* never takes one across the hub (layout.py 57-67, 93-105).
PartsKeepTheirSide ==
  LaidOut /\ Cardinality(Components(Others)) > 1 =>
    \A e \in DOMAIN edges :
      (column[edges[e].source] - column[hub]) * (column[edges[e].target] - column[hub]) >= 0

\* Each swap leaves fewer edges between the sides, and the sides as large as
\* they were (layout.py 163-198).
Crossing(f) == {e \in DOMAIN edges : /\ hub \notin {edges[e].source, edges[e].target}
                                     /\ f[edges[e].source] # f[edges[e].target]}
SwapsPay == [][stage = "swap" /\ side' # side =>
                 /\ Cardinality(Crossing(side')) < Cardinality(Crossing(side))
                 /\ Cardinality(OnSide(side', 1)) = Cardinality(OnSide(side, 1))]_<<stage, side>>
=============================================================================
