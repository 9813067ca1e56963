---------------------------- MODULE DiagramPlace ----------------------------
(***************************************************************************)
(* The third stage, diagram/place.py, and build_diagram around it: columns *)
(* side by side with a channel between them, boxes stacked in a column and *)
(* nudged level with what they are joined to, and the whole tried again    *)
(* with more room when an edge cannot be routed.                           *)
(*                                                                         *)
(* A box's content is its size, db.height and db.width.  The router is     *)
(* not part of this module: here it connects every edge or it does not.    *)
(***************************************************************************)
EXTENDS DiagramLayout

VARIABLES rung,    \* which spacing of the ladder is tried
          rects,   \* the boxes
          bounds   \* rows and columns of the canvas

placeVars == <<rung, rects, bounds>>
vars == <<stage, graphVars, layoutVars, placeVars>>

Init == GraphInit /\ LayoutInit /\ rung = 1 /\ rects = <<>> /\ bounds = <<0, 0>>

\* _box_lines: two borders with a line between them, around a name.
ASSUME SizeAssumption ==
  \A d \in Databases : \A t \in Tables : d.height[t] \in Nat \ 0..2 /\ d.width[t] \in Nat \ 0..4

-----------------------------------------------------------------------------
StubLen == 1        \* STUB_LEN: how far an edge runs straight out of a box
AlignSweeps == 2    \* _ALIGN_SWEEPS

Spacing(gap, padding) == [box_gap |-> gap, channel_padding |-> padding]
Ladder == LET n == Len(edges) IN
          <<Spacing(1, 1), Spacing(2, 1), Spacing(2, 3), Spacing(3, 1 + n \div 2),
            Spacing(3, 1 + n)>>

\* A box that could not be described says so in one line.
Height(n) == IF nodes[n].unavailable THEN 3 ELSE db.height[nodes[n].path]
Width(n)  == db.width[nodes[n].path]

Columns == Ascending(DOMAIN rows)

\* _column_x: as wide as its widest box, then a channel with a lane for each
\* edge that crosses it and room for a stub from either side.
Crosses(e, c) == LET ends == {column[e.source], column[e.target]}
                 IN  Min(ends) <= c /\ c < Max(ends)
ChannelNoStubs(c, padding) ==  \* faulty variant: lanes only
  2 * padding + Cardinality({e \in DOMAIN edges : Crosses(edges[e], c)}) - 2
Channel(c, padding) ==
  Max({2 * padding + Cardinality({e \in DOMAIN edges : Crosses(edges[e], c)}),
       2 * StubLen + 1})
ColumnWidth(c) == Max({1} \cup {Width(n) : n \in ToSet(rows[c])})
ColumnX(padding) ==
  Iterate(LAMBDA acc, c : [x  |-> acc.x + ColumnWidth(c) + Channel(c, padding),
                            at |-> [d \in DOMAIN acc.at \cup {c} |->
                                      IF d = c THEN acc.x ELSE acc.at[d]]],
           [x |-> 0, at |-> <<>>], Columns).at

-----------------------------------------------------------------------------
(* _initial_rows and _align_rows.                                          *)

InitialRows(gap) ==
  [n \in Ids |-> LET above == {i \in DOMAIN rows[column[n]] :
                                 \E j \in DOMAIN rows[column[n]] :
                                   i < j /\ rows[column[n]][j] = n}
                 IN  SumFunction([i \in above |-> Height(rows[column[n]][i]) + gap])]

\* Joined boxes of the next column to the left (-1) or right (1).
Partners(n, direction) == {m \in Neighbours(n) : column[m] = column[n] + direction}
Priority(n) == Cardinality(Partners(n, -1)) + Cardinality(Partners(n, 1))
Anchor(y, n) == y[n] + Height(n) \div 2

\* Python's round(): to the nearest, a half to the even neighbour.
Round(sum, count) ==
  LET q == sum \div count
      r == 2 * (sum % count)
  IN  IF r > count \/ (r = count /\ q % 2 = 1) THEN q + 1 ELSE q

\* _nudge: ids[i] goes as near to the row desired as the boxes after it allow,
\* pushing those of lower priority along; the first other is a barrier.  Boxes
\* that keep their gap are pushed no further than the room up to them demands.
Barriers(ids, i) == {k \in DOMAIN ids : Priority(ids[k]) >= Priority(ids[i])}
RoomOf(ids, S, gap) == SumFunction([k \in S |-> Height(ids[k]) + gap])
Rank(ids, n) == CHOOSE k \in DOMAIN ids : ids[k] = n

NudgeDown(y, ids, i, desired, gap) ==
  LET after == {k \in Barriers(ids, i) : k > i}
      limit == IF after = {} THEN desired
               ELSE Min({desired, y[ids[Min(after)]] - RoomOf(ids, i..(Min(after) - 1), gap)})
      floor(k) == limit + RoomOf(ids, i..(k - 1), gap)
  IN  IF limit <= y[ids[i]] THEN y
      ELSE [n \in Ids |-> IF \E k \in i..Len(ids) : ids[k] = n
                         THEN Max({y[n], floor(Rank(ids, n))}) ELSE y[n]]

NudgeUpUnpushed(y, ids, i, desired, gap) ==  \* faulty variant: nobody makes way
  LET before == {k \in Barriers(ids, i) : k < i}
      limit  == IF before = {} THEN desired
                ELSE Max({desired, y[ids[Max(before)]] + RoomOf(ids, Max(before)..(i - 1), gap)})
  IN  IF limit >= y[ids[i]] THEN y ELSE [y EXCEPT ![ids[i]] = limit]
NudgeUp(y, ids, i, desired, gap) ==
  LET before == {k \in Barriers(ids, i) : k < i}
      limit  == IF before = {} THEN desired
                ELSE Max({desired, y[ids[Max(before)]] + RoomOf(ids, Max(before)..(i - 1), gap)})
      ceiling(k) == limit - RoomOf(ids, k..(i - 1), gap)
  IN  IF limit >= y[ids[i]] THEN y
      ELSE [n \in Ids |-> IF \E k \in 1..i : ids[k] = n
                         THEN Min({y[n], ceiling(Rank(ids, n))}) ELSE y[n]]

Nudge(y, ids, i, desired, gap) ==
  IF desired > y[ids[i]] THEN NudgeDown(y, ids, i, desired, gap)
  ELSE NudgeUp(y, ids, i, desired, gap)

\* pull(): the boxes of a column, by priority, towards their partners' rows.
Pull(y, c, direction, gap) ==
  LET ids == rows[c]
      byPriority == InOrder(DOMAIN ids, {p \in (DOMAIN ids) \X (DOMAIN ids) :
                      \/ Priority(ids[p[1]]) > Priority(ids[p[2]])
                      \/ Priority(ids[p[1]]) = Priority(ids[p[2]]) /\ p[1] < p[2]})
      pull(f, i) ==
        LET ps == Partners(ids[i], direction)
        IN  IF ps = {} THEN f
            ELSE Nudge(f, ids, i, Round(SumFunction([p \in ps |-> Anchor(f, p)]),
                                        Cardinality(ps)) - Height(ids[i]) \div 2, gap)
  IN  Iterate(pull, y, byPriority)

PullAll(y, cs, direction, gap) == Iterate(LAMBDA f, c : Pull(f, c, direction, gap), y, cs)
AlignSweep(y, gap) == PullAll(PullAll(y, Columns, -1, gap), Reverse(Columns), 1, gap)
AlignedRows(gap) ==
  Iterate(LAMBDA y, k : AlignSweep(y, gap), InitialRows(gap), [k \in 1..AlignSweeps |-> k])

-----------------------------------------------------------------------------
(* build_diagram: place, then route, up the ladder.                        *)

Margin == Max({Len(edges), StubLen + 1})

Place ==
  /\ stage = "place"
  /\ LET gap  == Ladder[rung].box_gap
         x    == ColumnX(Ladder[rung].channel_padding)
         y    == AlignedRows(gap)
         up   == Min({0} \cup {y[n] : n \in Ids})
     IN  rects' = [n \in Ids |-> [top |-> y[n] - up + Margin, left |-> x[column[n]] + Margin,
                                  height |-> Height(n), width |-> Width(n)]]
  /\ bounds' = <<Max({rects'[n].top + rects'[n].height : n \in Ids}) + Margin,
                 Max({rects'[n].left + rects'[n].width : n \in Ids}) + Margin>>
  /\ stage' = "route"
  /\ UNCHANGED <<graphVars, layoutVars, rung>>

Routed == /\ stage = "route" /\ stage' = "drawn"
          /\ UNCHANGED <<graphVars, layoutVars, placeVars>>

NoRouteForEver ==    \* faulty variant: the last rung is tried again and again
  /\ stage = "route" /\ edges # <<>>
  /\ rung' = IF rung < Len(Ladder) THEN rung + 1 ELSE rung
  /\ stage' = "place"
  /\ UNCHANGED <<graphVars, layoutVars, rects, bounds>>
NoRoute == /\ stage = "route" /\ edges # <<>>
           /\ IF rung < Len(Ladder) THEN rung' = rung + 1 /\ stage' = "place"
              ELSE stage' = "failed" /\ UNCHANGED rung
           /\ UNCHANGED <<graphVars, layoutVars, rects, bounds>>

GraphStep  == GraphNext /\ UNCHANGED <<layoutVars, placeVars>>
LayoutStep == LayoutNext /\ UNCHANGED placeVars
Step       == GraphStep \/ LayoutStep \/ Place \/ Routed \/ NoRoute
Running    == stage \notin {"drawn", "failed"}
Ended      == ~Running /\ UNCHANGED vars

Next == Step \/ Ended

\* One coroutine that awaits nothing but describe, which is taken to answer.
\* The fairness is WF_vars(Step) with its ENABLED written as Running, which the
\* absence of deadlock confirms; TLC takes too long to evaluate the ENABLED.
Spec == Init /\ [][Next]_vars /\ ([]<>~Running \/ []<><<Step>>_vars)

-----------------------------------------------------------------------------
Placed == stage \in {"route", "drawn"}
Rows(r) == r.top..(r.top + r.height - 1)
Cols(r) == r.left..(r.left + r.width - 1)
InBox(row, col) == \E n \in Ids : row \in Rows(rects[n]) /\ col \in Cols(rects[n])

\* Boxes never touch: those of a column keep the gap and the order they were
\* given through all the nudging, those of two columns a channel between them.
BoxesKeepTheirDistance ==
  Placed => \A m, n \in Ids :
    /\ column[m] < column[n] =>
         rects[m].left + rects[m].width + 2 * StubLen < rects[n].left
    /\ \A i, j \in DOMAIN rows[column[n]] :
         i < j /\ rows[column[n]][i] = m /\ rows[column[n]][j] = n =>
           rects[m].top + rects[m].height + Ladder[rung].box_gap <= rects[n].top

\* Whatever the boxes around it, an edge can leave every box to the left and
\* to the right: the stub is inside the canvas and outside of every box.
EveryBoxCanAnchor ==
  Placed => \A n \in Ids :
    \A row \in (rects[n].top + 1)..(rects[n].top + rects[n].height - 2), k \in 1..(StubLen + 1) :
      \A col \in {rects[n].left - k, rects[n].left + rects[n].width + k - 1} :
        /\ row \in 0..(bounds[1] - 1) /\ col \in 0..(bounds[2] - 1)
        /\ ~InBox(row, col)

\* Every diagram ends, drawn or failed: the walk terminates on cycles, every
\* round of every loop of the layout makes progress, and the ladder ends.
EveryDiagramEnds == <>~Running
=============================================================================
