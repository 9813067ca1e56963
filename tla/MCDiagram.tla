------------------------------ MODULE MCDiagram ------------------------------
(***************************************************************************)
(* Small databases for DiagramPlace.  Tables are numbers and 1 is the      *)
(* source.  A describe lists a table's keys by the other end, ascending or *)
(* descending, so that the walk meets the tables in different orders.      *)
(***************************************************************************)
EXTENDS DiagramPlace

MCTables == 1..6

\* Keys are given as pairs <<owner, ref>>; a table's own keys are nullable
\* when its number is even.
Key(p, name) == [owner |-> p[1], column |-> name, ref |-> p[2], nullable |-> p[1] % 2 = 0]

\* What describe(t) lists: `incoming' is FALSE for a catalog that shows a
\* table's own keys only.
References(keys, t, incoming, ascending) ==
  LET both == {[fk |-> k, side |-> "source"] : k \in {k \in keys : k.owner = t}}
                \cup IF incoming THEN {[fk |-> k, side |-> "target"] : k \in {k \in keys : k.ref = t}}
                     ELSE {}
      rank(r) == 40 * OtherEnd(r) + (IF r.fk.column = "x" THEN 0 ELSE 20)
                   + (IF r.side = "source" THEN 0 ELSE 10) + r.fk.owner
      up == SetToSortSeq(both, LAMBDA a, b : rank(a) < rank(b))
  IN  IF ascending THEN up ELSE Reverse(up)

Database(keys, resolved, incoming, ascending, height) ==
  [refs     |-> [t \in MCTables |-> References(keys, t, incoming, ascending)],
   resolved |-> resolved, height |-> height, width |-> [t \in MCTables |-> 5 + t]]

Keys(pairs) == {Key(p, "x") : p \in pairs}
Level  == [t \in MCTables |-> 3]
Uneven == [t \in MCTables |-> <<6, 3, 5, 3, 8, 4>>[t]]

\* Up to three of three tables' keys, self-references and both directions
\* included, with any of the tables unresolved.
Three == {Database(Keys(ps), rs, in, up, Level) :
            ps \in UNION {kSubset(k, (1..3) \X (1..3)) : k \in 0..3},
            rs \in {{}, {1}, {1, 2}, {1, 2, 3}}, in \in BOOLEAN, up \in BOOLEAN}

\* Every connected graph of five tables, numbered outwards from the source.
Five == {Database(Keys(ps), MCTables, TRUE, TRUE, height) :
           ps \in {ps \in SUBSET {p \in (1..5) \X (1..5) : p[1] < p[2]} :
                    \A t \in 2..5 : \E p \in ps : p[2] = t},
           height \in {Level, Uneven}}

\* Every tree of six tables, numbered outwards.
Trees == {Database(Keys(ps), MCTables, TRUE, TRUE, Uneven) :
            ps \in {{<<parent[t], t>> : t \in 2..6} :
                     parent \in {f \in [2..6 -> 1..5] : \A t \in 2..6 : f[t] < t}}}

\* Several keys for a pair of tables, in both directions, on a chain longer than
\* the walk, on two ways to a table at its limit, on a hub between parts, and
\* where moving two joined tables apart brings one next to a third.
Other == {Database(Keys(ps) \cup extra, MCTables, TRUE, up, Uneven) :
            ps \in {{<<1, 2>>, <<2, 3>>, <<3, 4>>, <<4, 5>>, <<5, 6>>},
                    {<<1, 2>>, <<1, 3>>, <<3, 4>>, <<4, 5>>, <<2, 5>>, <<5, 6>>},
                    {<<2, 1>>, <<3, 1>>, <<4, 1>>, <<5, 4>>, <<6, 1>>, <<6, 4>>},
                    {<<1, 2>>, <<1, 3>>, <<2, 3>>, <<2, 4>>, <<3, 4>>, <<4, 5>>, <<4, 6>>}},
            extra \in SUBSET {Key(<<1, 2>>, "y"), Key(<<2, 1>>, "y")},
            up \in BOOLEAN}

MCDatabases == Three \cup Five \cup Trees \cup Other
=============================================================================
