--------------------------- MODULE MCExploreCache ---------------------------
(***************************************************************************)
(* ExploreCache over one small tree: a table, its group of columns with    *)
(* one column, and an index on that column.                                *)
(***************************************************************************)
EXTENDS ExploreCache

CONSTANTS c1, c2

Root   == <<>>
Table  == <<"t">>
Group  == <<"t", "columns">>
Column == <<"t", "columns", "c">>
Index  == <<"t", "indices", "i">>

Object(shape, names, references) ==
  [shape |-> shape, names |-> names, references |-> references]

SmallCatalog ==
  [p \in {Root, Table, Group, Column, Index} |->
     CASE p = Root  -> Object("none", {}, {})
       [] p = Table -> Object("entity", {"c"}, {})
       [] p = Group -> Object("group", {"c"}, {})
       [] OTHER     -> Object("leaf", {}, {})]

\* Every kind of entry: one that a reset of the column reaches from below and one
\* from above, its own, one beside it, and a search.
FewCalls == {<<"list", Root>>, <<"describe", Table>>, <<"describe", Column>>,
             <<"describe", Index>>, <<"find", "s">>}
TableCalls == {<<"describe", Table>>, <<"describe", Column>>, <<"find", "s">>}
=============================================================================
