------------------------------ MODULE SqlCatalog ------------------------------
(***************************************************************************)
(* The dictionary the queries of the relational drivers read.  A catalog c *)
(* has                                                                     *)
(*   schemas  the schemas' names;                                          *)
(*   tables   [schema, name, kind, columns (in order), pk (a set),         *)
(*            rows (a sequence of rows, each a map from columns), slow (do *)
(*            the queries for samples take longer than their timeout?)];   *)
(*   indexes  in the order of their names: [owner, schema, table, name,    *)
(*            keys (in order, Null for an expression), included, unique,   *)
(*            constraint (it backs a PRIMARY KEY or UNIQUE constraint)];   *)
(*   keys     in the order of their names, one for each pair of columns:   *)
(*            [schema, table, column, refSchema, refTable, refColumn];     *)
(*   synonyms [owner, name, schema, table], Oracle's.                      *)
(***************************************************************************)
EXTENDS ExploreAnswers, FiniteSets

TablesNamed(c, s, t) == {x \in c.tables : x.schema = s /\ x.name = t}
HasTable(c, s, t) == TablesNamed(c, s, t) # {}
TableNamed(c, s, t) == CHOOSE x \in TablesNamed(c, s, t) : TRUE

ColumnsOf(c, s, t) == IF HasTable(c, s, t) THEN TableNamed(c, s, t).columns ELSE <<>>
PkOf(c, s, t)   == IF HasTable(c, s, t) THEN TableNamed(c, s, t).pk ELSE {}
RowsOf(c, s, t) == IF HasTable(c, s, t) THEN TableNamed(c, s, t).rows ELSE <<>>

\* What a query for samples sees: none of the rows if it fails or times out.
RowsInTime(c, s, t) ==
  IF HasTable(c, s, t) /\ ~TableNamed(c, s, t).slow THEN RowsOf(c, s, t) ELSE <<>>

IndexesOn(c, s, t) == SelectSeq(c.indexes, LAMBDA i : i.schema = s /\ i.table = t)
KeysFrom(c, s, t) == SelectSeq(c.keys, LAMBDA k : k.schema = s /\ k.table = t)
KeysInto(c, s, t) == SelectSeq(c.keys, LAMBDA k : k.refSchema = s /\ k.refTable = t)

SchemaItems(c) == SetToSeq({ExploreItem(s, "schema") : s \in c.schemas})
TableItems(c, s) ==
  SetToSeq({ExploreItem(t.name, t.kind) : t \in {x \in c.tables : x.schema = s}})
ColumnItems(columns) == MapSeq(columns, LAMBDA n : ExploreItem(n, "type"))
PreviewOf(c, s, t) == OrFailure(HasTable(c, s, t), Rows(RowsOf(c, s, t)))

\* PostgreSQL, SQL Server and Oracle list an index with its access method or its
\* type ("btree", "nonclustered", "normal") as they list a column with its type.
IndexItems(indexes) == MapSeq(indexes, LAMBDA i : ExploreItem(i.name, "method"))
PlainIndexItems(indexes) == MapSeq(indexes, LAMBDA i : ExploreItem(i.name, "index"))
=============================================================================
