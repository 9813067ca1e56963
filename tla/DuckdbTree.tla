------------------------------ MODULE DuckdbTree ------------------------------
(***************************************************************************)
(* The object tree of drivers/duckdb.py: schemas, their tables and views,  *)
(* columns and indices.  Names are bound or quoted, and compared as they   *)
(* are spelled.  The indexes that back constraints are not listed; only    *)
(* they make a column unique.                                              *)
(***************************************************************************)
EXTENDS SqlCatalog

FIND_PATHS == [schema |-> <<<<"*">>>>,
               table  |-> <<<<"*", "*">>>>,
               view   |-> <<<<"*", "*">>>>,
               column |-> <<<<"*", "*", "columns", "*">>>>,
               index  |-> <<<<"*", "*", "indices", "*">>>>]

\* duckdb_indexes() and duckdb_constraints().
ListedIndexes(c, s, t) == SelectSeq(IndexesOn(c, s, t), LAMBDA i : ~i.constraint)
Constraints(c, s, t)   == SelectSeq(IndexesOn(c, s, t), LAMBDA i : i.constraint)

_describe_indices_sync(c, s, t) ==
  MapSeq(ListedIndexes(c, s, t),
         LAMBDA i : IndexDescription(i.name, i.keys, i.unique, t, {}))

_unique_columns_sync(c, s, t) ==
  {i.keys[1] : i \in {x \in ToSet(Constraints(c, s, t)) : Len(x.keys) = 1}}

\* A key does not leave its schema: the driver repeats it for both ends.
_outgoing_references_sync(c, s, t) ==
  MapSeq(KeysFrom(c, s, t),
         LAMBDA k : TableReference([k EXCEPT !.refSchema = s],
                                   k.column \in _unique_columns_sync(c, s, t)))
_incoming_references_sync(c, s, t) ==
  MapSeq(SelectSeq(c.keys, LAMBDA k : k.schema = s /\ k.refTable = t),
         LAMBDA k : TableReference([k EXCEPT !.refSchema = s],
                                   k.column \in _unique_columns_sync(c, s, k.table)))

_fetch_sample(c, s, t, column) == SelectedSample(RowsInTime(c, s, t), column)

Field(c, s, t, column) ==
  FieldDescription(column, column \in PkOf(c, s, t),
                   _describe_indices_sync(c, s, t),
                   _outgoing_references_sync(c, s, t),
                   _incoming_references_sync(c, s, t),
                   _fetch_sample(c, s, t, column))

\* A table that is not there is an entity without columns.
_describe_entity_sync(c, s, t) ==
  EntityDescription(t, MapSeq(ColumnsOf(c, s, t), LAMBDA n : Field(c, s, t, n)))
_describe_field_sync(c, s, t, column) ==
  IF column \in ToSet(ColumnsOf(c, s, t)) THEN Field(c, s, t, column) ELSE Nothing

-----------------------------------------------------------------------------
\* A foreign key is listed by its column here.
explore_list(c, p) ==
  CASE Matches(p, <<>>)    -> Items(SchemaItems(c))
    [] Matches(p, <<"*">>) -> Items(TableItems(c, p[1]))
    [] Matches(p, <<"*", "*">>) -> Groups(<<"columns", "indices", "foreign_keys">>)
    [] Matches(p, <<"*", "*", "columns">>) ->
         Items(ColumnItems(ColumnsOf(c, p[1], p[2])))
    [] Matches(p, <<"*", "*", "indices">>) ->
         Items(PlainIndexItems(ListedIndexes(c, p[1], p[2])))
    [] Matches(p, <<"*", "*", "foreign_keys">>) ->
         Items(MapSeq(KeysFrom(c, p[1], p[2]),
                      LAMBDA k : ExploreItem(k.column, "foreign_key")))
    [] OTHER -> NoItems

explore_describe(c, p) ==
  CASE Matches(p, <<"*", "*">>) -> _describe_entity_sync(c, p[1], p[2])
    [] Matches(p, <<"*", "*", "columns", "*">>) ->
         _describe_field_sync(c, p[1], p[2], p[4])
    [] Matches(p, <<"*", "*", "indices">>) ->
         Listing(_describe_indices_sync(c, p[1], p[2]))
    [] Matches(p, <<"*", "*", "indices", "*">>) ->
         FirstSuch(_describe_indices_sync(c, p[1], p[2]), LAMBDA i : i.name = p[4])
    [] Matches(p, <<"*", "*", "relationships", "*">>) ->
         find_reference(_outgoing_references_sync(c, p[1], p[2]), p[4])
    [] OTHER -> Nothing

explore_preview(c, p) ==
  IF Matches(p, <<"*", "*">>) THEN PreviewOf(c, p[1], p[2]) ELSE Nothing
=============================================================================
