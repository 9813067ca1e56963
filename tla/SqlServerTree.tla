----------------------------- MODULE SqlServerTree -----------------------------
(***************************************************************************)
(* The object tree of drivers/sqlserver.py.  sys.indexes holds the indexes *)
(* of constraints too.  The samples of an entity come from one scan of its *)
(* first rows, those of a single column from a SELECT DISTINCT.            *)
(***************************************************************************)
EXTENDS SqlCatalog

FIND_PATHS == [schema |-> <<<<"*">>>>,
               table  |-> <<<<"*", "*">>>>,
               view   |-> <<<<"*", "*">>>>,
               column |-> <<<<"*", "*", "columns", "*">>>>,
               index  |-> <<<<"*", "*", "indices", "*">>>>]

Described(t, i) == IndexDescription(i.name, i.keys, i.unique, t, i.included)
_describe_indices_sync(c, s, t) ==
  MapSeq(IndexesOn(c, s, t), LAMBDA i : Described(t, i))
_describe_index_sync(c, s, t, name) ==
  FirstSuch(_describe_indices_sync(c, s, t), LAMBDA i : i.name = name)

\* An index's columns are counted with those it merely includes.
_unique_columns_sync(c, s, t) ==
  UNION {x \in {ToSet(i.keys) \cup i.included :
                  i \in {y \in ToSet(IndexesOn(c, s, t)) : y.unique}} :
         Cardinality(x) = 1}

_outgoing_references_sync(c, s, t) ==
  MapSeq(KeysFrom(c, s, t),
         LAMBDA k : TableReference(k, k.column \in _unique_columns_sync(c, s, t)))
UniqueAtTheWrongEnd(c, s, t) ==         \* faulty variant
  MapSeq(KeysInto(c, s, t),
         LAMBDA k : TableReference(k, k.column \in _unique_columns_sync(c, s, t)))
_incoming_references_sync(c, s, t) ==
  MapSeq(KeysInto(c, s, t),
         LAMBDA k : TableReference(k, k.column \in
                                        _unique_columns_sync(c, k.schema, k.table)))

_fetch_samples(c, s, t, column) == build_column_samples(RowsInTime(c, s, t), column)
_fetch_sample(c, s, t, column)  == SelectedSample(RowsInTime(c, s, t), column)

Field(c, s, t, column, sample) ==
  FieldDescription(column, column \in PkOf(c, s, t),
                   _describe_indices_sync(c, s, t),
                   _outgoing_references_sync(c, s, t),
                   _incoming_references_sync(c, s, t),
                   sample)

_describe_entity_sync(c, s, t) ==
  EntityDescription(t, MapSeq(ColumnsOf(c, s, t),
                              LAMBDA n : Field(c, s, t, n, _fetch_samples(c, s, t, n))))
_describe_field_sync(c, s, t, column) ==
  IF column \in ToSet(ColumnsOf(c, s, t))
  THEN Field(c, s, t, column, _fetch_sample(c, s, t, column)) ELSE Nothing

-----------------------------------------------------------------------------
\* TABLE_TYPE in lower case.
TableType(item) == IF item.type = "table" THEN [item EXCEPT !.type = "base table"] ELSE item
explore_list(c, p) ==
  CASE Matches(p, <<>>)    -> Items(SchemaItems(c))
    [] Matches(p, <<"*">>) -> Items(MapSeq(TableItems(c, p[1]), TableType))
    [] Matches(p, <<"*", "*">>) -> Groups(<<"columns", "indices">>)
    [] Matches(p, <<"*", "*", "columns">>) ->
         Items(ColumnItems(ColumnsOf(c, p[1], p[2])))
    [] Matches(p, <<"*", "*", "indices">>) ->
         Items(IndexItems(IndexesOn(c, p[1], p[2])))
    [] OTHER -> NoItems

explore_describe(c, p) ==
  CASE Matches(p, <<"*", "*">>) -> _describe_entity_sync(c, p[1], p[2])
    [] Matches(p, <<"*", "*", "columns", "*">>) ->
         _describe_field_sync(c, p[1], p[2], p[4])
    [] Matches(p, <<"*", "*", "indices">>) ->
         Listing(_describe_indices_sync(c, p[1], p[2]))
    [] Matches(p, <<"*", "*", "indices", "*">>) ->
         _describe_index_sync(c, p[1], p[2], p[4])
    [] Matches(p, <<"*", "*", "relationships", "*">>) ->
         find_reference(_outgoing_references_sync(c, p[1], p[2]), p[4])
    [] OTHER -> Nothing

explore_preview(c, p) ==
  IF Matches(p, <<"*", "*">>) THEN PreviewOf(c, p[1], p[2]) ELSE Nothing
=============================================================================
