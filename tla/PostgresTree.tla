----------------------------- MODULE PostgresTree -----------------------------
(***************************************************************************)
(* The object tree of drivers/postgres: driver.py, over the queries of     *)
(* queries.py.  An expression in an index names no column and is left out  *)
(* of its fields.  The cache the queries keep for a connection is          *)
(* SqlSession's subject; here a query reads the dictionary as it is.       *)
(***************************************************************************)
EXTENDS SqlCatalog

FIND_PATHS == [schema |-> <<<<"*">>>>,
               table  |-> <<<<"*", "*">>>>,
               view   |-> <<<<"*", "*">>>>,
               column |-> <<<<"*", "*", "columns", "*">>>>,
               index  |-> <<<<"*", "*", "indexes", "*">>>>]

-----------------------------------------------------------------------------
(* queries.py.                                                             *)

NamedColumns(i) == SelectSeq(i.keys, LAMBDA n : n # Null)

fetch_unique_columns(c, s, t) ==
  {i.keys[1] : i \in {x \in ToSet(IndexesOn(c, s, t)) :
                        x.unique /\ Len(x.keys) = 1 /\ x.included = {}}} \ {Null}

fetch_outgoing_references(c, s, t) ==
  MapSeq(KeysFrom(c, s, t),
         LAMBDA k : TableReference(k, k.column \in fetch_unique_columns(c, s, t)))

fetch_incoming_references(c, s, t) ==
  MapSeq(KeysInto(c, s, t),
         LAMBDA k : TableReference(k, k.column \in
                                        fetch_unique_columns(c, k.schema, k.table)))

\* An index by its name in the schema, whichever table it is on.
fetch_index_meta(c, s, name) ==
  FirstSuch(SelectSeq(c.indexes, LAMBDA i : i.schema = s),
            LAMBDA i : i.name = name)

fetch_column_sample(c, s, t, column) == SelectedSample(RowsInTime(c, s, t), column)
fetch_table_sample_rows(c, s, t) == FirstOf(RowsInTime(c, s, t), ScanRows)

-----------------------------------------------------------------------------
(* driver.py.                                                              *)

Described(t, i) ==
  IndexDescription(i.name, NamedColumns(i), i.unique, t, i.included)
_describe_indices(c, s, t) ==
  MapSeq(IndexesOn(c, s, t), LAMBDA i : Described(t, i))
_describe_index(c, s, t, name) ==
  LET meta == fetch_index_meta(c, s, name)
  IN  IF meta = Nothing THEN Nothing ELSE Described(t, meta)

Field(c, s, t, column, sample) ==
  FieldDescription(column, column \in PkOf(c, s, t),
                   _describe_indices(c, s, t),
                   fetch_outgoing_references(c, s, t),
                   fetch_incoming_references(c, s, t),
                   sample)

_describe_entity(c, s, t) ==
  EntityDescription(t,
    MapSeq(ColumnsOf(c, s, t),
           LAMBDA n : Field(c, s, t, n,
                            build_column_samples(fetch_table_sample_rows(c, s, t), n))))
_describe_field(c, s, t, column) ==
  IF column \in ToSet(ColumnsOf(c, s, t))
  THEN Field(c, s, t, column, fetch_column_sample(c, s, t, column)) ELSE Nothing
_describe_relationship(c, s, t, column) ==
  find_reference(fetch_outgoing_references(c, s, t), column)

explore_list(c, p) ==
  CASE Matches(p, <<>>)    -> Items(SchemaItems(c))
    [] Matches(p, <<"*">>) -> Items(TableItems(c, p[1]))
    [] Matches(p, <<"*", "*">>) -> Groups(<<"columns", "indexes">>)
    [] Matches(p, <<"*", "*", "columns">>) ->
         Items(ColumnItems(ColumnsOf(c, p[1], p[2])))
    [] Matches(p, <<"*", "*", "indexes">>) ->
         Items(IndexItems(IndexesOn(c, p[1], p[2])))
    [] OTHER -> NoItems

explore_describe(c, p) ==
  CASE Matches(p, <<"*", "*">>) -> _describe_entity(c, p[1], p[2])
    [] Matches(p, <<"*", "*", "indexes">>) ->
         Listing(_describe_indices(c, p[1], p[2]))
    [] Matches(p, <<"*", "*", "indexes", "*">>) ->
         _describe_index(c, p[1], p[2], p[4])
    [] Matches(p, <<"*", "*", "columns", "*">>) ->
         _describe_field(c, p[1], p[2], p[4])
    [] Matches(p, <<"*", "*", "relationships", "*">>) ->
         _describe_relationship(c, p[1], p[2], p[4])
    [] OTHER -> Nothing

explore_preview(c, p) ==
  IF Matches(p, <<"*", "*">>) THEN PreviewOf(c, p[1], p[2]) ELSE Nothing
=============================================================================
