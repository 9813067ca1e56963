------------------------------ MODULE SqliteTree ------------------------------
(***************************************************************************)
(* The object tree of drivers/sqlite.py: tables and views at the root,     *)
(* their columns and indices below.  SQLite compares names without regard  *)
(* to case, and the driver writes a table's name into its PRAGMAs without  *)
(* quotes, so that a name that is not a bare word makes them fail.         *)
(***************************************************************************)
EXTENDS SqlCatalog

CONSTANTS Main,     \* the schema every table of a catalog is in here
          Fold(_),  \* a name in lower case
          Bare(_)   \* may the name stand in a statement without quotes?

FIND_PATHS == [table  |-> <<<<"*">>>>,
               view   |-> <<<<"*">>>>,
               column |-> <<<<"*", "columns", "*">>>>,
               index  |-> <<<<"*", "indices", "*">>>>]

\* The name the dictionary has for t, if it has one.
Spelled(c, t) ==
  LET same == {x \in c.tables : Fold(x.name) = Fold(t)}
  IN  IF same = {} THEN t ELSE (CHOOSE x \in same : TRUE).name

\* PRAGMA table_info and index_list; index_xinfo gives an index its keys.
\* A statement fails on a name that is not a bare word.
Columns(c, t) == ColumnsOf(c, Main, Spelled(c, t))
IndexList(c, t) == IndexesOn(c, Main, Spelled(c, t))

\* PRAGMA foreign_key_list: the referenced table as the DDL spells it.
ForeignKeys(c, t) == KeysFrom(c, Main, Spelled(c, t))

_unique_columns_sync(c, t) ==
  LET pk == PkOf(c, Main, Spelled(c, t))
  IN  {n \in pk : pk = {n}} \cup
      {i.keys[1] : i \in {x \in ToSet(IndexList(c, t)) : x.unique /\ Len(x.keys) = 1}}

_outgoing_references_sync(c, t) ==
  MapSeq(ForeignKeys(c, t),
         LAMBDA k : TableReference([k EXCEPT !.table = t],
                                   k.column \in _unique_columns_sync(c, t)))

\* Every other table is asked for its keys; each one found is told as a key
\* into this table under the name it was asked by.
Others(c, t) == {x \in c.tables : x.name # t}
_incoming_references_sync(c, t) ==
  MapSeq(SelectSeq(c.keys, LAMBDA k : Fold(k.refTable) = Fold(t)
                                      /\ \E x \in Others(c, t) : x.name = k.table),
         LAMBDA k : TableReference([k EXCEPT !.refTable = t],
                                   k.column \in _unique_columns_sync(c, k.table)))

IndexesAreBare(c, t) == \A i \in ToSet(IndexList(c, t)) : Bare(i.name)
UniqueIndexesAreBare(c, t) ==
  \A i \in ToSet(IndexList(c, t)) : i.unique => Bare(i.name)

\* The incoming keys are looked for in all the tables, so one whose name is no
\* bare word fails the description of each; the unique columns of a table that
\* refers to this one take the names of its indexes too.
DescribesWell(c, t) ==
  /\ Bare(t) /\ IndexesAreBare(c, t)
  /\ \A x \in Others(c, t) :
       /\ Bare(x.name)
       /\ (\E k \in ToSet(ForeignKeys(c, x.name)) : Fold(k.refTable) = Fold(t))
          => UniqueIndexesAreBare(c, x.name)

Described(t, index) ==
  IndexDescription(index.name, index.keys, index.unique, t, {})
_describe_indices_sync(c, t) == MapSeq(IndexList(c, t), LAMBDA i : Described(t, i))

_describe_index_sync(c, t, name) ==
  LET found == FirstSuch(_describe_indices_sync(c, t), LAMBDA i : i.name = name)
  IN  OrFailure(Bare(t) /\ (found # Nothing => Bare(name)), found)

\* "table" in quotes: a failing SELECT DISTINCT is an empty sample.
_fetch_sample(c, t, column) == SelectedSample(RowsInTime(c, Main, Spelled(c, t)), column)

Field(c, t, column) ==
  FieldDescription(column, column \in PkOf(c, Main, Spelled(c, t)),
                   _describe_indices_sync(c, t),
                   _outgoing_references_sync(c, t),
                   _incoming_references_sync(c, t),
                   _fetch_sample(c, t, column))

_describe_entity_sync(c, t) ==
  IF DescribesWell(c, t)
  THEN EntityDescription(t, MapSeq(Columns(c, t), LAMBDA n : Field(c, t, n)))
  ELSE Failure

\* A column that is not there is None before anything else is read.
_describe_field_sync(c, t, column) ==
  CASE ~Bare(t) -> Failure
    [] Bare(t) /\ column \notin ToSet(Columns(c, t)) -> Nothing
    [] OTHER -> IF DescribesWell(c, t) THEN Field(c, t, column) ELSE Failure

-----------------------------------------------------------------------------
\* A foreign key is listed by its column here.
explore_list(c, p) ==
  CASE Matches(p, <<>>)    -> Items(TableItems(c, Main))
    [] Matches(p, <<"*">>) -> Groups(<<"columns", "indices", "foreign_keys">>)
    [] Matches(p, <<"*", "columns">>) ->
         OrFailure(Bare(p[1]), Items(ColumnItems(Columns(c, p[1]))))
    [] Matches(p, <<"*", "indices">>) ->
         OrFailure(Bare(p[1]), Items(PlainIndexItems(IndexList(c, p[1]))))
    [] Matches(p, <<"*", "foreign_keys">>) ->
         OrFailure(Bare(p[1]) /\ UniqueIndexesAreBare(c, p[1]),
                   Items(MapSeq(_outgoing_references_sync(c, p[1]),
                                LAMBDA r : ExploreItem(r.column, "foreign_key"))))
    [] OTHER -> NoItems

explore_describe(c, p) ==
  CASE Matches(p, <<"*">>) -> _describe_entity_sync(c, p[1])
    [] Matches(p, <<"*", "columns", "*">>) -> _describe_field_sync(c, p[1], p[3])
    [] Matches(p, <<"*", "indices">>) ->
         OrFailure(Bare(p[1]) /\ IndexesAreBare(c, p[1]),
                   Listing(_describe_indices_sync(c, p[1])))
    [] Matches(p, <<"*", "indices", "*">>) -> _describe_index_sync(c, p[1], p[3])
    [] Matches(p, <<"*", "relationships", "*">>) ->
         OrFailure(Bare(p[1]) /\ UniqueIndexesAreBare(c, p[1]),
                   find_reference(_outgoing_references_sync(c, p[1]), p[3]))
    [] OTHER -> Nothing

\* SELECT * FROM the name, again without quotes.
explore_preview(c, p) ==
  IF Matches(p, <<"*">>)
  THEN OrFailure(Bare(p[1]), PreviewOf(c, Main, Spelled(c, p[1])))
  ELSE Nothing
=============================================================================
