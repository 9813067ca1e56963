------------------------------ MODULE OracleTree ------------------------------
(***************************************************************************)
(* The object tree and the symbol lookup of drivers/oracle: driver.py over *)
(* the queries of queries.py.  The names of a path are put in upper case   *)
(* before they are looked up, so that a table stored under a quoted name   *)
(* is listed but not found again.  explore.find is answered from the       *)
(* dictionary, except for schemas.  The cache the queries keep for a       *)
(* connection is SqlSession's subject.                                     *)
(***************************************************************************)
EXTENDS SqlCatalog

CONSTANT Upper(_)   \* a name in upper case

FIND_PATHS == [schema |-> <<<<"*">>>>,
               table  |-> <<<<"*", "*">>>>,
               view   |-> <<<<"*", "*">>>>,
               column |-> <<<<"*", "*", "columns", "*">>>>,
               index  |-> <<<<"*", "*", "indexes", "*">>>>]

-----------------------------------------------------------------------------
(* queries.py: describing a table.                                         *)

\* By constraint, not by index: a UNIQUE index alone does not count.
fetch_unique_columns(c, s, t) ==
  {i.keys[1] : i \in {x \in ToSet(IndexesOn(c, s, t)) :
                        x.constraint /\ Len(x.keys) = 1}}

fetch_outgoing_references(c, s, t) ==
  MapSeq(KeysFrom(c, s, t),
         LAMBDA k : TableReference(k, k.column \in fetch_unique_columns(c, s, t)))

fetch_incoming_references(c, s, t) ==
  MapSeq(KeysInto(c, s, t),
         LAMBDA k : TableReference(k, k.column \in
                                        fetch_unique_columns(c, k.schema, k.table)))

\* ALL_IND_COLUMNS by the owner of the index, the table's schema being given.
fetch_index_fields(i, s) == IF i.owner = s THEN i.keys ELSE <<>>

\* An index by its own owner and name, whichever table it is on.
fetch_index_meta(c, s, name) ==
  FirstSuch(SelectSeq(c.indexes, LAMBDA i : i.owner = s), LAMBDA i : i.name = name)

fetch_column_sample(c, s, t, column) == SelectedSample(RowsInTime(c, s, t), column)
fetch_table_sample_rows(c, s, t) == FirstOf(RowsInTime(c, s, t), ScanRows)

-----------------------------------------------------------------------------
(* queries.py: finding a symbol.                                           *)

_name_forms(name) == {name, Upper(name)}

\* No names leave the column as it is.
_scope_filter(value, names) == names = {} \/ value \in names
_owner_filter(c, owner) == owner \in c.schemas

_find_object_branch(c, names, schemas) ==
  {<<t.schema, t.name>> : t \in {x \in c.tables :
       x.name \in names /\ _owner_filter(c, x.schema) /\ _scope_filter(x.schema, schemas)}}

\* Faulty variant: the synonym itself, which is no table.
SynonymItself(c, names, schemas) ==
  {<<y.schema, y.name>> : y \in {x \in c.synonyms :
       x.name \in names /\ HasTable(c, x.schema, x.table)}}

\* The base object of a synonym, unless it is dangling or a synonym itself.  A
\* scope is about the synonym's owner.
_find_synonym_branch(c, names, schemas) ==
  {<<y.schema, y.table>> : y \in {x \in c.synonyms :
       /\ x.name \in names
       /\ _owner_filter(c, x.schema)
       /\ HasTable(c, x.schema, x.table)
       /\ _scope_filter(x.owner, schemas)}}

fetch_find_tables_and_views(c, name, schemas) ==
  _find_object_branch(c, _name_forms(name), schemas)
    \cup _find_synonym_branch(c, _name_forms(name), schemas)

InScope(c, s, t, schemas, tables) ==
  _owner_filter(c, s) /\ _scope_filter(s, schemas) /\ _scope_filter(t, tables)

fetch_find_columns(c, name, schemas, tables) ==
  UNION {{<<t.schema, t.name, "columns", n>> : n \in ToSet(t.columns) \cap _name_forms(name)} :
         t \in {x \in c.tables : InScope(c, x.schema, x.name, schemas, tables)}}

fetch_find_indexes(c, name, schemas, tables) ==
  {<<i.schema, i.table, "indexes", i.name>> : i \in {x \in ToSet(c.indexes) :
     x.name \in _name_forms(name) /\ InScope(c, x.schema, x.table, schemas, tables)}}

-----------------------------------------------------------------------------
(* driver.py.                                                              *)

_scope_names(scopes, types) ==
  UNION {{x.name, Upper(x.name)} : x \in {y \in scopes : y.type \in types}}

\* Does explore_find answer, or leave the search to the generic walker?
FindsItself(type) == type \in {"table", "view", "column", "index"}
explore_find(c, type, name, scopes) ==
  LET schemas == _scope_names(scopes, {"schema"})
      tables  == _scope_names(scopes, {"table", "view"})
  IN  CASE type \in {"table", "view"} -> fetch_find_tables_and_views(c, name, schemas)
        [] type = "column" -> fetch_find_columns(c, name, schemas, tables)
        [] type = "index"  -> fetch_find_indexes(c, name, schemas, tables)

Described(s, t, i) ==
  IndexDescription(i.name, fetch_index_fields(i, s), i.unique, t, {})
_describe_indices(c, s, t) ==
  MapSeq(IndexesOn(c, s, t), LAMBDA i : Described(s, t, i))
_describe_index(c, s, t, name) ==
  LET meta == fetch_index_meta(c, s, name)
  IN  IF meta = Nothing THEN Nothing ELSE Described(s, t, meta)

Field(c, s, t, column, sample) ==
  FieldDescription(column, column \in PkOf(c, s, t),
                   _describe_indices(c, s, t),
                   fetch_outgoing_references(c, s, t),
                   fetch_incoming_references(c, s, t),
                   sample)

_describe_entity(c, s, t) ==
  EntityDescription(t,
    MapSeq(ColumnsOf(c, s, t),
           LAMBDA n : Field(c, s, t, n,
                            build_column_samples(fetch_table_sample_rows(c, s, t), n))))
_describe_field(c, s, t, column) ==
  IF column \in ToSet(ColumnsOf(c, s, t))
  THEN Field(c, s, t, column, fetch_column_sample(c, s, t, column)) ELSE Nothing
_describe_relationship(c, s, t, column) ==
  find_reference(fetch_outgoing_references(c, s, t), column)

explore_list(c, p) ==
  CASE Matches(p, <<>>)    -> Items(SchemaItems(c))
    [] Matches(p, <<"*">>) -> Items(TableItems(c, Upper(p[1])))
    [] Matches(p, <<"*", "*">>) -> Groups(<<"columns", "indexes">>)
    [] Matches(p, <<"*", "*", "columns">>) ->
         Items(ColumnItems(ColumnsOf(c, Upper(p[1]), Upper(p[2]))))
    [] Matches(p, <<"*", "*", "indexes">>) ->
         Items(IndexItems(IndexesOn(c, Upper(p[1]), Upper(p[2]))))
    [] OTHER -> NoItems

explore_describe(c, p) ==
  CASE Matches(p, <<"*", "*">>) -> _describe_entity(c, Upper(p[1]), Upper(p[2]))
    [] Matches(p, <<"*", "*", "indexes">>) ->
         Listing(_describe_indices(c, Upper(p[1]), Upper(p[2])))
    [] Matches(p, <<"*", "*", "indexes", "*">>) ->
         _describe_index(c, Upper(p[1]), Upper(p[2]), Upper(p[4]))
    [] Matches(p, <<"*", "*", "columns", "*">>) ->
         _describe_field(c, Upper(p[1]), Upper(p[2]), Upper(p[4]))
    [] Matches(p, <<"*", "*", "relationships", "*">>) ->
         _describe_relationship(c, Upper(p[1]), Upper(p[2]), Upper(p[4]))
    [] OTHER -> Nothing

\* The name in quotes, as the path has it.
explore_preview(c, p) ==
  IF Matches(p, <<"*", "*">>) THEN PreviewOf(c, p[1], p[2]) ELSE Nothing
=============================================================================
