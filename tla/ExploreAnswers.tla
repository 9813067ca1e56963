---------------------------- MODULE ExploreAnswers ----------------------------
(***************************************************************************)
(* What explore.list and explore.describe answer, protocol.py, and the     *)
(* helpers of drivers/base.py that every driver builds its answers with.   *)
(* A path is a sequence of names.  Types, nullability, defaults, comments  *)
(* and DDL are copied by every driver without a decision and left out.     *)
(***************************************************************************)
EXTENDS Naturals, SequencesExt

CONSTANTS SampleSize,  \* DriverSettings.column_sample_size
          ScanRows,    \* SAMPLE_SCAN_ROWS
          PreviewRows, \* rows a preview shows: 10
          Null,        \* no value
          Unwritable   \* the values json cannot write: bytes, intervals, ...

ASSUME SampleAssumption ==
  SampleSize \in Nat \ {0} /\ ScanRows \in Nat \ {0} /\ PreviewRows \in Nat \ {0}

MapSeq(s, F(_)) == [i \in DOMAIN s |-> F(s[i])]
FirstOf(s, n) == SubSeq(s, 1, IF Len(s) < n THEN Len(s) ELSE n)

\* match path: case [...], where "*" stands for a name bound by the pattern.
Matches(p, pattern) ==
  /\ Len(p) = Len(pattern)
  /\ \A i \in DOMAIN p : pattern[i] \in {"*", p[i]}

-----------------------------------------------------------------------------
(* Answers.                                                                *)

Nothing == [is |-> "nothing"]   \* None: the path is not describable
Failure == [is |-> "error"]     \* DriverError
OrFailure(works, answer) == IF works THEN answer ELSE Failure

ExploreItem(name, type) == [name |-> name, type |-> type]
Items(s) == [is |-> "items", of |-> s]
NoItems  == Items(<<>>)
Groups(names) == Items(MapSeq(names, LAMBDA n : ExploreItem(n, "group")))

\* explore.preview's first rows of a table.
Rows(rows) == [is |-> "rows", of |-> FirstOf(rows, PreviewRows)]

\* A list of descriptions: what a group such as "indices" is described by.
Listing(s) == [is |-> "list", of |-> s]

IndexDescription(name, fields, unique, table, included) ==
  [is |-> "index", name |-> name, fields |-> fields, unique |-> unique,
   table |-> table, included |-> included]

TableReference(key, unique) ==
  [is |-> "relationship", schema |-> key.schema, table |-> key.table,
   column |-> key.column, refSchema |-> key.refSchema,
   refTable |-> key.refTable, refColumn |-> key.refColumn,
   unique |-> unique]

EntityDescription(name, properties) ==
  [is |-> "entity", name |-> name, properties |-> properties]

-----------------------------------------------------------------------------
(* drivers/base.py.                                                        *)

FirstSuch(s, Test(_)) ==
  LET at == SelectInSeq(s, Test) IN IF at = 0 THEN Nothing ELSE s[at]

LastReference(refs, column) ==          \* faulty variant: the last of them
  FirstSuch(Reverse(refs), LAMBDA r : r.column = column)
find_reference(refs, column) == FirstSuch(refs, LAMBDA r : r.column = column)

\* What group_references_by_column keeps for one column, and likewise by the
\* column a reference points at.
OutgoingOf(refs, column) == SelectSeq(refs, LAMBDA r : r.column = column)
IncomingOf(refs, column) == SelectSeq(refs, LAMBDA r : r.refColumn = column)

\* The indices that cover a column alone, and those that cover others with it.
ExclusiveOf(indices, column) ==
  SelectSeq(indices, LAMBDA i : i.fields = <<column>>)
CompositeOf(indices, column) ==
  SelectSeq(indices, LAMBDA i : Len(i.fields) # 1 /\ column \in ToSet(i.fields))

FieldDescription(name, pk, indices, outgoing, incoming, sample) ==
  [is |-> "field", name |-> name, pk |-> pk,
   exclusive |-> ExclusiveOf(indices, name),
   composite |-> CompositeOf(indices, name),
   outgoing |-> OutgoingOf(outgoing, name),
   incoming |-> IncomingOf(incoming, name),
   sample |-> sample]

\* A field of a store that has neither indexes on it nor keys.
PlainField(name, pk, sample) == FieldDescription(name, pk, <<>>, <<>>, <<>>, sample)

\* The first distinct values of a column that Wanted keeps.
FirstDistinct(rows, column, Wanted(_)) ==
  FoldLeft(LAMBDA seen, row :
             IF /\ Len(seen) < SampleSize
                /\ Wanted(row[column])
                /\ row[column] \notin ToSet(seen)
             THEN Append(seen, row[column]) ELSE seen,
           <<>>, rows)

\* build_column_samples, over the rows one scan of the table returned.
build_column_samples(rows, column) ==
  FirstDistinct(FirstOf(rows, ScanRows), column,
                LAMBDA v : v # Null /\ v \notin Unwritable)

\* A SELECT DISTINCT over the column: whatever is not null.
SelectedSample(rows, column) == FirstDistinct(rows, column, LAMBDA v : v # Null)
=============================================================================
