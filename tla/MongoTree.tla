------------------------------ MODULE MongoTree ------------------------------
(***************************************************************************)
(* The object tree of drivers/mongodb.py: databases, their collections     *)
(* with fields and indexes, and the GridFS buckets, each told by the       *)
(* collection <bucket>.files that backs it.  A deployment c has            *)
(*   databases    their names;                                             *)
(*   collections  [db, name, bucket and part (what the name is made of if  *)
(*                it ends in .files or .chunks, else Null), documents,     *)
(*                indexes, in the order of their names].                   *)
(* No collection here has more than ten documents, so that a $sample of    *)
(* ten is all of them.                                                     *)
(***************************************************************************)
EXTENDS ExploreAnswers, FiniteSets

CONSTANT Routed(_)   \* the bucket a find of gridfs.<bucket> is about, or Null

FIND_PATHS == [database |-> <<<<"*">>>>,
               collection |-> <<<<"*", "*">>>>,
               field |-> <<<<"*", "*", "fields", "*">>>>,
               index |-> <<<<"*", "*", "indexes", "*">>>>,
               gridfs_bucket |-> <<<<"*", "gridfs", "*">>>>]

CollectionsOf(c, db) == {x \in c.collections : x.db = db}
CollectionNamed(c, db, name) == {x \in CollectionsOf(c, db) : x.name = name}
TheOf(found, none, Value(_)) ==
  IF found = {} THEN none ELSE Value(CHOOSE x \in found : TRUE)

DocumentsOf(c, db, name) ==
  TheOf(CollectionNamed(c, db, name), <<>>, LAMBDA x : x.documents)
IndexInformation(c, db, name) ==
  TheOf(CollectionNamed(c, db, name), <<>>, LAMBDA x : x.indexes)

_gridfs_buckets(collections) ==
  {x.bucket : x \in {y \in collections : y.part = ".files"}}
_is_gridfs_internal(x, buckets) == x.part # Null /\ x.bucket \in buckets

_sample_fields(c, db, name) ==
  UNION {DOMAIN d : d \in ToSet(DocumentsOf(c, db, name))}

_spec_to_index_description(spec, collection) ==
  IndexDescription(spec.name, spec.fields, spec.unique, collection, {})
DescribedIndexes(c, db, name) ==
  MapSeq(IndexInformation(c, db, name),
         LAMBDA spec : _spec_to_index_description(spec, name))

\* The documents of the collection that backs a bucket, one for each file.
FilesOf(c, db, bucket) ==
  TheOf({x \in CollectionsOf(c, db) : x.bucket = bucket /\ x.part = ".files"},
        <<>>, LAMBDA x : x.documents)
_describe_gridfs_bucket(c, db, bucket) ==
  [is |-> "record", name |-> bucket, files |-> Len(FilesOf(c, db, bucket))]

\* A find of ten: of a bucket's files if the name is one that is routed there.
_find(c, db, name) ==
  Rows(IF Routed(name) = Null THEN DocumentsOf(c, db, name)
       ELSE FilesOf(c, db, Routed(name)))

-----------------------------------------------------------------------------
\* A collection that is itself called gridfs is hidden by the group.
explore_list(c, p) ==
  CASE Matches(p, <<>>) ->
         Items(SetToSeq({ExploreItem(n, "database") : n \in c.databases}))
    [] Matches(p, <<"*">>) ->
         LET buckets == _gridfs_buckets(CollectionsOf(c, p[1]))
             shown   == {x \in CollectionsOf(c, p[1]) : ~_is_gridfs_internal(x, buckets)}
         IN  Items(SetToSeq({ExploreItem(x.name, "collection") : x \in shown})
                   \o (IF buckets = {} THEN <<>> ELSE <<ExploreItem("gridfs", "group")>>))
    [] Matches(p, <<"*", "gridfs">>) ->
         Items(SetToSeq({ExploreItem(b, "gridfs_bucket") :
                           b \in _gridfs_buckets(CollectionsOf(c, p[1]))}))
    [] Len(p) = 2 /\ p[2] # "gridfs" -> Groups(<<"fields", "indexes">>)
    [] Matches(p, <<"*", "*", "fields">>) ->
         Items(SetToSeq({ExploreItem(f, "field") : f \in _sample_fields(c, p[1], p[2])}))
    [] Matches(p, <<"*", "*", "indexes">>) ->
         Items(MapSeq(IndexInformation(c, p[1], p[2]),
                      LAMBDA i : ExploreItem(i.name, "index")))
    [] OTHER -> NoItems

\* A bucket called indexes is described as the indexes of a collection gridfs.
explore_describe(c, p) ==
  CASE Matches(p, <<"*", "*", "indexes">>) -> Listing(DescribedIndexes(c, p[1], p[2]))
    [] Matches(p, <<"*", "*", "indexes", "*">>) ->
         FirstSuch(DescribedIndexes(c, p[1], p[2]), LAMBDA i : i.name = p[4])
    [] Matches(p, <<"*", "gridfs", "*">>) /\ p[3] # "indexes" ->
         _describe_gridfs_bucket(c, p[1], p[3])
    [] OTHER -> Nothing

explore_preview(c, p) ==
  CASE Matches(p, <<"*", "*">>) -> _find(c, p[1], p[2])
    [] Matches(p, <<"*", "gridfs", "*">>) -> Rows(FilesOf(c, p[1], p[3]))
    [] OTHER -> Nothing
=============================================================================
