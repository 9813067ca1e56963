----------------------------- MODULE ExploreFind -----------------------------
(***************************************************************************)
(* explore.find and explore.describe over the object tree of a driver:     *)
(* the walk of explore_find.py along the driver's FIND_PATHS, one          *)
(* explore_list a step, while another session may change the database;     *)
(* and what the CachingDriver of explore_cache.py remembers of both.       *)
(*                                                                         *)
(* A description is read in one step here: the driver's queries for it are *)
(* not interleaved with changes.                                           *)
(***************************************************************************)
EXTENDS ExploreAnswers, FiniteSets

CONSTANTS Databases,     \* driver -> what its database holds, before and after
                         \* each change another session makes
          Searches,      \* driver -> the searches [type, name, scopes]
          MaxListCalls,  \* MAX_LIST_CALLS
          MaxFinds,      \* bound on the searches remembered
          MaxDescribes,  \* bound on the descriptions asked for
          Fold(_),       \* a name in lower case: str.casefold
          Upper(_), Bare(_), Routed(_), Main   \* see the drivers' trees

Sqlite     == INSTANCE SqliteTree
Duckdb     == INSTANCE DuckdbTree
SqlServer  == INSTANCE SqlServerTree
Postgres   == INSTANCE PostgresTree
Oracle     == INSTANCE OracleTree
Neo4j      == INSTANCE Neo4jTree WITH Quotable <- Bare
Mongo      == INSTANCE MongoTree
Elastic    == INSTANCE ElasticTree
Prometheus == INSTANCE PrometheusTree WITH Identifier <- Bare

Drivers == DOMAIN Databases
SqlDrivers == {"sqlite", "duckdb", "sqlserver", "postgres", "oracle"}

ASSUME FindAssumption ==
  /\ Drivers \subseteq SqlDrivers \cup {"neo4j", "mongo", "elastic", "prometheus"}
  /\ {MaxListCalls, MaxFinds, MaxDescribes} \subseteq Nat

VARIABLES driver,     \* the connection's driver
          version,    \* which of Databases[driver] the database holds
          search,     \* the search under way, or the last one
          outcome,    \* "idle", "searching", "found", "refused" or "failed"
          began,      \* history: the version when the search began
          pending,    \* the parts of the tree still to walk, in order
          left,       \* _Budget._left
          matches,    \* the paths matched so far
          finds,      \* the cache: key -> [paths, and when it was searched]
          memory,     \* the cache: path -> [answer, asOf: when it was read]
          described   \* how many descriptions the driver was asked for

vars == <<driver, version, search, outcome, began, pending, left, matches,
          finds, memory, described>>

-----------------------------------------------------------------------------
(* The drivers.                                                            *)

PathsOf(d) ==
  CASE d = "sqlite"    -> Sqlite!FIND_PATHS
    [] d = "duckdb"    -> Duckdb!FIND_PATHS
    [] d = "sqlserver" -> SqlServer!FIND_PATHS
    [] d = "postgres"  -> Postgres!FIND_PATHS
    [] d = "oracle"    -> Oracle!FIND_PATHS
    [] d = "neo4j"     -> Neo4j!FIND_PATHS
    [] d = "mongo"     -> Mongo!FIND_PATHS
    [] d = "elastic"   -> Elastic!FIND_PATHS
    [] d = "prometheus" -> Prometheus!FIND_PATHS

ListAt(d, v, p) ==
  LET c == Databases[d][v] IN
  CASE d = "sqlite"    -> Sqlite!explore_list(c, p)
    [] d = "duckdb"    -> Duckdb!explore_list(c, p)
    [] d = "sqlserver" -> SqlServer!explore_list(c, p)
    [] d = "postgres"  -> Postgres!explore_list(c, p)
    [] d = "oracle"    -> Oracle!explore_list(c, p)
    [] d = "neo4j"     -> Neo4j!explore_list(c, p)
    [] d = "mongo"     -> Mongo!explore_list(c, p)
    [] d = "elastic"   -> Elastic!explore_list(c, p)
    [] d = "prometheus" -> Prometheus!explore_list(c, p)

DescribeAt(d, v, p) ==
  LET c == Databases[d][v] IN
  CASE d = "sqlite"    -> Sqlite!explore_describe(c, p)
    [] d = "duckdb"    -> Duckdb!explore_describe(c, p)
    [] d = "sqlserver" -> SqlServer!explore_describe(c, p)
    [] d = "postgres"  -> Postgres!explore_describe(c, p)
    [] d = "oracle"    -> Oracle!explore_describe(c, p)
    [] d = "neo4j"     -> Neo4j!explore_describe(c, p)
    [] d = "mongo"     -> Mongo!explore_describe(c, p)
    [] d = "elastic"   -> Elastic!explore_describe(c, p)
    [] d = "prometheus" -> Prometheus!explore_describe(c, p)

PreviewAt(d, v, p) ==
  LET c == Databases[d][v] IN
  CASE d = "sqlite"    -> Sqlite!explore_preview(c, p)
    [] d = "duckdb"    -> Duckdb!explore_preview(c, p)
    [] d = "sqlserver" -> SqlServer!explore_preview(c, p)
    [] d = "postgres"  -> Postgres!explore_preview(c, p)
    [] d = "oracle"    -> Oracle!explore_preview(c, p)
    [] d = "neo4j"     -> Neo4j!explore_preview(c, p)
    [] d = "mongo"     -> Mongo!explore_preview(c, p)
    [] d = "elastic"   -> Nothing
    [] d = "prometheus" -> Prometheus!explore_preview(c, p)

\* Does the driver's explore_find answer, instead of raising FindNotSupported?
FindsItself(d, type) == d = "oracle" /\ Oracle!FindsItself(type)

-----------------------------------------------------------------------------
(* explore_find.py.                                                        *)

\* The names, in lower case, that the scopes allow at position i of a template:
\* those of the kinds declared to live exactly there.  None means any name.
_constraints(d, template, i, scopes) ==
  {Fold(s.name) : s \in {x \in scopes :
     /\ x.type \in DOMAIN PathsOf(d)
     /\ SubSeq(template, 1, i) \in ToSet(PathsOf(d)[x.type])}}

\* The next position of a walk to list: the last one, or a wildcard.  Literal
\* segments on the way are entered without asking whether they are there.
Position(w) ==
  CHOOSE i \in (Len(w.prefix) + 1)..Len(w.template) :
    /\ i = Len(w.template) \/ w.template[i] = "*"
    /\ \A j \in (Len(w.prefix) + 1)..(i - 1) : w.template[j] # "*"
Parent(w) == w.prefix \o SubSeq(w.template, Len(w.prefix) + 1, Position(w) - 1)
IsFinal(w) == Position(w) = Len(w.template)

NodesIn(listing) == SelectSeq(listing.of, LAMBDA x : x.type # "group")

MatchesExactly(w, listing, name) ==     \* faulty variant: no folding
  {Parent(w) \o <<x.name>> : x \in {y \in ToSet(NodesIn(listing)) : y.name = name}}
MatchesAt(w, listing, name) ==
  {Parent(w) \o <<x.name>> :
     x \in {y \in ToSet(NodesIn(listing)) : Fold(y.name) = Fold(name)}}

\* The walks below the children that the scopes allow.
Below(d, w, listing, scopes) ==
  LET allowed == _constraints(d, w.template, Position(w), scopes)
      kept == SelectSeq(NodesIn(listing),
                        LAMBDA x : allowed = {} \/ Fold(x.name) \in allowed)
  IN  MapSeq(kept, LAMBDA x : [w EXCEPT !.prefix = Parent(w) \o <<x.name>>])

_prefer_exact(paths, name) ==
  LET exact == {p \in paths : Last(p) = name} IN IF exact = {} THEN paths ELSE exact

\* find_key: scopes are folded and sorted, the name is kept as it is.
find_key(s) == <<s.type, s.name, {<<x.type, Fold(x.name)>> : x \in s.scopes}>>

Remember(paths) ==
  finds' = finds @@ (find_key(search') :> [paths |-> paths, began |-> began',
                                           ended |-> version])

-----------------------------------------------------------------------------
NoSearch == [type |-> Null, name |-> Null, scopes |-> {}]

Init ==
  /\ driver \in Drivers
  /\ version = 1
  /\ search = NoSearch /\ outcome = "idle" /\ began = 1
  /\ pending = <<>> /\ left = 0 /\ matches = {}
  /\ finds = <<>> /\ memory = <<>> /\ described = 0

\* DDL of another session.
Alter ==
  /\ version < Len(Databases[driver])
  /\ version' = version + 1
  /\ UNCHANGED <<driver, search, outcome, began, pending, left, matches,
                 finds, memory, described>>

\* Searches and descriptions do not read what the other has remembered: a
\* session here asks for the ones or for the others.
Ask(s) ==
  /\ outcome # "searching" /\ described = 0
  /\ search' = s
  /\ began' = version
  /\ UNCHANGED <<driver, version, memory, described>>

\* The answer is in the cache.
FindHit(s) ==
  /\ Ask(s)
  /\ find_key(s) \in DOMAIN finds
  /\ outcome' = "found"
  /\ UNCHANGED <<pending, left, matches, finds>>

FindMiss(s) ==
  /\ Ask(s)
  /\ find_key(s) \notin DOMAIN finds
  /\ Cardinality(DOMAIN finds) < MaxFinds

\* One query of the dictionary.
FindInDictionary(s) ==
  /\ FindMiss(s)
  /\ FindsItself(driver, s.type)
  /\ outcome' = "found"
  /\ Remember(Oracle!explore_find(Databases[driver][version], s.type, s.name, s.scopes))
  /\ UNCHANGED <<pending, left, matches>>

\* walk_find: every template of the kind, with one budget for all of them.
StartWalk(s) ==
  /\ FindMiss(s)
  /\ ~FindsItself(driver, s.type)
  /\ outcome' = "searching"
  /\ pending' = IF s.type \in DOMAIN PathsOf(driver)
                THEN MapSeq(PathsOf(driver)[s.type],
                            LAMBDA t : [template |-> t, prefix |-> <<>>])
                ELSE <<>>
  /\ left' = MaxListCalls
  /\ matches' = {}
  /\ UNCHANGED finds

Walking == outcome = "searching" /\ pending # <<>>
Walk    == Head(pending)
Listed  == ListAt(driver, version, Parent(Walk))

Ends(how) ==
  /\ outcome' = how
  /\ pending' = <<>>
  /\ UNCHANGED <<driver, version, search, began, left, matches, memory, described>>

\* The budget is used up: DriverError.
Refuse == Walking /\ left = 0 /\ Ends("refused") /\ UNCHANGED finds

\* explore_list raises, and the search with it.
ListFails == Walking /\ left > 0 /\ Listed = Failure /\ Ends("failed") /\ UNCHANGED finds

ListChildren ==
  /\ Walking /\ left > 0 /\ Listed # Failure
  /\ left' = left - 1
  /\ UNCHANGED <<driver, version, search, outcome, began, finds, memory, described>>

Expand ==
  /\ ListChildren
  /\ ~IsFinal(Walk)
  /\ pending' = Below(driver, Walk, Listed, search.scopes) \o Tail(pending)
  /\ UNCHANGED matches

Match ==
  /\ ListChildren
  /\ IsFinal(Walk)
  /\ matches' = matches \cup MatchesAt(Walk, Listed, search.name)
  /\ pending' = Tail(pending)

EndWalk ==
  /\ outcome = "searching" /\ pending = <<>>
  /\ Ends("found")
  /\ Remember(_prefer_exact(matches, search.name))

-----------------------------------------------------------------------------
(* CachingDriver.explore_describe: an answer is stored under its path, and *)
(* the parts of it under theirs.                                           *)

LastSuch(s, Test(_)) == FirstSuch(Reverse(s), Test)

\* Of the references of one column, each overwrites the one before.
ReferencesIn(fields) == UNION {ToSet(f.outgoing) : f \in ToSet(fields)}
ByTheirTarget(p, fields) ==             \* faulty variant: the other column
  [q \in {p \o <<"relationships", r.refColumn>> : r \in ReferencesIn(fields)} |->
     CHOOSE r \in ReferencesIn(fields) : r.refColumn = Last(q)]
ByTheirColumn(p, fields) ==
  [q \in {p \o <<"relationships", r.column>> : r \in ReferencesIn(fields)} |->
     LastSuch((CHOOSE f \in ToSet(fields) : f.name = Last(q)).outgoing,
              LAMBDA r : r.column = Last(q))]

ByTheirName(p, parts) ==
  [q \in {p \o <<x.name>> : x \in ToSet(parts)} |->
     LastSuch(parts, LAMBDA x : x.name = Last(q))]

Entries(p, answer) ==
  (IF answer.is = "entity"
   THEN ByTheirName(p \o <<"columns">>, answer.properties)
          @@ ByTheirColumn(p, answer.properties)
   ELSE IF answer.is = "list" THEN ByTheirName(p, answer.of) ELSE <<>>)
  @@ (p :> answer)

\* A path in the cache is answered from there; None and errors are not kept.
Describe(p) ==
  LET answer == DescribeAt(driver, version, p)
  IN  /\ p \notin DOMAIN memory
      /\ described < MaxDescribes /\ outcome = "idle"
      /\ described' = described + 1
      /\ memory' = IF answer \in {Nothing, Failure} THEN memory
                   ELSE LET new == Entries(p, answer)
                        IN  [q \in DOMAIN new |-> [answer |-> new[q], asOf |-> version]]
                              @@ memory
      /\ UNCHANGED <<driver, version, search, outcome, began, pending, left,
                     matches, finds>>

\* Every path explore.list shows, in each version of each database.
Children(d, v, p) ==
  LET listing == ListAt(d, v, p)
  IN  IF listing = Failure THEN {} ELSE {p \o <<x.name>> : x \in ToSet(listing.of)}
Trees ==
  [d \in Drivers |-> [v \in DOMAIN Databases[d] |->
     FoldSet(LAMBDA level, ps : ps \cup UNION {Children(d, v, p) : p \in ps},
             {<<>>}, 1..4) \ {<<>>}]]
TreeAt(v) == Trees[driver][v]

Next ==
  \/ Alter
  \/ \E s \in Searches[driver] : FindHit(s) \/ FindInDictionary(s) \/ StartWalk(s)
  \/ Refuse \/ ListFails \/ Expand \/ Match \/ EndWalk
  \/ \E p \in TreeAt(version) : Describe(p)

Spec == Init /\ [][Next]_vars

-----------------------------------------------------------------------------
(* What a search should find, told without FIND_PATHS: by what explore.list *)
(* says each node is.                                                       *)

\* A column or field is listed with its data type, an index of some drivers with
\* its method, a table of SQL Server's as a base table.  Tables and views are looked
\* for together, as oracle/driver.py 682-684 says.
IsKind(listed, kind) ==
  \/ listed = kind
  \/ {listed, kind} \subseteq {"table", "base table", "view"}
  \/ listed = "type" /\ kind \in {"column", "field"}
  \/ listed = "method" /\ kind = "index"

TypesOf(v, p) ==
  {x.type : x \in {y \in ToSet(ListAt(driver, v, Front(p)).of) : y.name = Last(p)}}
IsNode(v, p, kind) == \E t \in TypesOf(v, p) : IsKind(t, kind)

\* A metric is looked for among the metrics, not again among those of a job.
Searched(p) == (driver = "prometheus" /\ Len(p) > 2) => p[1] # "jobs"

SameName(listed, name) == Fold(listed) = Fold(name)

\* Oracle's dictionary is asked for a name as it is written and in upper case, and
\* the names of a path are looked up in upper case: the tree ends at a table stored
\* under a name of another case, though its columns can be found.
Upright(p) == driver = "oracle" => \A i \in DOMAIN p \ {3} : p[i] = Upper(p[i])

\* Each node above p that is of a kind some scope is about has the name of one.
InScope(v, p, scopes) ==
  \A i \in 1..(Len(p) - 1) :
    LET about == {s \in scopes : IsNode(v, SubSeq(p, 1, i), s.type)}
    IN  about = {} \/ \E s \in about : SameName(p[i], s.name)

Wanted(v, s) ==
  {p \in TreeAt(v) : /\ SameName(Last(p), s.name)
                     /\ IsNode(v, p, s.type)
                     /\ Searched(p) /\ InScope(v, p, s.scopes)}

\* The base objects of Oracle's synonyms are found by the synonyms' names.
BySynonym(v, s) ==
  IF driver = "oracle" /\ s.type \in {"table", "view"}
  THEN {<<y.schema, y.table>> :
          y \in {x \in Databases[driver][v].synonyms : SameName(x.name, s.name)}}
  ELSE {}

Throughout(versions, Of(_)) ==
  {p \in UNION {Of(v) : v \in versions} : \A v \in versions : p \in Of(v)}

\* Whatever search an answer in the cache is given to, in whatever case its
\* scopes are written, it names only nodes that were in the tree while it was
\* searched, and all of those that were there throughout, save that exact
\* matches push out others: walk_find and find_key, with other sessions
\* changing the tree between two of the walk's calls.  Oracle's dictionary is
\* held to it for the names it stores in upper case: of a scope on another name it
\* looks for no other spelling, and two searches whose scopes differ in case share
\* an entry (explore_cache.py 195) with answers that may differ.
FindIsExact ==
  \A s \in {x \in Searches[driver] : find_key(x) \in DOMAIN finds} :
    LET found    == finds[find_key(s)]
        versions == found.began..found.ended
        Exact(p) == Last(p) = s.name
    IN  /\ {p \in found.paths : Upright(p)} \subseteq
             UNION {Wanted(v, s) \cup BySynonym(v, s) : v \in versions}
        /\ \A p \in Throughout(versions, LAMBDA v : Wanted(v, s)) : Upright(p) =>
             p \in found.paths \/ (~Exact(p) /\ \E q \in found.paths : Exact(q))

-----------------------------------------------------------------------------
(* What the cache holds.                                                   *)

\* Kinds of node that a driver describes at all.
DescribedKinds ==
  CASE driver \in SqlDrivers -> {"table", "view", "column", "index"}
    [] driver = "neo4j"      -> {"label", "relationship_type", "property", "index"}
    [] driver = "mongo"      -> {"index", "gridfs_bucket"}
    [] driver = "elastic"    -> {"index"}
    [] driver = "prometheus" -> {"metric", "label", "job"}

\* Names that a driver's description queries can hold.  A name that is no bare
\* word spoils SQLite's descriptions of every table; Oracle looks a name of the
\* tree up in upper case, and an index among those of its table's owner.
Sound(v, p) ==
  CASE driver = "sqlite" ->
         /\ \A x \in Databases[driver][v].tables : Bare(x.name)
         /\ \A i \in ToSet(Databases[driver][v].indexes) : Bare(i.name)
    [] driver = "oracle" ->
         /\ Upright(p)
         /\ (Len(p) = 4 /\ p[3] = "indexes") =>
              \E i \in ToSet(Databases[driver][v].indexes) :
                i.owner = p[1] /\ i.name = p[4]
    [] driver \in {"neo4j", "prometheus"} -> \A i \in DOMAIN p : Bare(p[i])
    [] OTHER -> TRUE

\* Not None, no error, not the empty entity that a table which is not there is
\* described as; and about the node the path names.
Describes(v, p) ==
  LET answer == DescribeAt(driver, v, p)
  IN  /\ answer \notin {Nothing, Failure}
      /\ answer.is # "list" => answer.name = Last(p)
      /\ answer.is = "entity" => answer.properties # <<>>

\* A path that explore.find returned can be handed to explore.describe, as
\* explore_find.py says of it, and shows rows where the driver has previews of
\* such a node.
FoundIsDescribed ==
  \A s \in {x \in Searches[driver] : find_key(x) \in DOMAIN finds} :
    LET found == finds[find_key(s)]
    IN  (found.began = found.ended /\ s.type \in DescribedKinds) =>
          \A p \in found.paths : Sound(found.ended, p) =>
            /\ Describes(found.ended, p)
            /\ (s.type \in {"table", "view", "relationship_type"} =>
                  PreviewAt(driver, found.ended, p).is = "rows")

\* Descriptions that differ in their samples alone.
SansSample(answer) ==
  IF answer.is = "field" THEN [answer EXCEPT !.sample = <<>>] ELSE answer

\* References that a path of the tree is not told apart by: a second key of a
\* column takes the first one's place.
KeysOf(v, p) ==
  LET entity == DescribeAt(driver, v, SubSeq(p, 1, Len(p) - 2))
      named  == FirstSuch(entity.properties, LAMBDA f : f.name = Last(p))
  IN  named.outgoing

\* What the cache answers for a path, whether it was asked for there or came
\* along with something above it, is what the driver would have answered for
\* that path; the samples of a field may be others.  Neo4j's properties and
\* Prometheus's targets come along under paths that no listing shows.
RememberedIsTrue ==
  \A p \in DOMAIN memory :
    LET kept == memory[p].answer
        own  == DescribeAt(driver, memory[p].asOf, p)
    IN  \/ SansSample(kept) = SansSample(own)
        \/ (kept.is = "relationship" /\ Len(KeysOf(memory[p].asOf, p)) > 1)
        \/ (kept.is # "relationship" /\ p \notin TreeAt(memory[p].asOf))
        \/ ~Sound(memory[p].asOf, p)

\* A key between two tables, as both their descriptions tell it.  SQLite tells a
\* name as its DDL or the path spells it, and a key that leaves the referenced
\* column out shows no column of the other side.
SpelledAlike(r) ==
  IF driver = "sqlite"
  THEN [r EXCEPT !.table = Fold(@), !.refTable = Fold(@)] ELSE r
KeysTold(entity, Side(_)) ==
  {SpelledAlike(r) : r \in {x \in UNION {ToSet(Side(f)) : f \in ToSet(entity.properties)} :
                              x.refColumn # Null}}
IsEntity(p) == memory[p].answer.is = "entity"

\* Two tables described from the same state of the database agree on the keys
\* from one to the other, and on which of them are unique: the diagram and the
\* client join what the two sides say.
KeysSeenFromBothEnds ==
  \A p, q \in {x \in DOMAIN memory : IsEntity(x)} :
    (driver \in SqlDrivers /\ p # q /\ memory[p].asOf = memory[q].asOf) =>
      LET from == memory[p].answer
          into == memory[q].answer
          Joins(r) == /\ Fold(r.table) = Fold(Last(p))
                      /\ Fold(r.refTable) = Fold(Last(q))
                      /\ Len(p) > 1 => r.schema = p[1] /\ r.refSchema = q[1]
      IN  {r \in KeysTold(from, LAMBDA f : f.outgoing) : Joins(r)} =
          {r \in KeysTold(into, LAMBDA f : f.incoming) : Joins(r)}
=============================================================================
