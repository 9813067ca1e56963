---------------------------- MODULE MCExploreFind ----------------------------
EXTENDS ExploreFind, TLC

\* Names: the upper case ones are those of Lower, the lower case ones its values.
Lower == [ORDERS |-> "orders", CUSTS |-> "custs", Orders |-> "orders",
          HR |-> "hr", V |-> "v", MIXED |-> "mixed", SYS |-> "sys", ID |-> "id", CUST |-> "cust", IX |-> "ix",
          SYN |-> "syn", Mixed |-> "mixed", Person |-> "person"]
Raised == [orders |-> "ORDERS", custs |-> "CUSTS", Orders |-> "ORDERS", hr |-> "HR",
           id |-> "ID", cust |-> "CUST", ix |-> "IX", syn |-> "SYN", Mixed |-> "MIXED",
           columns |-> "COLUMNS", indexes |-> "INDEXES", indices |-> "INDICES",
           boss |-> "BOSS"]
MCFold(n)   == IF n \in DOMAIN Lower THEN Lower[n] ELSE n
MCUpper(n)  == IF n \in DOMAIN Raised THEN Raised[n] ELSE n
MCBare(n)   == n \notin {"my-table", "a.b"}
MCRouted(n) == IF n = "gridfs.fs" THEN "fs" ELSE Null

Table(s, t, kind, columns, pk, rows) ==
  [schema |-> s, name |-> t, kind |-> kind, columns |-> columns, pk |-> pk,
   rows |-> rows, slow |-> FALSE]
Index(s, t, name, keys, unique, constraint) ==
  [owner |-> s, schema |-> s, table |-> t, name |-> name, keys |-> keys,
   included |-> {}, unique |-> unique, constraint |-> constraint]
Key(s, t, column, refSchema, refTable, refColumn) ==
  [schema |-> s, table |-> t, column |-> column, refSchema |-> refSchema,
   refTable |-> refTable, refColumn |-> refColumn]

\* Two tables joined by keys, one of them from a unique column; a key of the
\* table to itself; indexes alone and composite; a value that has no JSON.
Orders(s, t) ==
  Table(s, t, "table", <<"id", "cust", "boss">>, {"id"},
        <<[id |-> "1", cust |-> "1", boss |-> Null], [id |-> "2", cust |-> "lob", boss |-> "1"],
          [id |-> "3", cust |-> "1", boss |-> "1"]>>)
Custs(s, t) ==
  Table(s, t, "table", <<"id", "cust">>, {"id"}, <<[id |-> "1", cust |-> "1"]>>)
View(s) ==
  [Table(s, "v", "view", <<"id">>, {}, <<[id |-> "1"]>>) EXCEPT !.slow = TRUE]
OrdersIndexes(s, t) ==
  <<Index(s, t, "ix", <<"cust">>, TRUE, TRUE),
    Index(s, t, "ix2", <<"cust", "id">>, FALSE, FALSE),
    Index(s, t, "pk", <<"id">>, TRUE, TRUE)>>

Dictionary(schemas, tables, indexes, keys) ==
  [schemas |-> schemas, tables |-> tables, indexes |-> indexes, keys |-> keys,
   synonyms |-> {}]

\* SQLite: keys as the DDL spells them, one without the referenced column; then
\* a table whose name needs quotes.
SqliteBefore ==
  Dictionary({"main"}, {Orders("main", "Orders"), Custs("main", "custs")},
             OrdersIndexes("main", "Orders"),
             <<Key("main", "Orders", "cust", "main", "CUSTS", "id"),
               Key("main", "Orders", "cust", "main", "Orders", "id"),
               Key("main", "Orders", "boss", "main", "orders", "id"),
               Key("main", "custs", "cust", "main", "orders", Null)>>)
SqliteAfter == [SqliteBefore EXCEPT !.tables = @ \cup {Custs("main", "my-table")}]

\* Two schemas with a table of one name in each; a key that crosses them where
\* the store allows it; then another session renames one of the tables.
SchemasBefore(crossing) ==
  Dictionary({"hr", "aux"},
    {Orders("hr", "orders"), Custs("hr", "custs"), View("hr"), Orders("aux", "orders")},
    OrdersIndexes("hr", "orders"),
    <<Key("hr", "orders", "cust", "hr", "custs", "id"),
      Key("hr", "orders", "id", "hr", "custs", "id"),
      Key("hr", "orders", "boss", "hr", "orders", "id")>> \o crossing)
Crossing == <<Key("aux", "orders", "cust", "hr", "custs", "id")>>
SchemasAfter(crossing) ==
  LET c == SchemasBefore(crossing)
  IN  [c EXCEPT !.tables = (@ \ {Custs("hr", "custs")}) \cup {Custs("hr", "Orders")},
                !.keys = <<Key("hr", "orders", "cust", "hr", "Orders", "id")>>]

\* Oracle: names in upper case, one that is not, an index in another schema
\* than its table, and synonyms: one of them for a synonym, which is passed by.
OracleTable(t) ==
  Table("HR", t, "table", <<"ID", "CUST">>, {"ID"},
        <<[ID |-> "1", CUST |-> "1"], [ID |-> "2", CUST |-> "lob"], [ID |-> "3", CUST |-> "1"]>>)
OracleBefore ==
  [schemas |-> {"HR"}, tables |-> {OracleTable("ORDERS"), OracleTable("CUSTS"),
                                   OracleTable("Mixed")},
   indexes |-> <<Index("HR", "ORDERS", "IX", <<"CUST">>, TRUE, TRUE),
                 [Index("HR", "ORDERS", "IX2", <<"CUST", "ID">>, FALSE, FALSE)
                    EXCEPT !.owner = "SYS"]>>,
   keys |-> <<Key("HR", "ORDERS", "CUST", "HR", "CUSTS", "ID"),
              Key("HR", "CUSTS", "CUST", "HR", "ORDERS", "ID")>>,
   synonyms |-> {[owner |-> "PUBLIC", name |-> "SYN", schema |-> "HR", table |-> "CUSTS"],
                 [owner |-> "HR", name |-> "SYN2", schema |-> "PUBLIC", table |-> "SYN"]}]
OracleAfter == [OracleBefore EXCEPT !.tables = @ \ {OracleTable("CUSTS")},
                                    !.keys = <<>>]

GraphBefore ==
  [labels |-> {"Person", "Item", "a.b"}, types |-> {"BOUGHT"},
   nodes |-> <<[labels |-> {"Person"}, properties |-> [id |-> "1", age |-> "lob"]],
               [labels |-> {"Item"}, properties |-> [id |-> "2"]],
               [labels |-> {"a.b"}, properties |-> [id |-> "3"]]>>,
   relationships |-> <<[type |-> "BOUGHT", from |-> {"Person"}, to |-> {"Item"},
                        properties |-> [id |-> "4"]]>>,
   indexes |-> <<[name |-> "ix", labels |-> {"Person"}, properties |-> <<"id">>,
                  constraint |-> TRUE]>>,
   slow |-> FALSE]
GraphAfter == [GraphBefore EXCEPT !.labels = @ \ {"a.b"}, !.nodes = FirstOf(@, 2)]

Collection(db, name, bucket, part) ==
  [db |-> db, name |-> name, bucket |-> bucket, part |-> part,
   documents |-> <<[id |-> "1"], [id |-> "2", age |-> "3"]>>,
   indexes |-> <<[name |-> "ix", fields |-> <<"id">>, unique |-> FALSE]>>]
MongoBefore ==
  [databases |-> {"hr", "aux"},
   collections |-> {Collection("hr", "orders", Null, Null),
                    Collection("hr", "fs.files", "fs", ".files"),
                    Collection("hr", "fs.chunks", "fs", ".chunks"),
                    Collection("aux", "log.chunks", "log", ".chunks"),
                    Collection("aux", "Orders", Null, Null)}]
MongoAfter == [MongoBefore EXCEPT !.collections =
                 @ \ {Collection("hr", "fs.files", "fs", ".files")}]

ElasticBefore ==
  [indices |-> {[name |-> "orders", hidden |-> FALSE, fields |-> <<"id", "cust">>,
                 aliases |-> {"custs"}],
                [name |-> ".sys", hidden |-> TRUE, fields |-> <<"id">>, aliases |-> {}]}]
ElasticAfter == [ElasticBefore EXCEPT !.indices =
  {[name |-> "custs", hidden |-> FALSE, fields |-> <<"id">>, aliases |-> {}]}]

MetricsBefore ==
  [series |-> {[name |-> "up", labels |-> [job |-> "node", id |-> "a"]],
               [name |-> "up", labels |-> [job |-> "node", id |-> "b"]],
               [name |-> "orders", labels |-> [job |-> "app"]]},
   targets |-> <<[job |-> "node", instance |-> "a:1", metrics |-> 1, samples |-> 1,
                  error |-> FALSE],
                 [job |-> "node", instance |-> "b:1", metrics |-> 1, samples |-> 1,
                  error |-> TRUE]>>,
   slow |-> FALSE, mode |-> "instant"]
MetricsAfter == [MetricsBefore EXCEPT !.series =
  @ \cup {[name |-> "a.b", labels |-> [job |-> "app"]]}]

MCDatabases ==
  [sqlite |-> <<SqliteBefore, SqliteAfter>>,
   duckdb |-> <<SchemasBefore(<<>>), SchemasAfter(<<>>)>>,
   sqlserver |-> <<SchemasBefore(Crossing), SchemasAfter(Crossing)>>,
   postgres |-> <<SchemasBefore(Crossing), SchemasAfter(Crossing)>>,
   oracle |-> <<OracleBefore, OracleAfter>>,
   neo4j |-> <<GraphBefore, GraphAfter>>,
   mongo |-> <<MongoBefore, MongoAfter>>,
   elastic |-> <<ElasticBefore, ElasticAfter>>,
   prometheus |-> <<MetricsBefore, MetricsAfter>>]

\* Each kind by some names, without a scope, with the right one, with one in
\* another case, with alternatives, and with one of a kind that is not there.
For(kinds, names, scopes) ==
  [type : kinds, name : names, scopes : scopes]
Scope(name, type) == [name |-> name, type |-> type]

SqlSearches ==
  For({"schema", "table", "view", "nonsense"}, {"HR", "orders", "Orders", "v"},
      {{}, {Scope("hr", "schema")}, {Scope("HR", "schema")}})
  \cup For({"column", "index"}, {"ID", "ix"},
           {{}, {Scope("hr", "schema"), Scope("ORDERS", "table")},
            {Scope("HR", "schema"), Scope("orders", "table"), Scope("job", "job")},
            {Scope("hr", "schema"), Scope("aux", "schema"), Scope("v", "view")},
            {Scope("hr", "schema"), Scope("orders", "table"), Scope("v", "view")},
            {Scope("HR", "schema"), Scope("ORDERS", "table"), Scope("V", "view")}})

MCSearches ==
  [sqlite |-> For({"table", "column", "index", "schema"}, {"orders", "Orders", "ID", "ix"},
                  {{}, {Scope("orders", "table")}, {Scope("Orders", "table")}}),
   duckdb |-> SqlSearches, sqlserver |-> SqlSearches, postgres |-> SqlSearches,
   oracle |-> For({"schema", "table", "column", "index"},
                  {"hr", "orders", "syn", "SYN2", "Mixed", "ID", "ix", "IX2"},
                  {{}, {Scope("hr", "schema")}, {Scope("HR", "schema")},
                   {Scope("HR", "schema"), Scope("orders", "view")},
                   {Scope("Mixed", "table")}, {Scope("MIXED", "table")}}),
   neo4j |-> For({"label", "relationship_type", "property", "index"},
                 {"person", "BOUGHT", "id", "ix"},
                 {{}, {Scope("person", "label")},
                  {Scope("Person", "label"), Scope("none", "relationship_type")}}),
   mongo |-> For({"database", "collection", "field", "index", "gridfs_bucket"},
                 {"hr", "orders", "fs", "fs.files", "log.chunks", "id", "ix"},
                 {{}, {Scope("HR", "database")}, {Scope("hr", "database")},
                  {Scope("orders", "collection")}, {Scope("Orders", "collection")}}),
   elastic |-> For({"index", "field", "alias"}, {"ORDERS", ".sys", "id", "custs"},
                   {{}, {Scope("Orders", "index")}, {Scope("orders", "index")}}),
   prometheus |-> For({"metric", "label", "job"}, {"up", "a.b", "id", "node"},
                      {{}, {Scope("up", "metric")}})]
=============================================================================
