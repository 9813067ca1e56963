------------------------------ MODULE Neo4jTree ------------------------------
(***************************************************************************)
(* The object tree of drivers/neo4j.py: labels, relationship types, their  *)
(* properties, and the indexes.  A graph c has                             *)
(*   labels, types  the label and relationship type tokens;                *)
(*   nodes          [labels, properties] in the order a scan gives them;   *)
(*   relationships  [type, from, to, properties], from and to being the    *)
(*                  labels of the nodes it joins;                          *)
(*   indexes        [name, labels, properties, constraint];                *)
(*   slow           do the scans for samples take longer than a sample     *)
(*                  may?                                                   *)
(***************************************************************************)
EXTENDS ExploreAnswers

CONSTANT Quotable(_)   \* may the name stand between backticks?

FIND_PATHS == [label |-> <<<<"entities", "*">>>>,
               relationship_type |-> <<<<"relationships", "*">>>>,
               property |-> <<<<"entities", "*", "properties", "*">>,
                              <<"relationships", "*", "properties", "*">>>>,
               index |-> <<<<"indexes", "*">>>>]

NodesOf(c, label) == SelectSeq(c.nodes, LAMBDA n : label \in n.labels)
RelationshipsOf(c, type) == SelectSeq(c.relationships, LAMBDA r : r.type = type)

\* The names in the properties of things, nodes or relationships, and the rows
\* a scan of them becomes: None where one lacks a property.
PropertyNames(things) == UNION {DOMAIN x.properties : x \in ToSet(things)}
AsRows(things) ==
  MapSeq(things, LAMBDA x :
           [n \in PropertyNames(things) |->
              IF n \in DOMAIN x.properties THEN x.properties[n] ELSE Null])

_node_properties(c, label) == PropertyNames(NodesOf(c, label))
_relationship_properties(c, type) == PropertyNames(RelationshipsOf(c, type))

\* A scan that times out gives no samples; the first rows of one that does not.
Sample(c, things, name) ==
  IF c.slow THEN <<>> ELSE build_column_samples(AsRows(things), name)

FieldDescriptions(c, things) ==
  MapSeq(SetToSeq(PropertyNames(things)),
         LAMBDA n : PlainField(n, FALSE, Sample(c, things, n)))
FieldOf(c, things, name) ==
  IF name \in PropertyNames(things)
  THEN PlainField(name, FALSE, Sample(c, things, name)) ELSE Nothing

Connection(type, from, to) == [type |-> type, from |-> from, to |-> to]
ConnectionsOf(relationships) ==
  UNION {{Connection(r.type, from, to) : from \in r.from, to \in r.to} :
         r \in ToSet(relationships)}
_node_connections(c, label) ==
  ConnectionsOf(SelectSeq(c.relationships, LAMBDA r : label \in r.from \cup r.to))
_relationship_type_connections(c, type) == ConnectionsOf(RelationshipsOf(c, type))

GraphEntity(c, name, things, connections) ==
  [is |-> "entity", name |-> name, properties |-> FieldDescriptions(c, things),
   connections |-> connections]
_describe_node_entity(c, label) ==
  GraphEntity(c, label, NodesOf(c, label), _node_connections(c, label))
_describe_relationship_entity(c, type) ==
  GraphEntity(c, type, RelationshipsOf(c, type),
              _relationship_type_connections(c, type))

_spec_to_description(spec) ==
  IndexDescription(spec.name, spec.properties, spec.constraint, spec.labels, {})
_describe_all_indices(c) == MapSeq(c.indexes, _spec_to_description)
_describe_index(c, name) ==
  FirstSuch(_describe_all_indices(c), LAMBDA i : i.name = name)

-----------------------------------------------------------------------------
explore_list(c, p) ==
  CASE Matches(p, <<>>) -> Groups(<<"entities", "relationships", "indexes">>)
    [] p = <<"indexes">> ->
         Items(MapSeq(c.indexes, LAMBDA i : ExploreItem(i.name, "index")))
    [] p = <<"entities">> ->
         Items(SetToSeq({ExploreItem(n, "label") : n \in c.labels}))
    [] p = <<"relationships">> ->
         Items(SetToSeq({ExploreItem(n, "relationship_type") : n \in c.types}))
    [] Matches(p, <<"entities", "*">>) \/ Matches(p, <<"relationships", "*">>) ->
         Groups(<<"properties">>)
    [] Matches(p, <<"entities", "*", "properties">>) ->
         OrFailure(Quotable(p[2]),
           Items(SetToSeq({ExploreItem(n, "property") : n \in _node_properties(c, p[2])})))
    [] Matches(p, <<"relationships", "*", "properties">>) ->
         OrFailure(Quotable(p[2]),
           Items(SetToSeq({ExploreItem(n, "property") :
                             n \in _relationship_properties(c, p[2])})))
    [] OTHER -> NoItems

\* The names in an entity's queries stand between backticks; a field's type is
\* looked up by a parameter, its samples again by name.
explore_describe(c, p) ==
  CASE p = <<"indexes">> -> Listing(_describe_all_indices(c))
    [] Matches(p, <<"indexes", "*">>) -> _describe_index(c, p[2])
    [] Matches(p, <<"entities", "*">>) ->
         OrFailure(Quotable(p[2]), _describe_node_entity(c, p[2]))
    [] Matches(p, <<"entities", "*", "properties">>) ->
         OrFailure(Quotable(p[2]), Listing(FieldDescriptions(c, NodesOf(c, p[2]))))
    [] Matches(p, <<"entities", "*", "properties", "*">>) ->
         LET field == FieldOf(c, NodesOf(c, p[2]), p[4])
         IN  OrFailure(field = Nothing \/ Quotable(p[2]), field)
    [] Matches(p, <<"relationships", "*">>) ->
         OrFailure(Quotable(p[2]), _describe_relationship_entity(c, p[2]))
    [] Matches(p, <<"relationships", "*", "properties">>) ->
         OrFailure(Quotable(p[2]),
                   Listing(FieldDescriptions(c, RelationshipsOf(c, p[2]))))
    [] Matches(p, <<"relationships", "*", "properties", "*">>) ->
         LET field == FieldOf(c, RelationshipsOf(c, p[2]), p[4])
         IN  OrFailure(field = Nothing \/ Quotable(p[2]), field)
    [] OTHER -> Nothing

explore_preview(c, p) ==
  CASE Matches(p, <<"entities", "*">>) ->
         OrFailure(Quotable(p[2]), Rows(NodesOf(c, p[2])))
    [] Matches(p, <<"relationships", "*">>) ->
         OrFailure(Quotable(p[2]), Rows(RelationshipsOf(c, p[2])))
    [] OTHER -> Nothing
=============================================================================
