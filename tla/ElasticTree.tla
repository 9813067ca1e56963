----------------------------- MODULE ElasticTree -----------------------------
(***************************************************************************)
(* The object tree of drivers/elasticsearch.py: indices, the fields of     *)
(* their mappings, their aliases.  A cluster c has                         *)
(*   indices  [name, hidden (does the name start with a dot?), fields in   *)
(*            order, aliases].                                             *)
(* Aliases stand for indices in a request, but the answer is keyed by the  *)
(* index, and the driver looks it up by the name it asked with.            *)
(***************************************************************************)
EXTENDS ExploreAnswers

FIND_PATHS == [index |-> <<<<"*">>>>,
               field |-> <<<<"*", "mappings", "*">>>>,
               alias |-> <<<<"*", "aliases", "*">>>>]

IndexNamed(c, name) == {x \in c.indices : x.name = name}
HasIndex(c, name) == IndexNamed(c, name) # {}
TheIndex(c, name) == CHOOSE x \in IndexNamed(c, name) : TRUE
HasAlias(c, name) == \E x \in c.indices : name \in x.aliases

explore_list(c, p) ==
  CASE Matches(p, <<>>) ->
         Items(SetToSeq({ExploreItem(x.name, "index") : x \in {y \in c.indices : ~y.hidden}}))
    [] Matches(p, <<"*">>) -> Groups(<<"mappings", "aliases">>)
    [] Matches(p, <<"*", "mappings">>) ->
         IF HasIndex(c, p[1])
         THEN Items(MapSeq(TheIndex(c, p[1]).fields, LAMBDA f : ExploreItem(f, "type")))
         ELSE Failure
    [] Matches(p, <<"*", "aliases">>) ->
         CASE HasIndex(c, p[1]) ->
                Items(SetToSeq({ExploreItem(a, "alias") : a \in TheIndex(c, p[1]).aliases}))
           [] ~HasIndex(c, p[1]) /\ HasAlias(c, p[1]) -> NoItems
           [] OTHER -> Failure
    [] OTHER -> NoItems

explore_describe(c, p) ==
  IF ~Matches(p, <<"*">>) THEN Nothing
  ELSE IF ~HasIndex(c, p[1]) THEN Failure
  ELSE EntityDescription(p[1], MapSeq(TheIndex(c, p[1]).fields,
                                      LAMBDA f : PlainField(f, FALSE, <<>>)))
=============================================================================
