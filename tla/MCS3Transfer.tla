----------------------------- MODULE MCS3Transfer -----------------------------
EXTENDS S3Transfer

MCRank == [x \in {"/", "2", "a", "b", "d", "e", "f", "g"} |->
             CASE x = "/" -> 1 [] x = "2" -> 2 [] x = "a" -> 3 [] x = "b" -> 4
               [] x = "d" -> 5 [] x = "e" -> 6 [] x = "f" -> 7 [] x = "g" -> 8]

Key(b, k) == Spot(b, k)
File(p) == Spot(Disk, p)
Holding(spots) == [x \in spots |-> x]       \* every content is its own

\* A prefix with two objects and one that the shorter prefix also takes; a target
\* that exists; local files at two depths.  Then the same with the marker object
\* of a folder, and with keys that go to one target.
Plain == {Key("b1", <<"d", "/", "a">>), Key("b1", <<"d", "/", "b">>),
          Key("b1", <<"d", "2">>), Key("b2", <<"e", "/", "a">>),
          File(<<(<<"f">>), (<<"a">>)>>), File(<<(<<"f">>), (<<"g">>), (<<"b">>)>>)}
MCStores == {Holding(Plain),
             Holding(Plain \cup {Key("b1", <<"d", "/">>), Key("b1", <<"d", "2", "/", "a">>)}),
             Holding((Plain \ {Key("b1", <<"d", "2">>)})
                     \cup {Key("b1", <<"d", "/", "/", "a">>), Key("b1", <<"d", "a">>)})}

Cmd(verb, src, dst, recursive, pattern) ==
  [verb |-> verb, src |-> src, dst |-> dst, recursive |-> recursive, pattern |-> pattern]
Trees ==        \* source and destination of a recursive command
  {<<Key("b1", <<"d", "/">>), Key("b2", <<"e">>)>>,
   <<Key("b1", <<"d">>), Key("b1", <<"e", "/">>)>>,
   <<Key("b1", <<"d", "/">>), Key("b1", <<"d", "/", "e">>)>>,
   <<Key("b1", <<>>), Key("b2", <<>>)>>,
   <<Key("b1", <<"d", "/">>), File(<<(<<"g">>)>>)>>,
   <<Key("b1", <<"d", "/">>), File(<<(<<"f">>)>>)>>,
   <<File(<<(<<"f">>)>>), Key("b1", <<"d", "/">>)>>,
   <<File(<<(<<"g">>)>>), Key("b1", <<>>)>>}
Singles ==
  {<<Key("b1", <<"d", "/", "a">>), Key("b2", <<"e", "/">>)>>,
   <<Key("b1", <<"d", "/", "a">>), Key("b1", <<"d", "/">>)>>,
   <<Key("b1", <<"e">>), Key("b2", <<>>)>>,
   <<Key("b1", <<"d", "/", "a">>), File(<<(<<"f">>)>>)>>,
   <<Key("b1", <<"d", "/", "a">>), File(<<(<<"g">>)>>)>>,
   <<File(<<(<<"f">>), (<<"a">>)>>), Key("b2", <<"e", "/">>)>>,
   <<File(<<(<<"f">>)>>), Key("b2", <<"e">>)>>}
MCCommands ==
  {Cmd(v, p[1], p[2], TRUE, g) : v \in {"cp", "mv"}, p \in Trees, g \in {None, "a"}}
  \cup {Cmd(v, p[1], p[2], FALSE, None) : v \in {"cp", "mv"}, p \in Singles}
  \cup {Cmd("rm", Key("b1", k), None, r, g) :
          k \in {<<"d", "/">>, <<"d">>, <<"d", "/", "a">>}, r \in BOOLEAN, g \in {None, "a"}}

MCOtherSpots ==
  {Key("b1", <<"d", "/", "a">>), Key("b1", <<"d", "/", "e", "/", "a">>),
   Key("b2", <<"e", "/", "b">>), File(<<(<<"f">>), (<<"a">>)>>),
   File(<<(<<"g">>), (<<"b">>)>>)}
=============================================================================
