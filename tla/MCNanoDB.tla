------------------------------ MODULE MCNanoDB ------------------------------
(* A small instance of NanoDB for TLC. *)
EXTENDS NanoDB

num(v) == [t |-> "num", v |-> v]
str(v) == [t |-> "str", v |-> v]
bool(v) == [t |-> "bool", v |-> v]
dict(f) == [nested |-> f]

\* One with two nested keys, one equal to it in a sort key, one that is not nested,
\* one that lacks a required key.
MCInserts == {[id |-> str(0), a |-> num(1), n |-> dict([x |-> num(0), y |-> str(1)])],
              [id |-> str(1), a |-> bool(1), _id |-> num(0), n |-> dict([x |-> num(1)])],
              [id |-> str(1), a |-> num(0), n |-> str(0)],
              [id |-> str(0)]}

Comparisons == [key : {"a", "id"}, op : {"$eq", "$ne", "$gt", "$gte", "$lt", "$lte"}, values : {{num(1)}, {str(1)}}]
AIn == [key |-> "a", op |-> "$in", values |-> {num(1), str(1)}]
AIs == [key |-> "a", op |-> "$eq", values |-> {num(1)}]
IdIs == [key |-> "id", op |-> "$eq", values |-> {str(1)}]
BothAre == [all |-> <<AIs, IdIs>>]
MCAsked == {BothAre, IdIs, AIn}
MCQueries == Comparisons \cup {AIn, BothAre, [any |-> <<IdIs, BothAre>>]}

MCDepth == [q \in MCQueries |-> IF IsComparison(q) THEN 0 ELSE IF q = BothAre THEN 1 ELSE 2]

In(path) == [path |-> path, mode |-> "include"]
Ex(path) == [path |-> path, mode |-> "exclude"]
MCProjections == {<<>>, <<In(<<"n", "x">>), In(<<"n", "y">>)>>, <<In(<<"n", "y">>), In(<<"n">>)>>,
                  <<Ex(<<"n", "x">>), Ex(<<"_id">>)>>, <<Ex(<<"n">>), Ex(<<"n", "y">>)>>,
                  <<Ex(<<"a">>)>>, <<In(<<"a">>), Ex(<<"id">>)>>}

By(key, desc) == [key |-> key, desc |-> desc]
MCSorts == {<<>>, <<By("a", TRUE)>>, <<By("id", FALSE), By("a", TRUE)>>}

MCPatches ==
  {<<[op |-> "replace", path |-> <<"a">>, value |-> num(0)], [op |-> "remove", path |-> <<"n", "x">>]>>,
   <<[op |-> "add", path |-> <<"id">>, value |-> str(0)], [op |-> "add", path |-> <<"a">>, value |-> num(1)]>>,
   <<[op |-> "add", path |-> <<"id">>, value |-> str(1)]>>,
   <<[op |-> "test", path |-> <<"a">>, value |-> num(1)], [op |-> "remove", path |-> <<"a">>]>>,
   <<[op |-> "copy", from_ |-> <<"n", "x">>, path |-> <<"n", "y">>], [op |-> "move", from_ |-> <<"n", "x">>, path |-> <<"a">>]>>}
=============================================================================
