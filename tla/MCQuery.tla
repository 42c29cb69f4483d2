------------------------------ MODULE MCQuery ------------------------------
(***************************************************************************)
(* Instances for TLC of QueryEngine: three backends, the first of which    *)
(* updates as the in-memory one does and the last of which can do little,  *)
(* two stores of documents with and without the field y, and queries with  *)
(* each part that may be left to memory.  Run by itself, it asks what the  *)
(* collections promise of versions and ids on any backend.                 *)
(***************************************************************************)
EXTENDS QueryEngine, TLC

MCIdPath == <<"id">>
MCVersionPath == <<"v">>
X == <<"x">>
Y == <<"y">>

Row(id, x, y) ==
  (MCIdPath :> id) @@ (MCVersionPath :> 1) @@ (X :> x)
    @@ (IF y = 0 THEN NoDocument ELSE Y :> y)
MCStores == {<<Row(101, 2, 1), Row(102, 1, 0), Row(103, 2, 101)>>,
             <<Row(101, 1, 2), Row(102, 1, 1)>>}
MCOtherRows == <<X :> 2, (X :> 1) @@ (Y :> 1), X :> 2>>

Comparisons ==
  {"eq", "neq", "lt", "lte", "gt", "gte", "in", "nin", "exists", "nexists"}
Able(compares, joins, aggregates, sorts, pages, computes) ==
  [compares |-> compares, joins |-> joins, aggregates |-> aggregates,
   sorts |-> sorts, pages |-> pages, computes |-> computes]
MCCapabilities ==
  {Able(Comparisons, {"inner", "left", "right", "full"}, {"count", "max"}, FALSE, TRUE, FALSE),
   Able(Comparisons, {"inner", "left"}, {"count", "max"}, TRUE, TRUE, TRUE),
   Able({"eq", "in", "gt"}, {}, {}, FALSE, FALSE, TRUE)}

XIs2 == Condition("eq", X, <<2>>)
XAbove1 == Condition("gt", X, <<1>>)
YAbsent == Condition("nexists", Y, <<>>)
YNot1 == Condition("neq", Y, <<1>>)
YNotId == [Condition("neq", Y, <<>>) EXCEPT !.ref = <<MCIdPath>>]
InOther(op) ==
  [Condition("in", X, <<>>) EXCEPT
     !.sub = <<[EmptyQuery EXCEPT !.filter = <<Condition(op, X, <<2>>)>>,
                                  !.projection.include = {X}]>>]
IdIn(op, ids) == Condition(op, MCIdPath, ids)
QueryFilters ==
  {XIs2, YNot1, YNotId, InOther("eq"), InOther("lt"), TextSearch,
   Group("and", <<XAbove1, YNot1>>), Group("or", <<XIs2, YAbsent>>),
   Group("and", <<Group("or", <<XIs2, YAbsent>>), XAbove1>>),
   Group("or", <<Group("and", <<XIs2, YNot1>>), XIs2>>),
   Group("nor", <<XIs2, YNot1>>), Group("nand", <<XIs2, YNot1>>)}

SortKey(field, dir) == [field |-> field, dir |-> dir]
OnField(name) ==
  [Condition("eq", <<"left", name>>, <<>>) EXCEPT !.ref = <<<<"right", name>>>>]
MCJoins == {<<OnField("x")>>, <<OnField("y")>>}
MaybeXIs2 == {<<>>, <<XIs2>>}
MCQueries ==
  [filter : {<<>>} \union {<<f>> : f \in QueryFilters},
   projection : {NoProjection, [NoProjection EXCEPT !.include = {MCIdPath}]},
   page : {NoPage, [offset |-> 1, limit |-> 1]},
   sort : {<<>>, <<SortKey(X, "desc"), SortKey(MCIdPath, "desc")>>},
   joins : {<<>>}, aggregates : {<<>>}, union : {<<>>}]
  \union {[EmptyQuery EXCEPT !.joins = <<[type |-> t, on |-> <<OnField("x")>>]>>,
                             !.filter = f] :
            t \in {"inner", "full"}, f \in MaybeXIs2}
  \union {[EmptyQuery EXCEPT !.aggregates =
             <<[type |-> "count", field |-> Y, filter |-> f],
               [type |-> "max", field |-> X, filter |-> <<>>]>>] : f \in MaybeXIs2}
  \union {[EmptyQuery EXCEPT !.projection.exclude = {X}],
          [EmptyQuery EXCEPT !.union = <<[EmptyQuery EXCEPT !.filter = <<XIs2>>]>>]}

MCChanges ==
  {XIs2, IdIn("eq", <<101>>),
   Group("and", <<IdIn("in", <<101, 102>>), XIs2>>),
   Group("or", <<IdIn("eq", <<101>>), XIs2>>),
   Group("or", <<IdIn("eq", <<101>>), IdIn("eq", <<102>>)>>),
   Group("and", <<IdIn("eq", <<101>>), IdIn("eq", <<102>>)>>),
   Group("or", <<XAbove1, YNot1>>)}
============================================================================
