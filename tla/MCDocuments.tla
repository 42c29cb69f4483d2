---------------------------- MODULE MCDocuments ----------------------------
(***************************************************************************)
(* Instances for TLC of Documents: a flat schema and one with an array     *)
(* inside a nested object whose elements require a field, and assignments  *)
(* of values that fit, that do not and that are null.                      *)
(***************************************************************************)
EXTENDS Documents, TLC

CONSTANTS leaf1, leaf2

LeafField(name, type) == DocumentField(name, "leaf", type, "", FALSE)
MCObjects ==
  [Person |-> <<LeafField("a", "int"), LeafField("b", "int"),
                DocumentField("home", "object", "", "Home", FALSE),
                DocumentField("items", "array", "", "Item", FALSE),
                DocumentField("extra", "record", "", "", FALSE)>>,
   Home |-> <<LeafField("city", "int"), DocumentField("tags", "array", "", "Item", FALSE)>>,
   Item |-> <<DocumentField("n", "leaf", "int", "", TRUE), LeafField("m", "text")>>,
   Flat |-> <<LeafField("a", "int"), DocumentField("home", "object", "", "Place", FALSE),
              DocumentField("items", "array", "", "Stop", FALSE)>>,
   Place |-> <<LeafField("city", "int"), LeafField("zip", "text")>>,
   Stop |-> <<LeafField("n", "int"), DocumentField("at", "object", "", "Place", FALSE)>>]

TreeOf1(name, value) == Tree(name :> value)
TreeOf2(name1, value1, name2, value2) == Tree((name1 :> value1) @@ (name2 :> value2))
Value1 == Leaf(leaf1)
Value2 == Leaf(leaf2)
MCAssignments ==
  [Person |->
     {<<<<"a">>, Value1>>, <<<<"a">>, Leaf(ExplicitNull)>>, <<<<"b">>, Value2>>,
      <<<<"home">>, TreeOf2("city", Value1, "tags", List(<<TreeOf1("n", Value2)>>))>>,
      <<<<"home", "tags">>, List(<<TreeOf2("n", Value1, "m", Value2)>>)>>,
      <<<<"items">>, List(<<TreeOf1("n", Value1), TreeOf1("m", Value1)>>)>>,
      <<<<"items">>, Leaf(ExplicitNull)>>,
      <<<<"extra">>, Value1>>},
   Flat |->
     {<<<<"a">>, Value1>>,
      <<<<"home">>, TreeOf2("city", Value1, "zip", Leaf(Misfit))>>,
      <<<<"home", "zip">>, Value2>>,
      <<<<"items">>, List(<<TreeOf2("n", Value1, "at", TreeOf1("zip", Value2))>>)>>,
      <<<<"items">>, List(<<TreeOf1("at", TreeOf2("city", Leaf(ExplicitNull), "zip", Value1)),
                            TreeOf1("n", Value2)>>)>>}]
============================================================================
