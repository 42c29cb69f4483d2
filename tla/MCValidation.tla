---------------------------- MODULE MCValidation ---------------------------
(***************************************************************************)
(* Instances for TLC of Validation: an object under a constraint, objects  *)
(* and arrays that lead back to their schema beyond MaxDepth, and unions,  *)
(* records and a composite of an object and a union.                       *)
(***************************************************************************)
EXTENDS Validation, TLC

CONSTANTS text1, text2, number1

ObjectOf(fields) == [type |-> "object", fields |-> fields, constraints |-> {}, of |-> <<>>]
SchemaOfType(type, of) == [type |-> type, fields |-> <<>>, constraints |-> {}, of |-> of]
Equal(fields) == [name |-> "same", rules |-> {{<<f>> : f \in fields}}, any |-> FALSE]

MCSchemas ==
  [Text |-> SchemaOfType("string", <<>>),
   Num |-> SchemaOfType("number", <<>>),
   Leaf |-> ObjectOf(<<SchemaField("a", TRUE, "string", <<>>),
                       SchemaField("b", FALSE, "number", <<>>)>>),
   Tag |-> ObjectOf(<<SchemaField("b", TRUE, "number", <<>>)>>),
   Either |-> SchemaOfType("union", <<"Leaf", "Tag">>),
   Node |-> [ObjectOf(<<SchemaField("a", FALSE, "string", <<>>),
                        SchemaField("b", FALSE, "string", <<>>),
                        SchemaField("c", FALSE, "object", <<"Node">>),
                        SchemaField("d", FALSE, "array", <<"Node">>)>>)
             EXCEPT !.constraints = {Equal({"a", "b"})}],
   Wrap |-> ObjectOf(<<SchemaField("c", FALSE, "object", <<"Leaf">>)>>),
   Flat |-> [ObjectOf(<<SchemaField("a", TRUE, "string", <<>>),
                        SchemaField("b", FALSE, "enum", <<text1>>)>>)
             EXCEPT !.constraints = {Equal({"a", "b"})}],
   Tree |-> ObjectOf(<<SchemaField("a", TRUE, "string", <<>>),
                       [SchemaField("c", TRUE, "object", <<"Node">>)
                        EXCEPT !.ref = {Equal({"a"})}]>>),
   Mixed |-> ObjectOf(<<SchemaField("a", FALSE, "union", <<"Text", "Tag">>),
                        SchemaField("d", FALSE, "composite", <<"Wrap", "Either">>),
                        SchemaField("x", FALSE, "record", <<"Num">>)>>)]
MCRoots == {"Flat", "Tree", "Mixed"}

(* The objects with some of the keys, each with one of its values.         *)
Objects(values) ==
  UNION {{o \in [S -> UNION {values[k] : k \in S}] : \A k \in S : o[k] \in values[k]} :
           S \in SUBSET DOMAIN values}
ArrayOf(item) == [k \in {Items} |-> <<item>>]
Leafs == Objects([a |-> {text1, number1}, b |-> {number1, Null}, x |-> {text1}])
PairOf(k, v, l, w) == (k :> v) @@ (l :> w)
Pairs == {PairOf("a", text1, "b", text1), PairOf("a", text1, "b", text2),
          PairOf("a", text1, "x", text1), number1}
NodeWith(item) == PairOf("a", text1, "b", text1) @@ ("d" :> ArrayOf(item))
Nodes ==
  Objects([a |-> {text1, number1}, c |-> Pairs, d |-> {number1} \union {ArrayOf(p) : p \in Pairs}])
    \union Objects([a |-> {text1, number1}, d |-> {ArrayOf(NodeWith(p)) : p \in Pairs}])
MCDocuments ==
  [Flat |-> Objects([a |-> {text1, number1}, b |-> {text1, text2, Null, number1},
                     x |-> {text1}]),
   Tree |-> Objects([a |-> {text1}, c |-> Nodes]),
   Mixed |-> UNION {Objects(values) : values \in
     {[a |-> {text1, number1} \union Leafs],
      [x |-> {text1} \union Objects([a |-> {number1, text1}, b |-> {number1, Null}])],
      [d |-> {text1} \union Objects([a |-> {text1, number1}, b |-> {number1, text1},
                                     c |-> {number1}])],
      [d |-> Objects([a |-> {text1}, c |-> Leafs])]}}]
MCFurther ==
  [Flat |-> {"a" :> number1}, Tree |-> {[k \in {} |-> Null]}, Mixed |-> {"x" :> text1}]
============================================================================
