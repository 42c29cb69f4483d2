------------------------------- MODULE MCMeta ------------------------------
(***************************************************************************)
(* Instances for TLC of MetaSchema: schemas with a field of each type and  *)
(* each reference, with each default, with indexes and with constraints,   *)
(* right and wrong, under ids that are names or UUIDs.                     *)
(***************************************************************************)
EXTENDS MetaSchema, TLC

MCUuids == {"u1", "u2", "u3", "u4", "u5", "u6", "u7", "u8", "u9"}

EmptyMap == [x \in {} |-> 0]
Reference(id) == [id |-> id, type |-> Untyped, values |-> <<>>]
Descriptor(type, values) == [id |-> NoId, type |-> type, values |-> values]
Single(ref) == [many |-> FALSE, refs |-> <<ref>>]
Multiple(refs) == [many |-> TRUE, refs |-> refs]
TypedField(name, type, schema, default) ==
  [name |-> name, type |-> type, schema |-> schema, default |-> default]
PlainText == TypedField("", "string", NoRefs, "null")
ObjectField(name, id) == TypedField(name, "object", Single(Reference(id)), "null")

NestedScope(name, fields, type, values, schema) ==
  [name |-> name, fields |-> fields, indexes |-> EmptyMap, constraints |-> EmptyMap,
   type |-> type, values |-> values, schema |-> schema]
NestedObject(name, fields) == NestedScope(name, fields, Untyped, <<>>, NoRefs)
NestedValue(type, values, schema) == NestedScope("", EmptyMap, type, values, schema)
MCNested ==
  [Address |-> NestedObject("", [street |-> PlainText]),
   Person |-> NestedObject("person", [home |-> ObjectField("", "Address"),
                                      boss |-> ObjectField("", "Person")]),
   Color |-> NestedValue("string", <<"text", "null">>, NoRefs),
   Nulls |-> NestedValue("string", <<"null">>, NoRefs),
   Either |-> NestedValue("union", <<>>,
                          Multiple(<<Reference("Address"), Reference("Person")>>)),
   Bag |-> NestedValue("record", <<>>, NoRefs),
   Lines |-> NestedValue("array", <<>>, Single(Reference("Color")))]
(* The nested schemas that a reference leads to.                           *)
NestedFor(schema) ==
  LET direct == {schema.refs[i].id : i \in DOMAIN schema.refs} \intersect DOMAIN MCNested
      below == (IF direct \intersect {"Person", "Either"} # {}
                THEN {"Address", "Person"} ELSE {})
               \union (IF "Lines" \in direct THEN {"Color"} ELSE {})
  IN [s \in direct \union below |-> MCNested[s]]

MCReferences ==
  {NoRefs, Single(Reference("")), Single(Reference("Gone")),
   Single(Descriptor("string", <<>>)), Single(Descriptor("string", <<"text">>)),
   Single(Descriptor("integer", <<"text">>)), Single(Descriptor("record", <<>>)),
   Single(Descriptor("array", <<>>)),
   Multiple(<<>>), Multiple(<<Reference("Color"), Descriptor("string", <<"text">>)>>),
   Multiple(<<Reference("Color"), Reference("Color")>>), Multiple(<<Reference("Address")>>),
   Multiple(<<Reference("Address"), Reference("Gone")>>)}
  \union {Single(Reference(s)) : s \in DOMAIN MCNested}
  \union {Multiple(<<Reference("Address"), Reference(s)>>) :
            s \in DOMAIN MCNested \ {"Address"}}

RootSchema(fields, indexes, constraints, schemas) ==
  [name |-> "root", fields |-> fields, indexes |-> indexes,
   constraints |-> constraints, schemas |-> schemas]
EachReference ==
  {RootSchema([name |-> PlainText, it |-> TypedField("", t, r, "null")],
              EmptyMap, EmptyMap, NestedFor(r)) :
     t \in FieldTypes \ {"bytes", "unknown", "decimal"}, r \in MCReferences}
SchemaFor(type) == IF type = "array" THEN Single(Descriptor("string", <<>>)) ELSE NoRefs
EachDefault ==
  {RootSchema([name |-> TypedField("", t, SchemaFor(t), v)], EmptyMap, EmptyMap, EmptyMap) :
     t \in {"string", "boolean", "integer", "number", "array", "record", "geometry"},
     v \in {"text", "int", "float", "bool", "list", "map"}}

OnName(value) == [kind |-> "single", field |-> "name", value |-> value]
AllOf(conditions) == [kind |-> "group", conditions |-> conditions]
EachIndex ==
  {RootSchema([name |-> PlainText, place |-> TypedField("", "geometry", NoRefs, "null")],
              [ix |-> [name |-> "", type |-> t, fields |-> fs, condition |-> c]],
              EmptyMap, EmptyMap) :
     t \in {"normal", "spatial"}, fs \in {<<>>, <<"name">>, <<"place">>, <<"gone">>},
     c \in {NoCondition, OnName("text"), OnName("int"), OnName("null"), AllOf(<<>>),
            AllOf(<<OnName("text")>>)}}

RuleOn(predicate, fields) ==
  [name |-> "", predicate |-> predicate, fields |-> fields, rules |-> <<>>]
RulesOf(rules) == [name |-> "", predicate |-> "", fields |-> <<>>, rules |-> rules]
EachConstraint ==
  {RootSchema([name |-> PlainText, it |-> ObjectField("", "Address")], EmptyMap, [c |-> c],
              [Address |-> MCNested.Address]) :
     c \in {RuleOn("p", <<>>), RuleOn("", <<>>), RuleOn("p", <<<<"name">>>>),
            RuleOn("p", <<<<"it", "street">>>>), RuleOn("p", <<<<"name", "street">>>>),
            RulesOf(<<RuleOn("p", <<<<"gone">>>>)>>), RulesOf(<<RuleOn("", <<>>)>>)}}

WithUuids ==
  RootSchema([u1 |-> TypedField("it", "array", Single(Reference("u2")), "null")],
             EmptyMap, EmptyMap, [u2 |-> [MCNested.Address EXCEPT !.name = "address"]])
WithoutIndexes(fields, schemas) == RootSchema(fields, EmptyMap, EmptyMap, schemas)
OddSchemas ==
  {WithUuids, [WithUuids EXCEPT !.name = ""],
   WithoutIndexes(EmptyMap, EmptyMap),
   WithoutIndexes([street |-> PlainText, it |-> ObjectField("", "Address")],
          [Address |-> MCNested.Address]),
   WithoutIndexes([name |-> PlainText],
                  [Address |-> [MCNested.Address EXCEPT !.type = "string"]]),
   WithoutIndexes([name |-> PlainText],
                  [Address |-> [MCNested.Address EXCEPT !.fields = EmptyMap]])}

MCWritten ==
  EachReference \union EachDefault \union EachIndex \union EachConstraint \union OddSchemas
============================================================================
