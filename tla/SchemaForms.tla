---------------------------- MODULE SchemaForms -----------------------------
(***************************************************************************)
(* The forms of a schema: the structure in memory; the JSON that ToJSON    *)
(* writes and the registry stores; the map that AsMap builds and the       *)
(* registry validates.  One walk of the structure drives both builders,    *)
(* each with a stack of what it has open; reading back is UnmarshalJSON.   *)
(*                                                                         *)
(* A JSON value says what it "is" and its payload; JSON text is a          *)
(* sequence of tokens, a key with its colon being one, and a value that    *)
(* the walk does not enter another.  Numbers are counted in halves, so     *)
(* that the odd ones have a fraction.  A Go value has the type that holds  *)
(* it; "typed" stands for the slices and maps of other types.  The         *)
(* escaping of strings, numbers beyond 53 bits and the random order of Go  *)
(* maps are left out.                                                      *)
(***************************************************************************)
EXTENDS SequencesExt, Integers

CONSTANT AuthoredSchemas    \* the schemas that programs build or parse

VARIABLES
  authored,   \* the schema in memory
  validated,  \* the map that the registry validated
  storedText  \* the JSON that it stored

schemaFormVars == <<authored, validated, storedText>>

IntegerTypes == {"int64", "int", "uint", "uint64"}
IsUnset(l) == l.go \in {"zero", "null"}    \* IsZero or IsNull

GoValue(type, v) == [go |-> type, payload |-> v]
JsonValue(is, v) == [is |-> is, payload |-> v]
JsonNull == JsonValue("null", "")
JsonText(s) == JsonValue("string", s)
JsonTexts(names) == JsonValue("array", [i \in DOMAIN names |-> JsonText(names[i])])
JsonObject(members) == JsonValue("object", members)

(* A reference that describes its items in place.                          *)
IsInlineRef(r) == r.id = "" /\ (r.type # "" \/ r.values # <<>>)

----------------------------------------------------------------------------
(* Walk: the nodes in order, each with its depth.                          *)

NodeAt(type, key, depth, v) == <<[type |-> type, key |-> key, depth |-> depth, value |-> v]>>

WalkEach(type, depth, map, below) ==
  IF DOMAIN map = {} THEN <<>>
  ELSE FoldLeft(LAMBDA out, k : out \o below[k],
                NodeAt(type, "", depth, map), SetToSeq(DOMAIN map))
WalkMetadata(map, depth) ==
  IF DOMAIN map = {} THEN <<>> ELSE NodeAt("MetadataMap", "", depth, map)
WalkLiteral(type, key, depth, l) == IF IsUnset(l) THEN <<>> ELSE NodeAt(type, key, depth, l)
WalkList(type, key, depth, list) == IF list = <<>> THEN <<>> ELSE NodeAt(type, key, depth, list)

WalkField(depth, id, f) ==
  NodeAt("Field", id, depth, f) \o WalkLiteral("FieldDefault", "default", depth + 1, f.default)
  \o (IF f.schema.kind = "none" THEN <<>> ELSE NodeAt("FieldSchema", "", depth + 1, f.schema))
  \o WalkMetadata(f.metadata, depth + 1)

RECURSIVE WalkRules(_, _)
WalkRules(c, depth) ==
  IF c.kind = "rule"
  THEN NodeAt("ConstraintRule", "", depth, c.body)
       \o WalkLiteral("ConstraintParameters", "parameters", depth + 1, c.body.parameters)
       \o WalkList("ConstraintFields", "fields", depth + 1, c.body.fields)
  ELSE FoldLeft(LAMBDA out, rule : out \o WalkRules(rule, depth + 1),
                NodeAt("ConstraintGroup", "", depth, c.body), c.body.rules)

WalkConstraint(depth, id, c) == NodeAt("Constraint", id, depth, c) \o WalkRules(c, depth + 1)

RECURSIVE WalkCondition(_, _)
WalkCondition(c, depth) ==
  CASE c.kind = "none" -> <<>>
    [] c.kind = "single" ->
         NodeAt("IndexCondition", "", depth, c.body)
         \o WalkLiteral("LiteralValue", "value", depth + 1, c.body.value)
    [] OTHER -> FoldLeft(LAMBDA out, one : out \o WalkCondition(one, depth + 1),
                         NodeAt("IndexConditionGroup", "", depth, c.body), c.body.conditions)

WalkIndex(depth, id, index) ==
  NodeAt("Index", id, depth, index)
  \o WalkList("IndexFields", "fields", depth + 1, index.fields)
  \o WalkCondition(index.condition, depth + 1)

WalkBase(depth, s, Between) ==
  WalkEach("FieldsMap", depth, s.fields,
           [id \in DOMAIN s.fields |-> WalkField(depth + 1, id, s.fields[id])])
  \o Between
  \o WalkEach("ConstraintsMap", depth, s.constraints,
              [id \in DOMAIN s.constraints |-> WalkConstraint(depth + 1, id, s.constraints[id])])
  \o WalkEach("IndexesMap", depth, s.indexes,
              [id \in DOMAIN s.indexes |-> WalkIndex(depth + 1, id, s.indexes[id])])
  \o WalkMetadata(s.metadata, depth)

WalkNested(depth, id, ns) ==
  NodeAt("NestedSchema", id, depth, ns) \o WalkBase(depth + 1, ns, <<>>)
  \o WalkLiteral("LiteralValue", "default", depth + 1, ns.default)
  \o WalkList("ValuesArray", "values", depth + 1, ns.values)

Walk(s) ==
  NodeAt("Schema", "", 0, s)
  \o WalkBase(1, s,
       WalkEach("SchemasMap", 1, s.schemas,
                [id \in DOMAIN s.schemas |-> WalkNested(2, id, s.schemas[id])]))

----------------------------------------------------------------------------
(* JSONBuilder: what is written, and whether the object or array that is   *)
(* open still waits for its first element, innermost last.                 *)

NewBuilder == [buf |-> <<>>, first |-> <<>>]
Emit(b, token) == [b EXCEPT !.buf = Append(@, token)]
NotFirst(b) == IF b.first = <<>> THEN b ELSE [b EXCEPT !.first[Len(b.first)] = FALSE]
WriteComma(b) ==
  NotFirst(IF b.first # <<>> /\ ~Last(b.first) THEN Emit(b, [t |-> "comma"]) ELSE b)
StartBlock(b, bracket) ==
  [Emit(b, [t |-> bracket]) EXCEPT !.first = Append(@, TRUE)]
EndBlock(b, bracket) == NotFirst([Emit(b, [t |-> bracket]) EXCEPT !.first = Front(@)])
WriteKey(b, key) == Emit(WriteComma(b), [t |-> "key", key |-> key])

WriteJson(b, v) == Emit(b, [t |-> "value", v |-> v])

(* writeLiteralValueFromAny.  toUint64 knows one of the unsigned types.    *)
RECURSIVE JsonOfAny(_)
JsonOfAny(v) ==
  CASE v.go = "string" -> JsonText(v.payload)
    [] v.go = "bool" -> JsonValue("bool", v.payload)
    [] v.go \in {"int64", "int", "uint64", "float64", "float32"} -> JsonValue("number", v.payload)
    [] v.go = "uint" -> JsonValue("number", 0)
    [] v.go = "slice" ->
         JsonValue("array", [i \in DOMAIN v.payload |-> JsonOfAny(v.payload[i])])
    [] v.go = "map" -> JsonObject([k \in DOMAIN v.payload |-> JsonOfAny(v.payload[k])])
    [] OTHER -> JsonNull

(* writeLiteralValue: a number is read out as int64 or as float64, and is  *)
(* zero when another type holds it.                                        *)
JsonOfLiteral(l) ==
  IF IsUnset(l) THEN JsonNull
  ELSE IF l.go \in (IntegerTypes \union {"float32"}) \ {"int64"} THEN JsonValue("number", 0)
  ELSE JsonOfAny(l)

JsonOfRef(r) ==
  LET values == JsonValue("array", [i \in DOMAIN r.values |-> JsonOfLiteral(r.values[i])])
  IN IF IsInlineRef(r)
     THEN JsonObject(("type" :> JsonText(r.type))
                     @@ IF r.values = <<>> THEN <<>> ELSE "values" :> values)
     ELSE JsonObject(("id" :> JsonText(r.id))
                     @@ (IF DOMAIN r.indexes = {} THEN <<>> ELSE "indexes" :> JsonObject(<<>>))
                     @@ (IF DOMAIN r.constraints = {} THEN <<>>
                         ELSE "constraints" :> JsonObject(<<>>)))

(* What the several elements of a list of references keep; and all that a  *)
(* nested schema keeps of its own reference by id.                         *)
JsonOfId(r) == JsonObject("id" :> JsonText(r.id))
JsonOfFieldSchema(ref, own) ==
  IF ref.kind = "single" THEN IF own /\ ~IsInlineRef(ref.of) THEN JsonOfId(ref.of)
                              ELSE JsonOfRef(ref.of)
  ELSE JsonValue("array", [i \in DOMAIN ref.of |-> JsonOfId(ref.of[i])])

(* Pairs of a key and a value, those that are set.                         *)
TextIfSet(key, s) == IF s = "" THEN <<>> ELSE <<<<key, JsonText(s)>>>>
TrueIfSet(key, set) == IF set THEN <<<<key, JsonValue("bool", TRUE)>>>> ELSE <<>>
Text(key, s) == <<<<key, JsonText(s)>>>>

(* The members that the node itself holds.                                 *)
JsonMembers(type, v) ==
  CASE type = "Schema" ->
         <<<<"version", IF v.version = "" THEN JsonNull ELSE JsonText(v.version)>>>>
         \o TextIfSet("name", v.name) \o TextIfSet("description", v.description)
    [] type = "Field" ->
         Text("name", v.name) \o TextIfSet("description", v.description)
         \o TrueIfSet("required", v.required) \o TrueIfSet("deprecated", v.deprecated)
         \o TrueIfSet("unique", v.unique) \o TrueIfSet("nullable", v.nullable)
         \o TextIfSet("type", v.type)
    [] type = "NestedSchema" ->
         Text("name", v.name) \o TextIfSet("description", v.description)
         \o TrueIfSet("concrete", v.concrete) \o TextIfSet("type", v.type)
         \o IF v.schema.kind = "none" THEN <<>>
            ELSE <<<<"schema", JsonOfFieldSchema(v.schema, TRUE)>>>>
    [] type = "Constraint" -> Text("name", v.name) \o TextIfSet("description", v.description)
    [] type = "ConstraintRule" -> Text("predicate", v.predicate)
    [] type \in {"ConstraintGroup", "IndexConditionGroup"} -> Text("operator", v.operator)
    [] type = "Index" ->
         Text("name", v.name) \o TextIfSet("description", v.description)
         \o Text("type", v.type) \o TextIfSet("order", v.order) \o TrueIfSet("unique", v.unique)
    [] type = "IndexCondition" -> Text("field", v.field) \o Text("operator", v.operator)
    [] OTHER -> <<>>

WriteMembers(b, members) == FoldLeft(LAMBDA out, m : WriteJson(WriteKey(out, m[1]), m[2]), b, members)

(* The value that a node without children stands for, under its key.       *)
JsonOfLeaf(node) ==
  CASE node.type \in {"ConstraintFields", "IndexFields"} -> JsonTexts(node.value)
    [] node.type = "ValuesArray" ->
         JsonValue("array", [i \in DOMAIN node.value |-> JsonOfLiteral(node.value[i])])
    [] node.type = "FieldSchema" -> JsonOfFieldSchema(node.value, FALSE)
    [] node.type = "MetadataMap" ->
         JsonObject([k \in DOMAIN node.value |-> JsonOfAny(node.value[k])])
    [] OTHER -> JsonOfLiteral(node.value)

LeafKey(node) ==
  CASE node.type = "FieldSchema" -> "schema"
    [] node.type = "MetadataMap" -> "metadata"
    [] OTHER -> node.key

MapKeys == [FieldsMap |-> "fields", SchemasMap |-> "schemas",
            ConstraintsMap |-> "constraints", IndexesMap |-> "indexes"]
Keyed == {"Field", "NestedSchema", "Constraint", "Index"}

----------------------------------------------------------------------------
(* ToJSON: the builder, and the contexts that are open.                    *)

(* Mutant: a group in the rules of a group closes its list only.           *)
CloseContextOpen(b, context) ==
  CASE context.type = "ConstraintGroup" -> EndBlock(b, "]")
    [] context.type = "IndexConditionGroup" -> EndBlock(EndBlock(b, "]"), "}")
    [] OTHER -> EndBlock(b, "}")
CloseContext(b, context) ==
  CASE context.type = "ConstraintGroup" ->
         LET ended == EndBlock(b, "]") IN IF context.inArray THEN EndBlock(ended, "}") ELSE ended
    [] context.type = "IndexConditionGroup" -> EndBlock(EndBlock(b, "]"), "}")
    [] OTHER -> EndBlock(b, "}")

CloseTo(j, depth) ==
  FoldRight(LAMBDA context, out :
              IF context.depth < depth THEN out
              ELSE [b |-> CloseContext(out.b, context), open |-> Front(out.open)],
            j.open, j)

ListKeys == [ConstraintGroup |-> "rules", IndexConditionGroup |-> "conditions"]

VisitJson(visited, node) ==
  LET j == CloseTo(visited, node.depth)
      type == node.type
      nested == j.open # <<>> /\ Last(j.open).type \in DOMAIN ListKeys
      Opened(b) == [b |-> b, open |-> Append(j.open, [type |-> type, depth |-> node.depth,
                                                      inArray |-> nested])]
      held(b) == WriteMembers(b, JsonMembers(type, node.value))
      body(b) == IF type \in DOMAIN ListKeys
                 THEN StartBlock(WriteKey(held(b), ListKeys[type]), "[") ELSE held(b)
      under(key) == StartBlock(WriteKey(j.b, key), "{")
  IN CASE nested -> Opened(body(StartBlock(WriteComma(j.b), "{")))
       [] type = "Schema" -> [j EXCEPT !.b = held(StartBlock(@, "{"))]
       [] type \in DOMAIN MapKeys -> Opened(under(MapKeys[type]))
       [] type \in Keyed -> Opened(held(under(node.key)))
       [] type = "ConstraintRule" -> [j EXCEPT !.b = held(@)]
       [] type = "ConstraintGroup" -> Opened(body(j.b))
       [] type \in {"IndexCondition", "IndexConditionGroup"} -> Opened(body(under("condition")))
       [] OTHER -> [j EXCEPT !.b = WriteJson(WriteKey(@, LeafKey(node)), JsonOfLeaf(node))]

ToJSON(s) ==
  LET visited == FoldLeft(VisitJson, [b |-> NewBuilder, open |-> <<>>], Walk(s))
  IN EndBlock(CloseTo(visited, 0).b, "}").buf

----------------------------------------------------------------------------
(* encoding/json, as the program uses it: the value that a text stands     *)
(* for.  A comma stands between two elements and nowhere else.             *)

Unreadable == [ok |-> FALSE, payload |-> JsonNull, rest |-> <<>>]
Closing == [object |-> "}", array |-> "]"]

RECURSIVE ParseValue(_), ParseElements(_, _, _)
ParseValue(text) ==
  LET token == Head(text)
  IN CASE text = <<>> -> Unreadable
       [] token.t = "value" -> [ok |-> TRUE, payload |-> token.v, rest |-> Tail(text)]
       [] token.t = "{" -> ParseElements(Tail(text), JsonObject(<<>>), FALSE)
       [] token.t = "[" -> ParseElements(Tail(text), JsonValue("array", <<>>), FALSE)
       [] OTHER -> Unreadable
ParseElements(text, read, afterComma) ==
  LET keyed == read.is = "object"
      one == ParseValue(IF keyed THEN Tail(text) ELSE text)
      next == [read EXCEPT !.payload = IF keyed THEN (Head(text).key :> one.payload) @@ @
                                     ELSE Append(@, one.payload)]
  IN CASE text = <<>> -> Unreadable
       [] Head(text).t = Closing[read.is] ->
            IF afterComma THEN Unreadable ELSE [ok |-> TRUE, payload |-> read, rest |-> Tail(text)]
       [] keyed # (Head(text).t = "key") -> Unreadable
       [] ~one.ok \/ one.rest = <<>> -> Unreadable
       [] Head(one.rest).t = "comma" -> ParseElements(Tail(one.rest), next, TRUE)
       [] Head(one.rest).t = Closing[read.is] -> ParseElements(one.rest, next, FALSE)
       [] OTHER -> Unreadable

Parse(text) ==
  LET read == ParseValue(text) IN IF read.rest = <<>> THEN read ELSE Unreadable

----------------------------------------------------------------------------
(* AsMap.  A map is a JSON value here; its literals keep their numbers.    *)
(* What is pushed has the place it takes in what it was pushed on: a key,  *)
(* or "" in a list.  The code puts a map in its place at once and a list   *)
(* when it is popped; nothing reads the map before the walk ends.          *)

RECURSIVE ShownAs(_)
ShownAs(v) ==
  CASE v.go \in {"string", "bool"} -> JsonValue(v.go, v.payload)
    [] v.go \in IntegerTypes \union {"float64", "float32"} -> JsonValue("number", v.payload)
    [] v.go = "slice" -> JsonValue("array", [i \in DOMAIN v.payload |-> ShownAs(v.payload[i])])
    [] v.go = "map" -> JsonObject([k \in DOMAIN v.payload |-> ShownAs(v.payload[k])])
    [] v.go = "typed" -> v.payload
    [] OTHER -> JsonNull
ShownList(list) == JsonValue("array", [i \in DOMAIN list |-> ShownAs(list[i])])

MapOfFieldSchema(ref) ==
  IF ref.kind = "multiple" THEN JsonOfFieldSchema(ref, TRUE)
  ELSE IF ~IsInlineRef(ref.of) THEN JsonOfId(ref.of)
  ELSE JsonObject(("type" :> JsonText(ref.of.type))
                  @@ IF ref.of.values = <<>> THEN <<>> ELSE "values" :> ShownList(ref.of.values))

MapMembers(type, v) ==
  CASE type = "Schema" ->
         SelectSeq(JsonMembers(type, v), LAMBDA m : m[2] # JsonNull)
    [] type = "NestedSchema" ->
         JsonMembers(type, [v EXCEPT !.schema.kind = "none"])
         \o IF v.schema.kind = "none" THEN <<>> ELSE <<<<"schema", MapOfFieldSchema(v.schema)>>>>
    [] OTHER -> JsonMembers(type, v)

MapOfLeaf(node) ==
  CASE node.type \in {"ConstraintFields", "IndexFields"} -> JsonTexts(node.value)
    [] node.type = "ValuesArray" -> ShownList(node.value)
    [] node.type = "FieldSchema" -> MapOfFieldSchema(node.value)
    [] node.type = "MetadataMap" ->
         JsonObject([k \in DOMAIN node.value |-> ShownAs(node.value[k])])
    [] OTHER -> ShownAs(node.value)

Push(m, depth, place, v) ==
  [m EXCEPT !.open = Append(@, [depth |-> depth, place |-> place, v |-> v])]
PutAt(v, place, one) ==
  [v EXCEPT !.payload = IF v.is = "array" THEN Append(@, one) ELSE (place :> one) @@ @]
PutMembers(v, members) == FoldLeft(LAMBDA out, m : PutAt(out, m[1], m[2]), v, members)
OnTop(m, Change(_)) == [m EXCEPT !.open[Len(m.open)].v = Change(@)]

Pop(m) ==
  LET item == Last(m.open)
      rest == [m EXCEPT !.open = Front(@)]
  IN IF rest.open = <<>> THEN [rest EXCEPT !.root = item.v]
     ELSE OnTop(rest, LAMBDA v : PutAt(v, item.place, item.v))

PopTo(m, depth) ==
  FoldRight(LAMBDA item, out : IF item.depth < depth THEN out ELSE Pop(out), m.open, m)

VisitMap(visited, node) ==
  LET m == PopTo(visited, node.depth)
      type == node.type
      inList == m.open # <<>> /\ Last(m.open).v.is = "array"
      At(place) == Push(m, node.depth, place, PutMembers(JsonObject(<<>>), MapMembers(type, node.value)))
      flat == OnTop(m, LAMBDA v : PutMembers(v, MapMembers(type, node.value)))
      body(b) == IF type \in DOMAIN ListKeys
                 THEN Push(b, node.depth, ListKeys[type], JsonValue("array", <<>>)) ELSE b
  IN CASE inList -> body(At(""))
       [] type = "Schema" -> At("")
       [] type \in DOMAIN MapKeys -> Push(m, node.depth, MapKeys[type], JsonObject(<<>>))
       [] type \in Keyed -> At(node.key)
       [] type \in {"ConstraintRule", "ConstraintGroup"} -> body(flat)
       [] type \in {"IndexCondition", "IndexConditionGroup"} -> body(At("condition"))
       [] OTHER -> OnTop(m, LAMBDA v : PutAt(v, LeafKey(node), MapOfLeaf(node)))

AsMap(s) == PopTo(FoldLeft(VisitMap, [open |-> <<>>, root |-> JsonNull], Walk(s)), 0).root

----------------------------------------------------------------------------
(* UnmarshalJSON.  A member that is absent, or is not of the type of its   *)
(* field, leaves the field as it was; the program writes none of another.  *)

Has(o, key) == key \in DOMAIN o.payload
TextIn(o, key) == IF Has(o, key) /\ o.payload[key] # JsonNull THEN o.payload[key].payload ELSE ""
TrueIn(o, key) == Has(o, key) /\ o.payload[key].payload
ListIn(o, key, One(_)) ==
  IF Has(o, key) THEN [i \in DOMAIN o.payload[key].payload |-> One(o.payload[key].payload[i])] ELSE <<>>
MapIn(o, key, One(_)) ==
  IF Has(o, key) THEN [k \in DOMAIN o.payload[key].payload |-> One(o.payload[key].payload[k])] ELSE <<>>

(* Numbers that encoding/json was not told how to read are float64.        *)
RECURSIVE GoOf(_, _)
GoOf(v, useNumber) ==
  CASE v.is \in {"string", "bool"} -> GoValue(v.is, v.payload)
    [] v.is = "number" ->
         GoValue(IF useNumber /\ v.payload % 2 = 0 THEN "int64" ELSE "float64", v.payload)
    [] v.is = "array" ->
         GoValue("slice", [i \in DOMAIN v.payload |-> GoOf(v.payload[i], useNumber)])
    [] v.is = "object" ->
         GoValue("map", [k \in DOMAIN v.payload |-> GoOf(v.payload[k], useNumber)])
    [] OTHER -> GoValue("null", "")

LiteralOf(v) == GoOf(v, TRUE)
LiteralIn(o, key) == IF Has(o, key) THEN LiteralOf(o.payload[key]) ELSE GoValue("zero", "")
MetadataIn(o) == MapIn(o, "metadata", LAMBDA v : GoOf(v, FALSE))

(* FieldType.UnmarshalJSON: a name that is no type is the unknown one.     *)
TypeIn(o) ==
  IF ~Has(o, "type") THEN "" ELSE IF TextIn(o, "type") = "" THEN "unknown" ELSE TextIn(o, "type")

RefOf(o) ==
  [id |-> TextIn(o, "id"), type |-> TypeIn(o), values |-> ListIn(o, "values", LiteralOf),
   indexes |-> <<>>, constraints |-> <<>>]
FieldSchemaIn(o) ==
  IF ~Has(o, "schema") THEN [kind |-> "none"]
  ELSE IF o.payload["schema"].is = "object"
  THEN [kind |-> "single", of |-> RefOf(o.payload["schema"])]
  ELSE [kind |-> "multiple", of |-> ListIn(o, "schema", RefOf)]

FieldOf(o) ==
  [name |-> TextIn(o, "name"), description |-> TextIn(o, "description"),
   required |-> TrueIn(o, "required"), deprecated |-> TrueIn(o, "deprecated"),
   unique |-> TrueIn(o, "unique"), nullable |-> TrueIn(o, "nullable"), type |-> TypeIn(o),
   default |-> LiteralIn(o, "default"), schema |-> FieldSchemaIn(o), metadata |-> MetadataIn(o)]

Identity(v) == v.payload
RECURSIVE UnionOf(_)
UnionOf(o) ==
  IF TextIn(o, "operator") # ""
  THEN [kind |-> "group", body |-> [operator |-> TextIn(o, "operator"),
                                    rules |-> ListIn(o, "rules", UnionOf)]]
  ELSE [kind |-> "rule", body |-> [predicate |-> TextIn(o, "predicate"),
                                   fields |-> ListIn(o, "fields", Identity),
                                   parameters |-> LiteralIn(o, "parameters")]]
ConstraintOf(o) ==
  UnionOf(o) @@ [name |-> TextIn(o, "name"), description |-> TextIn(o, "description")]

RECURSIVE ConditionOf(_)
ConditionOf(o) ==
  IF Has(o, "conditions")
  THEN [kind |-> "group", body |-> [operator |-> TextIn(o, "operator"),
                                    conditions |-> ListIn(o, "conditions", ConditionOf)]]
  ELSE [kind |-> "single", body |-> [field |-> TextIn(o, "field"),
                                     operator |-> TextIn(o, "operator"),
                                     value |-> LiteralIn(o, "value")]]
IndexRead(o) ==
  [name |-> TextIn(o, "name"), description |-> TextIn(o, "description"),
   type |-> TextIn(o, "type"), order |-> TextIn(o, "order"), unique |-> TrueIn(o, "unique"),
   fields |-> ListIn(o, "fields", Identity),
   condition |-> IF Has(o, "condition") THEN ConditionOf(o.payload["condition"])
                 ELSE [kind |-> "none"]]

BaseOf(o) ==
  [name |-> TextIn(o, "name"), description |-> TextIn(o, "description"),
   fields |-> MapIn(o, "fields", FieldOf), constraints |-> MapIn(o, "constraints", ConstraintOf),
   indexes |-> MapIn(o, "indexes", IndexRead), metadata |-> MetadataIn(o)]
NestedOf(o) ==
  BaseOf(o) @@ [concrete |-> TrueIn(o, "concrete"), type |-> TypeIn(o),
                schema |-> FieldSchemaIn(o), default |-> LiteralIn(o, "default"),
                values |-> ListIn(o, "values", LiteralOf)]
FromJSON(o) ==
  BaseOf(o) @@ [version |-> TextIn(o, "version"), schemas |-> MapIn(o, "schemas", NestedOf)]

(* The errors: a constraint with both or neither of operator and           *)
(* predicate, a condition without a field or conditions.                   *)
AllIn(o, key, Good(_)) ==
  Has(o, key) => \A k \in DOMAIN o.payload[key].payload : Good(o.payload[key].payload[k])
RECURSIVE ReadableUnion(_)
ReadableUnion(o) ==
  /\ (TextIn(o, "operator") = "") # (TextIn(o, "predicate") = "")
  /\ AllIn(o, "rules", ReadableUnion)
RECURSIVE ReadableCondition(_)
ReadableCondition(o) ==
  /\ Has(o, "conditions") \/ TextIn(o, "field") # ""
  /\ AllIn(o, "conditions", ReadableCondition)
ReadableIndex(o) == Has(o, "condition") => ReadableCondition(o.payload["condition"])
ReadableBase(o) == AllIn(o, "constraints", ReadableUnion) /\ AllIn(o, "indexes", ReadableIndex)
Readable(o) == ReadableBase(o) /\ AllIn(o, "schemas", ReadableBase)

----------------------------------------------------------------------------
SchemaAuthored(schema) == authored = schema /\ validated = JsonNull /\ storedText = <<>>
SchemaFormsInit == \E schema \in AuthoredSchemas : SchemaAuthored(schema)

(* The registry validates the map of a schema and stores its JSON.         *)
StoreSchema ==
  /\ storedText = <<>>
  /\ validated' = AsMap(authored)
  /\ storedText' = ToJSON(authored)
  /\ UNCHANGED authored

(* Another process, which has the text only.                               *)
ReloadSchema ==
  LET read == Parse(storedText)
  IN /\ storedText # <<>>
     /\ read.ok /\ Readable(read.payload)
     /\ authored' = FromJSON(read.payload)
     /\ validated' = JsonNull /\ storedText' = <<>>

SchemaFormsNext == StoreSchema \/ ReloadSchema
SchemaFormsSpec == SchemaFormsInit /\ [][SchemaFormsNext]_schemaFormVars

----------------------------------------------------------------------------
(* What JSON keeps: what is nowhere a value of another Go type, an         *)
(* explicit null, or a part of a reference that is not written.            *)

RECURSIVE PlainValue(_, _)
PlainValue(v, useNumber) ==
  CASE v.go \in {"string", "bool", "null"} -> TRUE
    [] v.go \in {"int64", "float64"} -> GoOf(JsonValue("number", v.payload), useNumber) = v
    [] v.go \in {"slice", "map"} -> \A k \in DOMAIN v.payload : PlainValue(v.payload[k], useNumber)
    [] OTHER -> FALSE
PlainList(list) == \A i \in DOMAIN list : PlainValue(list[i], TRUE)
PlainSet(l) == l.go = "zero" \/ (l.go # "null" /\ PlainValue(l, TRUE))
PlainRef(ref) ==
  CASE ref.kind = "none" -> TRUE
    [] ref.kind = "single" ->
         /\ ref.of.indexes = <<>> /\ ref.of.constraints = <<>> /\ PlainList(ref.of.values)
         /\ IsInlineRef(ref.of) <=> ref.of.id = ""
         /\ IsInlineRef(ref.of) => ref.of.type # ""
         /\ ref.of.id # "" => (ref.of.type = "" /\ ref.of.values = <<>>)
    [] OTHER -> \A i \in DOMAIN ref.of :
                  ref.of[i] = [RefOf(JsonObject(<<>>)) EXCEPT !.id = ref.of[i].id]
PlainNode(n) ==
  CASE n.type = "Field" -> PlainSet(n.value.default) /\ PlainRef(n.value.schema)
    [] n.type = "NestedSchema" ->
         PlainSet(n.value.default) /\ PlainRef(n.value.schema) /\ PlainList(n.value.values)
    [] n.type = "ConstraintRule" -> PlainSet(n.value.parameters)
    [] n.type = "IndexCondition" -> PlainSet(n.value.value)
    [] n.type = "MetadataMap" -> \A k \in DOMAIN n.value : PlainValue(n.value[k], FALSE)
    [] OTHER -> TRUE
Plain(s) == \A i \in DOMAIN Walk(s) : PlainNode(Walk(s)[i])

Unversioned(o) == [o EXCEPT !.payload = [k \in DOMAIN @ \ {"version"} |-> @[k]]]

(* Whatever rules, groups and conditions a schema nests, the JSON that     *)
(* ToJSON closes level by level can be read.  A schema of plain values     *)
(* comes back as it was, and the map that the registry validated is the    *)
(* JSON that it stored; any other schema is plain once it has come back,   *)
(* so that it is stored the same from then on.                             *)
SchemaFormsAgree ==
  storedText # <<>> =>
    LET read == Parse(storedText)
        back == FromJSON(read.payload)
    IN /\ read.ok /\ Readable(read.payload)
       /\ Plain(authored) => back = authored
       /\ Plain(authored) => Unversioned(read.payload) = Unversioned(validated)
       /\ Plain(back)
=============================================================================
