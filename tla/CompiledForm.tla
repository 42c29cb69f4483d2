---------------------------- MODULE CompiledForm ----------------------------
(***************************************************************************)
(* SerializeCompiledSchema and DeserializeCompiledSchema: the file that    *)
(* lets a process skip Compile and Link.  The writer and the reader are    *)
(* two sets of functions that nothing ties together; here each is a table  *)
(* of forms, and one pair of operators runs the tables.                    *)
(*                                                                         *)
(* A file is the sequence of its words: a fixed width integer, a float, a  *)
(* boolean, a string with its length.  A word read at another width would  *)
(* shift all that follows; here it is refused at once.  Maps whose keys    *)
(* the code sorts are written in one fixed order.  An empty map and a nil  *)
(* map are one value.                                                      *)
(***************************************************************************)
EXTENDS SequencesExt, Integers

CONSTANTS
  CompiledSchemas,  \* the schemas a process compiles
  FormatVersions,   \* versions of the format that processes were built with
  FormatVersion,    \* compiledSchemaFormatVersion of this build
  WordBits          \* width of an integer

ASSUME FormatVersion \in FormatVersions

VARIABLES
  written,  \* the schema that the file was made from
  file,     \* its words
  whole,    \* whether the write reached the end
  loaded    \* what DeserializeCompiledSchema returned

compiledFormVars == <<written, file, whole, loaded>>

NoSchema == [none |-> TRUE]
NotLoaded == [ok |-> FALSE, value |-> NoSchema]

----------------------------------------------------------------------------
(* Forms.  A word is named by its width.                                   *)

Words == {"u8", "u16", "u32", "u64", "i64", "f64", "boolean", "bytes", "str"}

WordForm(w) == [form |-> "word", width |-> w]
NoForm == [form |-> "nothing"]
ListForm(of) == [form |-> "list", of |-> of]
RecordForm(parts) == [form |-> "record", parts |-> parts]
MapForm(key, of) == [form |-> "map", key |-> key, of |-> of]
UnorderedForm(key, of) == [form |-> "unordered", key |-> key, of |-> of]

(* A tag, then the form that it announces.  The writer goes from the kind  *)
(* of the value to the tag, the reader from the tag to the kind.           *)
TaggedForm(tags) == [form |-> "tagged", tags |-> tags]

(***************************************************************************)
(* normalizeLiteralAny.  A value says which Go type holds it; what is not  *)
(* of a JSON shape becomes one, an unsigned integer wraps.                 *)
(***************************************************************************)
Signed(n) == IF n >= 2^(WordBits - 1) THEN n - 2^WordBits ELSE n

RECURSIVE Normalized(_)
Normalized(v) ==
  CASE v.kind \in {"null", "string", "bool", "int64", "float64"} -> v
    [] v.kind \in {"int", "uint"} -> [kind |-> "int64", value |-> Signed(v.value)]
    [] v.kind = "float32" -> [kind |-> "float64", value |-> v.value]
    [] v.kind \in {"slice", "typed slice"} ->
         [kind |-> "slice",
          value |-> [i \in DOMAIN v.value |-> Normalized(v.value[i])]]
    [] v.kind \in {"map", "typed map"} ->
         [kind |-> "map", value |-> [k \in DOMAIN v.value |-> Normalized(v.value[k])]]
    [] v.kind = "pointer" -> Normalized(v.value)
    [] OTHER -> [kind |-> "null", value |-> ""]

----------------------------------------------------------------------------
(* The writer.                                                             *)

SliceWriters ==
  [strSlice |-> ListForm("str"), strSliceSlice |-> ListForm("strSlice"),
   int64Slice |-> ListForm("i64"), float64Slice |-> ListForm("f64"),
   boolSlice |-> ListForm("boolean"), bytesSlice |-> ListForm("bytes"),
   float2D |-> ListForm("float64Slice"), float3D |-> ListForm("float2D"),
   containerSlice |-> ListForm("container")]

AnyWriters ==
  [any |-> TaggedForm([null |-> <<0, "nothing">>, string |-> <<1, "str">>,
                       bool |-> <<2, "boolean">>, int64 |-> <<3, "i64">>,
                       float64 |-> <<4, "f64">>, slice |-> <<5, "anySlice">>,
                       map |-> <<6, "anyMap">>]),
   anySlice |-> ListForm("any"), anyMap |-> MapForm("str", "any")]

NumberWriters ==
  [intExact |-> TaggedForm([int8 |-> <<1, "i64">>, int16 |-> <<2, "i64">>,
                            int32 |-> <<3, "i64">>, int64 |-> <<4, "i64">>,
                            int |-> <<5, "i64">>, uint8 |-> <<6, "u64">>,
                            uint16 |-> <<7, "u64">>, uint32 |-> <<8, "u64">>,
                            uint64 |-> <<9, "u64">>, uint |-> <<10, "u64">>]),
   floatExact |-> TaggedForm([float32 |-> <<1, "f64">>, float64 |-> <<2, "f64">>])]

LiteralWriter ==
  TaggedForm([zero |-> <<0, "nothing">>, null |-> <<1, "nothing">>,
              string |-> <<2, "str">>, integer |-> <<3, "intExact">>,
              float |-> <<4, "floatExact">>, boolean |-> <<5, "boolean">>,
              object |-> <<6, "anyMap">>, array |-> <<7, "anySlice">>])

ResolvedWriters ==
  [resolved |-> RecordForm(<<<<"name", "str">>, <<"scope", "u8">>,
                             <<"holds", "resolvedBody">>, <<"abs", "strSlice">>,
                             <<"absParts", "strSliceSlice">>, <<"rel", "strSlice">>,
                             <<"relParts", "strSliceSlice">>>>),
   resolvedBody |-> TaggedForm([rule |-> <<1, "resolvedRule">>,
                                group |-> <<2, "resolvedGroup">>,
                                neither |-> <<0, "nothing">>]),
   resolvedRule |-> RecordForm(<<<<"predicate", "str">>, <<"fields", "strSlice">>,
                                 <<"parameters", "literal">>>>),
   resolvedGroup |-> RecordForm(<<<<"operator", "u8">>, <<"members", "resolvedSlice">>,
                                  <<"paths", "strSlice">>, <<"parts", "strSliceSlice">>>>),
   resolvedSlice |-> ListForm("resolved")]

(* A union without a payload has no form: the write fails.                 *)
ConstraintWriters ==
  [constraint |-> RecordForm(<<<<"name", "str">>, <<"description", "str">>,
                               <<"holds", "union">>>>),
   union |-> TaggedForm([rule |-> <<1, "rule">>, group |-> <<2, "group">>]),
   rule |-> RecordForm(<<<<"fields", "strSlice">>, <<"predicate", "str">>,
                         <<"parameters", "literal">>>>),
   group |-> RecordForm(<<<<"operator", "u8">>, <<"rules", "unionSlice">>>>),
   unionSlice |-> ListForm("union"),
   schemaConstraint |-> UnorderedForm("str", "constraint")]

IndexWriters ==
  [index |-> RecordForm(<<<<"name", "str">>, <<"description", "str">>, <<"order", "str">>,
                          <<"condition", "condition">>, <<"fields", "strSlice">>,
                          <<"type", "u8">>, <<"unique", "boolean">>>>),
   condition |-> TaggedForm([none |-> <<0, "nothing">>, some |-> <<1, "conditionUnion">>]),
   conditionUnion |-> TaggedForm([single |-> <<1, "single">>, group |-> <<2, "conditions">>]),
   single |-> RecordForm(<<<<"field", "str">>, <<"value", "literal">>, <<"operator", "u8">>>>),
   conditions |-> RecordForm(<<<<"operator", "u8">>, <<"conditions", "conditionSlice">>>>),
   conditionSlice |-> ListForm("conditionUnion")]

(* encodeDataContainer: the keys in order, each with a null mark, then a   *)
(* value in the form of the type that the key carries.                     *)
ContainerWriters ==
  [container |-> TaggedForm([none |-> <<0, "nothing">>, some |-> <<1, "positions">>]),
   positions |-> MapForm("u64", "slot")]

WrittenAs ==
  [Int |-> "i64", Float |-> "f64", String |-> "str", Bool |-> "boolean",
   Bytes |-> "bytes", Geometry |-> "float2D", Record |-> "anyMap",
   ArrayUnknown |-> "anySlice", ArrayInt |-> "int64Slice", ArrayFloat |-> "float64Slice",
   ArrayString |-> "strSlice", ArrayBool |-> "boolSlice", ArrayBytes |-> "bytesSlice",
   ArrayObject |-> "containerSlice", ArrayGeometry |-> "float3D", Unknown |-> "any"]

SectionWriters ==
  [compiled |-> RecordForm(<<<<"descriptors", "descriptors">>, <<"fieldTypes", "fieldTypes">>,
                             <<"localOffsets", "localOffsets">>, <<"fieldsMeta", "fieldsMeta">>,
                             <<"schemas", "slots">>, <<"schemasMeta", "schemasMeta">>,
                             <<"defaults", "container">>, <<"enums", "container">>,
                             <<"variants", "variants">>, <<"constraints", "resolvedSlice">>,
                             <<"indexes", "indexes">>,
                             <<"schemaConstraints", "schemaConstraints">>,
                             <<"refConstraints", "refConstraints">>>>),
   descriptors |-> ListForm("u32"), fieldTypes |-> ListForm("u8"),
   localOffsets |-> ListForm("u32"), fieldsMeta |-> ListForm("fieldMeta"),
   fieldMeta |-> RecordForm(<<<<"id", "str">>, <<"name", "str">>, <<"path", "str">>,
                              <<"parts", "strSlice">>, <<"description", "str">>,
                              <<"metadata", "anyMap">>, <<"default", "literal">>>>),
   slots |-> ListForm("slotOf"),
   slotOf |-> RecordForm(<<<<"start", "u16">>, <<"count", "u16">>, <<"footprint", "u32">>>>),
   schemasMeta |-> ListForm("schemaMeta"),
   schemaMeta |-> RecordForm(<<<<"id", "str">>, <<"name", "str">>, <<"description", "str">>,
                               <<"metadata", "anyMap">>>>),
   variants |-> MapForm("u32", "variantSlots"), variantSlots |-> ListForm("u8"),
   indexes |-> MapForm("str", "index"),
   schemaConstraints |-> ListForm("schemaConstraint"),
   refConstraints |-> MapForm("u32", "schemaConstraint")]

WordForms == [w \in Words |-> WordForm(w)] @@ [nothing |-> NoForm]

WriterForms ==
  WordForms @@ SliceWriters @@ AnyWriters @@ NumberWriters @@ [literal |-> LiteralWriter]
  @@ ResolvedWriters @@ ConstraintWriters @@ IndexWriters @@ ContainerWriters @@ SectionWriters

WordAt(width, v) == <<[width |-> width, value |-> v]>>
NotWritable == WordAt("error", 0)

(* The words that stand for a value.  "order" is the one in which Go       *)
(* happens to walk a map that the code does not sort.                      *)
RECURSIVE Put(_, _, _)
Put(name, v, order) ==
  LET form == WriterForms[name]
      PutEntry(k) ==
        IF form.of # "slot" THEN Put(form.of, v[k], order)
        ELSE IF v[k].null THEN WordAt("u8", 1)
        ELSE WordAt("u8", 0) \o Put(WrittenAs[k.type], v[k].value, order)
      Entries(keys) ==
        FoldLeft(LAMBDA out, k : out \o WordAt(form.key, k) \o PutEntry(k),
                 WordAt("u32", Len(keys)), keys)
      value == IF name = "any" THEN Normalized(v) ELSE v
  IN CASE form.form = "word" -> WordAt(form.width, v)
       [] form.form = "nothing" -> <<>>
       [] form.form = "list" ->
            FoldLeft(LAMBDA out, e : out \o Put(form.of, e, order), WordAt("u32", Len(v)), v)
       [] form.form = "record" ->
            FoldLeft(LAMBDA out, p : out \o Put(p[2], v[p[1]], order), <<>>, form.parts)
       [] form.form = "map" -> Entries(SetToSeq(DOMAIN v))
       [] form.form = "unordered" -> Entries(SelectSeq(order, LAMBDA k : k \in DOMAIN v))
       [] value.kind \notin DOMAIN form.tags -> NotWritable
       [] OTHER -> WordAt("u8", form.tags[value.kind][1])
                   \o Put(form.tags[value.kind][2], value.value, order)

(* By a process whose compiledSchemaFormatVersion is "version".            *)
SerializeCompiledSchema(cs, format, order) ==
  WordAt("magic", "ANSC") \o WordAt("u8", format) \o Put("compiled", cs, order)

Writable(words) == \A i \in DOMAIN words : words[i].width # "error"

----------------------------------------------------------------------------
(* The reader.  A tag leads to the kind of the value and to its form.      *)

SliceReaders ==
  [strSlice |-> ListForm("str"), strSliceSlice |-> ListForm("strSlice"),
   int64Slice |-> ListForm("i64"), float64Slice |-> ListForm("f64"),
   boolSlice |-> ListForm("boolean"), bytesSlice |-> ListForm("bytes"),
   float2D |-> ListForm("float64Slice"), float3D |-> ListForm("float2D"),
   containerSlice |-> ListForm("container")]

AnyReaders ==
  [any |-> TaggedForm((0 :> <<"null", "nothing">>) @@ (1 :> <<"string", "str">>)
                      @@ (2 :> <<"bool", "boolean">>) @@ (3 :> <<"int64", "i64">>)
                      @@ (4 :> <<"float64", "f64">>) @@ (5 :> <<"slice", "anySlice">>)
                      @@ (6 :> <<"map", "anyMap">>)),
   anySlice |-> ListForm("any"), anyMap |-> MapForm("str", "any")]

NumberReaders ==
  [intExact |-> TaggedForm((1 :> <<"int8", "i64">>) @@ (2 :> <<"int16", "i64">>)
                           @@ (3 :> <<"int32", "i64">>) @@ (4 :> <<"int64", "i64">>)
                           @@ (5 :> <<"int", "i64">>) @@ (6 :> <<"uint8", "u64">>)
                           @@ (7 :> <<"uint16", "u64">>) @@ (8 :> <<"uint32", "u64">>)
                           @@ (9 :> <<"uint64", "u64">>) @@ (10 :> <<"uint", "u64">>)),
   floatExact |-> TaggedForm((1 :> <<"float32", "f64">>) @@ (2 :> <<"float64", "f64">>))]

LiteralReader ==
  TaggedForm((0 :> <<"zero", "nothing">>) @@ (1 :> <<"null", "nothing">>)
             @@ (2 :> <<"string", "str">>) @@ (3 :> <<"integer", "intExact">>)
             @@ (4 :> <<"float", "floatExact">>) @@ (5 :> <<"boolean", "boolean">>)
             @@ (6 :> <<"object", "anyMap">>) @@ (7 :> <<"array", "anySlice">>))

ResolvedReaders ==
  [resolved |-> RecordForm(<<<<"name", "str">>, <<"scope", "u8">>,
                             <<"holds", "resolvedBody">>, <<"abs", "strSlice">>,
                             <<"absParts", "strSliceSlice">>, <<"rel", "strSlice">>,
                             <<"relParts", "strSliceSlice">>>>),
   resolvedBody |-> TaggedForm((0 :> <<"neither", "nothing">>)
                               @@ (1 :> <<"rule", "resolvedRule">>)
                               @@ (2 :> <<"group", "resolvedGroup">>)),
   resolvedSlice |-> ListForm("resolved")]

(* Mutant: a resolved rule is read in the order of a raw one.              *)
ResolvedRuleAsRaw ==
  RecordForm(<<<<"fields", "strSlice">>, <<"predicate", "str">>, <<"parameters", "literal">>>>)

ResolvedRuleReader ==
  RecordForm(<<<<"predicate", "str">>, <<"fields", "strSlice">>, <<"parameters", "literal">>>>)
ResolvedGroupReader ==
  RecordForm(<<<<"operator", "u8">>, <<"members", "resolvedSlice">>, <<"paths", "strSlice">>,
               <<"parts", "strSliceSlice">>>>)

ConstraintReaders ==
  [constraint |-> RecordForm(<<<<"name", "str">>, <<"description", "str">>,
                               <<"holds", "union">>>>),
   union |-> TaggedForm((1 :> <<"rule", "rule">>) @@ (2 :> <<"group", "group">>)),
   rule |-> RecordForm(<<<<"fields", "strSlice">>, <<"predicate", "str">>,
                         <<"parameters", "literal">>>>),
   group |-> RecordForm(<<<<"operator", "u8">>, <<"rules", "unionSlice">>>>),
   unionSlice |-> ListForm("union"),
   schemaConstraint |-> MapForm("str", "constraint")]

IndexReaders ==
  [index |-> RecordForm(<<<<"name", "str">>, <<"description", "str">>, <<"order", "str">>,
                          <<"condition", "condition">>, <<"fields", "strSlice">>,
                          <<"type", "u8">>, <<"unique", "boolean">>>>),
   condition |-> TaggedForm((0 :> <<"none", "nothing">>) @@ (1 :> <<"some", "conditionUnion">>))]

ConditionReaders ==
  [conditionUnion |-> TaggedForm((1 :> <<"single", "single">>) @@ (2 :> <<"group", "conditions">>)),
   single |-> RecordForm(<<<<"field", "str">>, <<"value", "literal">>, <<"operator", "u8">>>>),
   conditions |-> RecordForm(<<<<"operator", "u8">>, <<"conditions", "conditionSlice">>>>),
   conditionSlice |-> ListForm("conditionUnion")]

ContainerReaders ==
  [container |-> TaggedForm((0 :> <<"none", "nothing">>) @@ (1 :> <<"some", "positions">>)),
   positions |-> MapForm("u64", "slot")]

ReadAs ==
  [Int |-> "i64", Float |-> "f64", String |-> "str", Bool |-> "boolean",
   Bytes |-> "bytes", Geometry |-> "float2D", Record |-> "anyMap",
   ArrayUnknown |-> "anySlice", ArrayInt |-> "int64Slice", ArrayFloat |-> "float64Slice",
   ArrayString |-> "strSlice", ArrayBool |-> "boolSlice", ArrayBytes |-> "bytesSlice",
   ArrayObject |-> "containerSlice", ArrayGeometry |-> "float3D", Unknown |-> "any"]

FieldReaders ==
  [descriptors |-> ListForm("u32"), fieldTypes |-> ListForm("u8"),
   localOffsets |-> ListForm("u32"), fieldsMeta |-> ListForm("fieldMeta"),
   fieldMeta |-> RecordForm(<<<<"id", "str">>, <<"name", "str">>, <<"path", "str">>,
                              <<"parts", "strSlice">>, <<"description", "str">>,
                              <<"metadata", "anyMap">>, <<"default", "literal">>>>)]

SectionReaders ==
  [compiled |-> RecordForm(<<<<"descriptors", "descriptors">>, <<"fieldTypes", "fieldTypes">>,
                             <<"localOffsets", "localOffsets">>, <<"fieldsMeta", "fieldsMeta">>,
                             <<"schemas", "slots">>, <<"schemasMeta", "schemasMeta">>,
                             <<"defaults", "container">>, <<"enums", "container">>,
                             <<"variants", "variants">>, <<"constraints", "resolvedSlice">>,
                             <<"indexes", "indexes">>,
                             <<"schemaConstraints", "schemaConstraints">>,
                             <<"refConstraints", "refConstraints">>>>),
   slots |-> ListForm("slotOf"),
   slotOf |-> RecordForm(<<<<"start", "u16">>, <<"count", "u16">>, <<"footprint", "u32">>>>),
   schemasMeta |-> ListForm("schemaMeta"),
   schemaMeta |-> RecordForm(<<<<"id", "str">>, <<"name", "str">>, <<"description", "str">>,
                               <<"metadata", "anyMap">>>>),
   variants |-> MapForm("u32", "variantSlots"), variantSlots |-> ListForm("u8"),
   indexes |-> MapForm("str", "index"),
   schemaConstraints |-> ListForm("schemaConstraint"),
   refConstraints |-> MapForm("u32", "schemaConstraint")]

ReaderForms ==
  WordForms @@ SliceReaders @@ AnyReaders @@ NumberReaders @@ [literal |-> LiteralReader]
  @@ ResolvedReaders @@ [resolvedRule |-> ResolvedRuleReader, resolvedGroup |-> ResolvedGroupReader]
  @@ ConstraintReaders @@ IndexReaders @@ ConditionReaders @@ ContainerReaders
  @@ FieldReaders @@ SectionReaders

(* What is left of the words, and whether all that was asked for was       *)
(* there.                                                                  *)
Got(value, rest) == [ok |-> TRUE, value |-> value, rest |-> rest]
NotRead == [ok |-> FALSE, value |-> 0, rest |-> <<>>]

TakeWord(width, in) ==
  IF in # <<>> /\ Head(in).width = width THEN Got(Head(in).value, Tail(in)) ELSE NotRead

(* The step of a fold over what has to be read: nothing after a failure.   *)
ThenRead(got, more(_), Into(_, _)) ==
  IF ~got.ok THEN got
  ELSE LET next == more(got.rest)
       IN IF next.ok THEN Got(Into(got.value, next.value), next.rest) ELSE NotRead

RECURSIVE TakeForm(_, _)
TakeForm(name, in) ==
  LET form == ReaderForms[name]
      TakeEntry(rest) ==
        LET key == TakeWord(form.key, rest)
            null == TakeWord("u8", key.rest)
            As(got, value) == IF got.ok THEN Got(key.value :> value, got.rest) ELSE NotRead
        IN IF ~key.ok THEN NotRead
           ELSE IF form.of # "slot"
             THEN LET got == TakeForm(form.of, key.rest) IN As(got, got.value)
           ELSE IF ~null.ok THEN NotRead
           ELSE IF null.value = 1 THEN As(null, [null |-> TRUE])
           ELSE LET got == TakeForm(ReadAs[key.value.type], null.rest)
                IN As(got, [null |-> FALSE, value |-> got.value])
      Counted(zero, element(_), Into(_, _)) ==
        LET n == TakeWord("u32", in)
        IN IF ~n.ok THEN NotRead
           ELSE FoldLeft(LAMBDA got, i : ThenRead(got, element, Into),
                         Got(zero, n.rest), [i \in 1..n.value |-> i])
      tag == TakeWord("u8", in)
  IN CASE form.form = "word" -> TakeWord(form.width, in)
       [] form.form = "nothing" -> Got("", in)
       [] form.form = "list" ->
            Counted(<<>>, LAMBDA rest : TakeForm(form.of, rest), LAMBDA all, e : Append(all, e))
       [] form.form = "record" ->
            FoldLeft(LAMBDA got, p :
                       ThenRead(got, LAMBDA rest : TakeForm(p[2], rest),
                                LAMBDA all, e : all @@ (p[1] :> e)),
                     Got(<<>>, in), form.parts)
       [] form.form = "map" -> Counted(<<>>, TakeEntry, LAMBDA all, e : e @@ all)
       [] ~tag.ok -> NotRead
       [] tag.value \notin DOMAIN form.tags -> NotRead
       [] OTHER -> LET kind == form.tags[tag.value]
                       got == TakeForm(kind[2], tag.rest)
                   IN IF got.ok THEN Got([kind |-> kind[1], value |-> got.value], got.rest)
                      ELSE NotRead

DeserializeCompiledSchema(words) ==
  LET magic == TakeWord("magic", words)
      format == TakeWord("u8", magic.rest)
      got == TakeForm("compiled", format.rest)
  IN IF magic.ok /\ format.ok /\ format.value = FormatVersion /\ got.ok
     THEN [ok |-> TRUE, value |-> got.value] ELSE NotLoaded

----------------------------------------------------------------------------
CompiledFormInit ==
  /\ written = NoSchema /\ file = <<>> /\ whole = FALSE
  /\ loaded = NotLoaded

(* A process of some build writes the file, and may die before the end.    *)
WriteCompiled(cs, format, words) ==
  /\ file = <<>>
  /\ Writable(words)
  /\ \E length \in 1..Len(words) :
       /\ file' = SubSeq(words, 1, length)
       /\ whole' = (length = Len(words) /\ format = FormatVersion)
  /\ written' = cs
  /\ UNCHANGED loaded

LoadCompiled ==
  /\ file # <<>>
  /\ loaded' = DeserializeCompiledSchema(file)
  /\ UNCHANGED <<written, file, whole>>

(* The ids of the constraints of a schema, in every order.                 *)
ConstraintOrders(cs) ==
  SetToSeqs(UNION {DOMAIN c : c \in ToSet(cs.schemaConstraints)
                                    \union {cs.refConstraints[k] : k \in DOMAIN cs.refConstraints}})

CompiledFormNext ==
  \/ \E cs \in CompiledSchemas, format \in FormatVersions :
       \E order \in ConstraintOrders(cs) :
         WriteCompiled(cs, format, SerializeCompiledSchema(cs, format, order))
  \/ LoadCompiled

CompiledFormSpec == CompiledFormInit /\ [][CompiledFormNext]_compiledFormVars

----------------------------------------------------------------------------
(* What the format says it keeps: everything, with the values nested in    *)
(* records, arrays and metadata in their JSON shape.                       *)

KeptMap(m) == [k \in DOMAIN m |-> Normalized(m[k])]
KeptLiteral(l) ==
  IF l.kind \in {"object", "array"} THEN [l EXCEPT !.value = KeptMap(@)] ELSE l

RECURSIVE KeptRules(_)
KeptRules(c) ==    \* a rule, or a group of them, resolved or not
  CASE c.kind = "rule" -> [c EXCEPT !.value.parameters = KeptLiteral(@)]
    [] c.kind = "group" /\ "rules" \in DOMAIN c.value ->
         [c EXCEPT !.value.rules = [i \in DOMAIN @ |-> KeptRules(@[i])]]
    [] c.kind = "group" ->
         [c EXCEPT !.value.members = [i \in DOMAIN @ |-> [@[i] EXCEPT !.holds = KeptRules(@)]]]
    [] OTHER -> c

RECURSIVE KeptCondition(_)
KeptCondition(c) ==
  CASE c.kind = "some" -> [c EXCEPT !.value = KeptCondition(@)]
    [] c.kind = "single" -> [c EXCEPT !.value.value = KeptLiteral(@)]
    [] c.kind = "group" ->
         [c EXCEPT !.value.conditions = [i \in DOMAIN @ |-> KeptCondition(@[i])]]
    [] OTHER -> c

RECURSIVE KeptContainer(_)
KeptSlot(type, slot) ==
  IF slot.null THEN slot
  ELSE [slot EXCEPT !.value =
          CASE type = "Unknown" -> Normalized(@)
            [] type \in {"Record", "ArrayUnknown"} -> KeptMap(@)
            [] type = "ArrayObject" -> [i \in DOMAIN @ |-> KeptContainer(@[i])]
            [] OTHER -> @]
KeptContainer(c) ==
  IF c.kind = "none" THEN c
  ELSE [c EXCEPT !.value = [k \in DOMAIN @ |-> KeptSlot(k.type, @[k])]]

KeptConstraints(sc) == [id \in DOMAIN sc |-> [sc[id] EXCEPT !.holds = KeptRules(@)]]

Kept(cs) ==
  [cs EXCEPT
    !.fieldsMeta = [i \in DOMAIN @ |-> [@[i] EXCEPT !.metadata = KeptMap(@),
                                                   !.default = KeptLiteral(@)]],
    !.schemasMeta = [i \in DOMAIN @ |-> [@[i] EXCEPT !.metadata = KeptMap(@)]],
    !.defaults = KeptContainer(@), !.enums = KeptContainer(@),
    !.constraints = [i \in DOMAIN @ |-> [@[i] EXCEPT !.holds = KeptRules(@)]],
    !.indexes = [id \in DOMAIN @ |-> [@[id] EXCEPT !.condition = KeptCondition(@)]],
    !.schemaConstraints = [i \in DOMAIN @ |-> KeptConstraints(@[i])],
    !.refConstraints = [k \in DOMAIN @ |-> KeptConstraints(@[k])]]

(* A file that was written to its end by a build of the same format loads  *)
(* as the schema it was made from, in whatever order Go walked the maps;   *)
(* any other file is refused, never loaded in part.                        *)
(* SerializeCompiledSchema, DeserializeCompiledSchema.                     *)
CompiledReadsBack ==
  /\ loaded.ok => whole /\ loaded.value = Kept(written)
  /\ whole => DeserializeCompiledSchema(file).ok

=============================================================================
