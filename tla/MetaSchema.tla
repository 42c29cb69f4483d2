----------------------------- MODULE MetaSchema -----------------------------
(***************************************************************************)
(* What may be registered as a schema: NormalizeSchema replaces the ids    *)
(* people write by UUIDs, ValidateSchema checks the document form of a     *)
(* schema against the meta-schema and its predicates, Compile resolves the *)
(* references.                                                             *)
(*                                                                         *)
(* An id is one of Uuids or a name.  A literal is its kind.  A reference   *)
(* of a field is one or several [id, type, values]; the indexes and the    *)
(* constraints that a reference may carry are in no document form and are  *)
(* left out, and so are descriptions, versions and metadata.  The default  *)
(* validator is strict, and the meta-schema's own shapes are the guards of *)
(* the Fits operators.                                                     *)
(***************************************************************************)
EXTENDS SequencesExt, FiniteSetsExt, Naturals

CONSTANTS
  Uuids,           \* the UUIDv7 ids that newUUID may draw
  WrittenSchemas,  \* the schemas that people write
  Unwritten

VARIABLES
  authoredSchema,  \* as it was written
  currentSchema,   \* as it is after normalization
  verdicts,        \* what ValidateSchema said, by environment
  resolvedSchema   \* the result of Compile

metaVars == <<authoredSchema, currentSchema, verdicts, resolvedSchema>>

Environments == {"development", "production"}

NoId == ""
Untyped == ""
NoRefs == [many |-> FALSE, refs |-> <<>>]
NoCondition == [kind |-> "none"]

PrimitiveTypes ==
  {"string", "number", "integer", "decimal", "boolean", "geometry", "bytes", "unknown"}
NumericTypes == {"number", "integer", "decimal", "string"}
FieldTypes ==
  PrimitiveTypes \union {"array", "enum", "object", "record", "union", "composite"}
InlineTypes == (PrimitiveTypes \ {"geometry"}) \union {"record"}

ValuesOf(f) == {f[x] : x \in DOMAIN f}
ScopesOf(S) == {S} \union ValuesOf(S.schemas)
NamesOfFields(fields) == {f.name : f \in ValuesOf(fields)}

----------------------------------------------------------------------------
(* NormalizeSchema.  Ids are of fields, indexes, constraints and nested    *)
(* schemas; those of a nested schema are found below its own.              *)

IsUuid(id) == id \in Uuids

IdsBelow(scope, at) ==
  UNION {{<<at, kind, id>> : id \in DOMAIN scope[kind]} :
           kind \in {"fields", "indexes", "constraints"}}
IdsIn(S) ==
  IdsBelow(S, NoId)
    \union {<<NoId, "schemas", s>> : s \in DOMAIN S.schemas}
    \union UNION {IdsBelow(S.schemas[s], s) : s \in DOMAIN S.schemas}

InSomeOrder(set) == FoldSet(LAMBDA x, s : Append(s, x), <<>>, set)

(* A UUID of its own for each id that is none.                             *)
IdMap(S) ==
  LET used == {k[3] : k \in IdsIn(S)}
      stale == InSomeOrder({k \in IdsIn(S) : ~IsUuid(k[3])})
      fresh == InSomeOrder(Uuids \ used)
  IN [k \in ToSet(stale) |-> fresh[CHOOSE i \in DOMAIN stale : stale[i] = k]]
NewIdOf(m, k) == IF k \in DOMAIN m THEN m[k] ELSE k[3]

(* A map under its new ids; what has no name is named by its old id.       *)
NormalizeMap(entries, at, kind, m) ==
  LET New(id) == NewIdOf(m, <<at, kind, id>>)
      Named(id) == [entries[id] EXCEPT !.name =
                      IF @ = "" /\ ~IsUuid(id) THEN id ELSE @]
      old == [new \in {New(id) : id \in DOMAIN entries} |->
                CHOOSE id \in DOMAIN entries : New(id) = new]
  IN [new \in DOMAIN old |-> Named(old[new])]

RewriteRefs(schema, m) ==
  [schema EXCEPT !.refs = [i \in DOMAIN @ |->
     [@[i] EXCEPT !.id = NewIdOf(m, <<NoId, "schemas", @>>)]]]
RewriteFields(fields, m) ==
  [id \in DOMAIN fields |-> [fields[id] EXCEPT !.schema = RewriteRefs(@, m)]]

NormalizeBase(scope, at, m) ==
  [scope EXCEPT
     !.fields = RewriteFields(NormalizeMap(@, at, "fields", m), m),
     !.indexes = NormalizeMap(@, at, "indexes", m),
     !.constraints = NormalizeMap(@, at, "constraints", m)]

(* Mutant: the references that nested schemas hold themselves are kept.    *)
NormalizeNestedFieldsOnly(schemas, m) ==
  NormalizeMap([s \in DOMAIN schemas |-> NormalizeBase(schemas[s], s, m)],
               NoId, "schemas", m)

NormalizeNested(schemas, m) ==
  NormalizeMap([s \in DOMAIN schemas |->
                  [NormalizeBase(schemas[s], s, m) EXCEPT !.schema = RewriteRefs(@, m)]],
               NoId, "schemas", m)

NormalizedSchema(S) ==
  LET m == IdMap(S)
  IN [NormalizeBase(S, NoId, m) EXCEPT !.schemas = NormalizeNested(@, m)]

----------------------------------------------------------------------------
(* The document form of references: a reference among several keeps its id *)
(* only, one that is alone keeps its type and its values if it has no id.  *)

InDocument(schema) ==
  [schema EXCEPT !.refs = [i \in DOMAIN @ |->
     IF schema.many \/ @[i].id # NoId
     THEN [@[i] EXCEPT !.type = Untyped, !.values = <<>>]
     ELSE @[i]]]
FieldsInDocument(fields) ==
  [id \in DOMAIN fields |-> [fields[id] EXCEPT !.schema = InDocument(@)]]
AsDocument(S) ==
  [S EXCEPT
     !.fields = FieldsInDocument(@),
     !.schemas = [s \in DOMAIN @ |-> [@[s] EXCEPT !.fields = FieldsInDocument(@),
                                                  !.schema = InDocument(@)]]]

HasSchema(f) == f.schema # NoRefs
ReferencedIds(f) == SelectSeq([i \in DOMAIN f.schema.refs |-> f.schema.refs[i].id],
                              LAMBDA id : id # NoId)
IsNamed(ref) == ref.id # NoId
IsInline(ref) == ~IsNamed(ref) /\ ref.type # Untyped

----------------------------------------------------------------------------
(* The shapes of the meta-schema.                                          *)

(* A union of one named reference, an array of them and an inline          *)
(* descriptor.                                                             *)
ReferenceFits(schema) ==
  \/ schema = NoRefs
  \/ \A i \in DOMAIN schema.refs : IsNamed(schema.refs[i])
  \/ ~schema.many /\ \A i \in DOMAIN schema.refs :
                       IsInline(schema.refs[i]) /\ schema.refs[i].type \in InlineTypes
FieldFits(f) == f.type \in FieldTypes /\ ReferenceFits(f.schema)
NestedFits(n) == n.type \in FieldTypes \union {Untyped} /\ ReferenceFits(n.schema)

----------------------------------------------------------------------------
(* The predicates about a field.                                           *)

KindFits(type, literal) ==
  CASE type = "string" -> literal = "text"
    [] type = "boolean" -> literal = "bool"
    [] type = "integer" -> literal = "int"
    [] type \in {"number", "decimal"} -> literal \in {"int", "float"}
    [] type \in {"array", "geometry"} -> literal = "list"
    [] type \in {"object", "record"} -> literal = "map"
    [] OTHER -> TRUE

PrimitivesProhibitSchema(f) == f.type \in PrimitiveTypes => ~HasSchema(f)

EnumValuesFit(type, values) ==
  /\ type \in NumericTypes
  /\ values # <<>>
  /\ \A v \in ToSet(values) : v = "null" \/ KindFits(IF type = "string" THEN type ELSE "number", v)
NamedEnumValid(S, id) ==
  /\ id \in DOMAIN S.schemas
  /\ EnumValuesFit(S.schemas[id].type, S.schemas[id].values)
  /\ DOMAIN S.schemas[id].fields = {}
InlineEnumValid(ref) == EnumValuesFit(ref.type, ref.values)
EnumReferenceValid(S, ref) ==
  IF IsNamed(ref) THEN NamedEnumValid(S, ref.id) ELSE InlineEnumValid(ref)
EnumFieldsValid(S, f) ==
  f.type = "enum" => /\ HasSchema(f)
                     /\ \A ref \in ToSet(f.schema.refs) : EnumReferenceValid(S, ref)

RequiresSeveral(f, type) ==
  f.type = type => f.schema.many /\ Len(f.schema.refs) >= 2
CompositeRequiresMultipleSchemas(f) == RequiresSeveral(f, "composite")
UnionRequiresMultipleSchemas(f) == RequiresSeveral(f, "union")

IsObjectLike(n) == DOMAIN n.fields # {} \/ n.type \in {"object", "record"}

(* A composite is let pass: it is to be validated elsewhere.               *)
RECURSIVE EffectivelyObject(_, _)
EffectivelyObject(S, id) ==
  LET n == S.schemas[id]
  IN CASE id \notin DOMAIN S.schemas -> TRUE
       [] n.type = "composite" -> TRUE
       [] n.type = "union" ->
            \A variant \in ToSet(ReferencedIds(n)) : EffectivelyObject(S, variant)
       [] OTHER -> IsObjectLike(n)
CompositeReferencesObjects(S, f) ==
  f.type = "composite" /\ f.schema.many =>
    \A id \in ToSet(ReferencedIds(f)) : EffectivelyObject(S, id)

ObjectRequiresSchema(f) == f.type = "object" => HasSchema(f)
ObjectSchemaHasFields(S, f) ==
  f.type = "object" /\ ReferencedIds(f) # <<>> =>
    LET id == Head(ReferencedIds(f))
    IN id \in DOMAIN S.schemas => DOMAIN S.schemas[id].fields # {}

DefaultMatchesType(f) == f.default = "null" \/ KindFits(f.type, f.default)

InlineDescriptorValid(f) ==
  ~f.schema.many =>
    \A ref \in ToSet(f.schema.refs) :
      IsInline(ref) => f.type \in {"record", "array", "enum"} /\ ref.type \in InlineTypes

ReferenceFormCorrect(f) ==
  HasSchema(f) =>
    LET refs == ToSet(f.schema.refs)
        Described(ref) == IsNamed(ref) \/ IsInline(ref)
    IN IF f.schema.many
       THEN /\ refs # {} /\ f.type \in {"union", "composite", "enum"}
            /\ \A ref \in refs : Described(ref)
       ELSE /\ f.type \notin {"union", "composite"}
            /\ f.type \in {"array", "record", "enum"} => \A ref \in refs : Described(ref)
            /\ f.type = "object" => \A ref \in refs : IsNamed(ref)

CollectionRequiresSchema(f) == f.type = "array" => HasSchema(f)
RecordSchemaCardinality(f) == f.type = "record" => ~f.schema.many

FieldValid(S, f) ==
  /\ FieldFits(f)
  /\ PrimitivesProhibitSchema(f) /\ EnumFieldsValid(S, f)
  /\ CollectionRequiresSchema(f) /\ ObjectRequiresSchema(f)
  /\ UnionRequiresMultipleSchemas(f) /\ CompositeRequiresMultipleSchemas(f)
  /\ DefaultMatchesType(f)
  /\ ObjectSchemaHasFields(S, f) /\ CompositeReferencesObjects(S, f)
  /\ ReferenceFormCorrect(f) /\ RecordSchemaCardinality(f) /\ InlineDescriptorValid(f)

----------------------------------------------------------------------------
(* The predicates about indexes, constraints, nested schemas and the whole.*)
(* Those about an index read the fields of the root, wherever it is.       *)

TypeNamed(S, name) ==
  LET found == {f \in ValuesOf(S.fields) : f.name = name}
  IN IF found = {} THEN Untyped ELSE (CHOOSE f \in found : TRUE).type

IndexFieldsNotEmpty(ix) == ix.fields # <<>>
IndexFieldsReferenceValid(S, ix) == ToSet(ix.fields) \subseteq NamesOfFields(S.fields)
SpatialIndexOnGeometry(S, ix) ==
  ix.type = "spatial" =>
    \A name \in ToSet(ix.fields) : TypeNamed(S, name) \in {"geometry", Untyped}
ConditionValueMatches(S, c) ==
  c.kind = "single" /\ TypeNamed(S, c.field) \in {"string", "boolean", "integer", "number", "decimal"}
    => c.value = "null" \/ KindFits(TypeNamed(S, c.field), c.value)
(* A single condition has a value, a group has conditions.                 *)
ConditionTypeExclusive(c) ==
  /\ c.kind = "single" => c.value # "null"
  /\ c.kind = "group" => c.conditions # <<>>
RECURSIVE ConditionValid(_, _)
ConditionValid(S, c) ==
  /\ ConditionTypeExclusive(c)
  /\ ConditionValueMatches(S, c)
  /\ c.kind = "group" => \A d \in ToSet(c.conditions) : ConditionValid(S, d)
IndexValid(S, ix) ==
  /\ IndexFieldsNotEmpty(ix) /\ IndexFieldsReferenceValid(S, ix)
  /\ SpatialIndexOnGeometry(S, ix) /\ ConditionValid(S, ix.condition)

(* A constraint is a rule with a predicate or a group of rules.            *)
ConstraintTypeExclusive(c) == (c.predicate # "") # (c.rules # <<>>)
RuleRequiresPredicate(c) == c.rules = <<>> => c.predicate # ""

(* The fields of a rule are looked up among the ids of the fields; a path  *)
(* goes on below an object.                                                *)
RECURSIVE PathResolves(_, _, _)
PathResolves(S, fields, path) ==
  /\ Head(path) \in DOMAIN fields
  /\ Len(path) > 1 =>
       LET f == fields[Head(path)]
           ids == ReferencedIds(f)
       IN /\ f.type = "object" /\ ~f.schema.many
          /\ ids # <<>> /\ ids[1] \in DOMAIN S.schemas
          /\ PathResolves(S, S.schemas[ids[1]].fields, Tail(path))

(* Any rule, in a group too, has those of all the constraints checked.     *)
RECURSIVE HasRule(_)
HasRule(c) == c.rules = <<>> \/ \E r \in ToSet(c.rules) : HasRule(r)
ConstraintFieldsExist(S) ==
  (\E scope \in ScopesOf(S) : \E c \in ValuesOf(scope.constraints) : HasRule(c)) =>
    \A scope \in ScopesOf(S) : \A c \in ValuesOf(scope.constraints) :
      c.predicate # "" /\ DOMAIN scope.fields # {} =>
        \A path \in ToSet(c.fields) : PathResolves(S, scope.fields, path)
RECURSIVE ConstraintValid(_)
ConstraintValid(c) ==
  /\ ConstraintTypeExclusive(c) /\ RuleRequiresPredicate(c)
  /\ \A r \in ToSet(c.rules) : ConstraintValid(r)

(* The root has no type, values or reference.                              *)
NestedSchemaExclusiveMode(n) ==
  (DOMAIN n.fields # {}) # (n.type # Untyped \/ n.values # <<>> \/ HasSchema(n))

SchemaNameRequired(S) == S.name # ""
SchemaReferenceExists(S) ==
  \A holder \in UNION {ValuesOf(scope.fields) : scope \in ScopesOf(S)} \union ValuesOf(S.schemas) :
    ToSet(ReferencedIds(holder)) \subseteq DOMAIN S.schemas
GlobalFieldIdUniqueness(S) ==
  \A s \in DOMAIN S.schemas :
    \A fields \in {S.fields} \union {S.schemas[t].fields : t \in DOMAIN S.schemas \ {s}} :
      DOMAIN S.schemas[s].fields \intersect DOMAIN fields = {}
FieldIdMustBeUuid(S) == \A k \in IdsIn(S) : IsUuid(k[3])

(* The development validator lacks the constraint on ids.                  *)
DocumentAccepted(S, environment) ==
  /\ environment = "production" => FieldIdMustBeUuid(S)
  /\ SchemaNameRequired(S) /\ DOMAIN S.fields # {}
  /\ SchemaReferenceExists(S) /\ GlobalFieldIdUniqueness(S) /\ ConstraintFieldsExist(S)
  /\ \A n \in ValuesOf(S.schemas) : NestedFits(n) /\ NestedSchemaExclusiveMode(n)
  /\ \A scope \in ScopesOf(S) :
       /\ \A f \in ValuesOf(scope.fields) : FieldValid(S, f)
       /\ \A ix \in ValuesOf(scope.indexes) : IndexValid(S, ix)
       /\ \A c \in ValuesOf(scope.constraints) : ConstraintValid(c)

----------------------------------------------------------------------------
(* Compile.  A field resolves to the names of the schemas it is made of,   *)
(* the type of its items or the values of its enumeration.                 *)

Resolved(targets, itemType, values) ==
  [targets |-> targets, itemType |-> itemType, values |-> values]
ResolvedScalar == Resolved(<<>>, Untyped, {})
CompileError == [error |-> TRUE]
CompileFailed(r) == r = CompileError

EffectiveType(n) ==
  IF n.type # Untyped THEN n.type ELSE IF DOMAIN n.fields # {} THEN "object" ELSE Untyped
AllExist(S, ids) == ToSet(ids) \subseteq DOMAIN S.schemas
NamesOf(S, ids) == [i \in DOMAIN ids |-> S.schemas[ids[i]].name]
AllIds(schema) == [i \in DOMAIN schema.refs |-> schema.refs[i].id]

CompileEnumField(S, f) ==
  LET refs == ToSet(f.schema.refs)
      ValuesAt(ref) == IF IsInline(ref) THEN ref.values ELSE S.schemas[ref.id].values
      Usable(ref) == IsInline(ref) \/ ref.id \in DOMAIN S.schemas
      values == UNION {ToSet(ValuesAt(ref)) : ref \in refs} \ {"null"}
  IN IF /\ refs # {}
        /\ \A ref \in refs : Usable(ref) /\ ValuesAt(ref) # <<>>
        /\ values # {}
     THEN Resolved(<<>>, Untyped, values) ELSE CompileError

CompileObjectField(S, f) ==
  IF ~f.schema.many /\ HasSchema(f) /\ AllExist(S, AllIds(f.schema))
  THEN Resolved(NamesOf(S, AllIds(f.schema)), Untyped, {}) ELSE CompileError

(* The type of the items of a schema that declares a value, none of one    *)
(* that declares documents.                                                *)
ContainerItemType(n) ==
  IF DOMAIN n.fields = {} /\ EffectiveType(n) \in PrimitiveTypes \ {"unknown"}
  THEN n.type ELSE Untyped
CompileContainerField(S, f) ==
  LET ref == f.schema.refs[1]
  IN CASE ~HasSchema(f) -> ResolvedScalar
       [] f.schema.many -> CompileError
       [] IsInline(ref) -> Resolved(<<>>, ref.type, {})
       [] ref.id \notin DOMAIN S.schemas -> CompileError
       [] OTHER -> Resolved(NamesOf(S, <<ref.id>>), ContainerItemType(S.schemas[ref.id]), {})

CompileUnionField(S, f) ==
  IF f.schema.many /\ AllExist(S, AllIds(f.schema))
  THEN Resolved(NamesOf(S, AllIds(f.schema)), Untyped, {}) ELSE CompileError

(* Its object parts, or the variants of its union parts.                   *)
CompositePart(S, id) ==
  LET n == S.schemas[id]
  IN CASE EffectiveType(n) \in {"object", Untyped} -> <<id>>
       [] EffectiveType(n) = "union" /\ n.schema.many /\ AllExist(S, AllIds(n.schema)) ->
            AllIds(n.schema)
       [] OTHER -> <<>>
CompileCompositeField(S, f) ==
  LET ids == AllIds(f.schema)
  IN IF /\ f.schema.many /\ AllExist(S, ids)
        /\ \A id \in ToSet(ids) : CompositePart(S, id) # <<>>
     THEN Resolved(NamesOf(S, FlattenSeq([i \in DOMAIN ids |-> CompositePart(S, ids[i])])),
                   Untyped, {})
     ELSE CompileError

CompileField(S, f) ==
  CASE f.type = "enum" -> CompileEnumField(S, f)
    [] f.type = "object" -> CompileObjectField(S, f)
    [] f.type \in {"array", "record"} -> CompileContainerField(S, f)
    [] f.type = "union" -> CompileUnionField(S, f)
    [] f.type = "composite" -> CompileCompositeField(S, f)
    [] OTHER -> ResolvedScalar

(* Every nested schema is compiled, a cycle ends in a recursive reference: *)
(* what a schema resolves to does not depend on the order.                 *)
CompileScope(S, scope) ==
  [name \in NamesOfFields(scope.fields) |->
     CompileField(S, CHOOSE f \in ValuesOf(scope.fields) : f.name = name)]
Compiled(S) ==
  LET scopes == [name \in {scope.name : scope \in ScopesOf(S)} |->
                   CompileScope(S, CHOOSE scope \in ScopesOf(S) : scope.name = name)]
  IN IF \E scope \in ValuesOf(scopes) : \E r \in ValuesOf(scope) : CompileFailed(r)
     THEN CompileError ELSE scopes

----------------------------------------------------------------------------
MetaInit ==
  /\ authoredSchema = Unwritten
  /\ currentSchema = Unwritten
  /\ verdicts = [e \in {} |-> FALSE]
  /\ resolvedSchema = Unwritten

WriteSchema(S) ==
  /\ authoredSchema = Unwritten
  /\ authoredSchema' = S
  /\ currentSchema' = S
  /\ UNCHANGED <<verdicts, resolvedSchema>>

(* What was said and made of the schema before is void.                    *)
NormalizeSchema ==
  /\ currentSchema # Unwritten
  /\ currentSchema' = NormalizedSchema(currentSchema)
  /\ verdicts' = [e \in {} |-> FALSE]
  /\ resolvedSchema' = Unwritten
  /\ UNCHANGED authoredSchema

ValidateSchema(e) ==
  /\ currentSchema # Unwritten
  /\ verdicts' = [x \in DOMAIN verdicts \union {e} |->
                    IF x = e THEN DocumentAccepted(AsDocument(currentSchema), e) ELSE verdicts[x]]
  /\ UNCHANGED <<authoredSchema, currentSchema, resolvedSchema>>

CompileSchema ==
  /\ currentSchema # Unwritten
  /\ resolvedSchema' = Compiled(currentSchema)
  /\ UNCHANGED <<authoredSchema, currentSchema, verdicts>>

MetaNext ==
  \/ \E S \in WrittenSchemas : WriteSchema(S)
  \/ NormalizeSchema
  \/ \E e \in Environments : ValidateSchema(e)
  \/ CompileSchema

MetaSpec == MetaInit /\ [][MetaNext]_metaVars

----------------------------------------------------------------------------
(* The predicates let some schemas pass that do not compile: a part of a   *)
(* composite that is a record, a composite or a union that names no        *)
(* schemas, an enumeration of nulls only; and they look up the fields that *)
(* rules name among ids, which are no names once they are UUIDs.           *)
PartUnchecked(S, f) ==
  /\ f.type = "composite"
  /\ \E id \in ToSet(ReferencedIds(f)) \intersect DOMAIN S.schemas :
       \/ S.schemas[id].type \in {"composite", "record"}
       \/ S.schemas[id].type = "union" /\ ~S.schemas[id].schema.many
EnumUnchecked(S, f) ==
  LET ValuesAt(ref) == IF IsNamed(ref) THEN S.schemas[ref.id].values ELSE ref.values
  IN /\ f.type = "enum" /\ HasSchema(f)
     /\ AllExist(S, ReferencedIds(f))
     /\ \A ref \in ToSet(f.schema.refs) : ToSet(ValuesAt(ref)) = {"null"}
AcceptedUnchecked(S) ==
  \E scope \in ScopesOf(S) : \E f \in ValuesOf(scope.fields) :
    PartUnchecked(S, f) \/ EnumUnchecked(S, f)
RulesNameFields(S) ==
  \E scope \in ScopesOf(S) : \E c \in ValuesOf(scope.constraints) :
    c.predicate # "" /\ c.fields # <<>>

(* The schema under the names that its schemas have after normalization.   *)
InNames(S) ==
  LET NamesGiven(entries) ==
        [id \in DOMAIN entries |-> [entries[id] EXCEPT !.name = IF @ = "" THEN id ELSE @]]
  IN [S EXCEPT !.fields = NamesGiven(@),
               !.schemas = NamesGiven([s \in DOMAIN @ |->
                             [@[s] EXCEPT !.fields = NamesGiven(@)]])]

AcceptedIn(e) == e \in DOMAIN verdicts /\ verdicts[e]

(* What the registry accepts can be used: a schema that ValidateSchema     *)
(* accepts compiles, and in production every field then resolves to the    *)
(* schemas, the types and the values that its author named, whatever ids   *)
(* NormalizeSchema gave them; and a schema that development accepts is     *)
(* accepted in production once it is normalized, but for a rule that names *)
(* fields: production looks their names up among the ids.                  *)
AcceptedCompiles ==
  currentSchema # Unwritten =>
    /\ resolvedSchema # Unwritten /\ ~AcceptedUnchecked(currentSchema) =>
         /\ (\E e \in Environments : AcceptedIn(e)) => ~CompileFailed(resolvedSchema)
         /\ AcceptedIn("production") => resolvedSchema = Compiled(InNames(authoredSchema))
    /\ /\ "production" \in DOMAIN verdicts
       /\ FieldIdMustBeUuid(currentSchema) /\ ~RulesNameFields(authoredSchema)
       /\ DocumentAccepted(AsDocument(InNames(authoredSchema)), "development")
       => verdicts["production"]
============================================================================
