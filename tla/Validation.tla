----------------------------- MODULE Validation -----------------------------
(***************************************************************************)
(* DocumentValidator: a compiled schema becomes a graph of nodes, run in   *)
(* one of the topological orders of its dependencies (finalize walks a Go  *)
(* map), each adding issues which the mode filters.                        *)
(*                                                                         *)
(* A document is an object: a function from field names.  Atoms are model  *)
(* values, an array is the function from Items to a sequence.  Geometry,   *)
(* which has no working check, and the other scalar types are left out; a  *)
(* predicate holds when the values at its fields are equal.  The builder   *)
(* is the one for compiled schemas; the one for raw schemas, which builds  *)
(* some parts of unions, makes the same nodes.                             *)
(***************************************************************************)
EXTENDS SequencesExt, FiniteSetsExt, Naturals

CONSTANTS
  Texts, Numerals, Null, Missing, Items,
  ItemKey, RootKey,  \* the fields that wrap an item and a variant
  SchemaOf,          \* the named schemas
  RootSchemas,       \* those that validators are made for
  DocumentsOf,       \* the documents given to each
  FurtherOf,         \* those that may follow in one CreateMany
  MaxDepth           \* ValidationConfig.MaxDepth

VARIABLES
  validating,    \* the schema, the document and the mode
  visitedNodes,  \* whether each node that has been visited succeeded
  issues,
  priorResult    \* for the document before: what was found, what its result holds

validationVars == <<validating, visitedNodes, issues, priorResult>>

ValidationModes == {"strict", "partial", "loose"}

----------------------------------------------------------------------------
(* Values.                                                                 *)

KindOf(v) ==
  CASE v = Missing -> "missing"
    [] v = Null -> "null"
    [] v \in Texts -> "string"
    [] v \in Numerals -> "number"
    [] OTHER -> IF Items \in DOMAIN v THEN "array" ELSE "object"

ChildAt(v, key) ==
  IF KindOf(v) = "object" /\ key \in DOMAIN v THEN v[key]
  ELSE IF KindOf(v) = "array" /\ key \in DOMAIN v[Items] THEN v[Items][key]
  ELSE Missing

ValueAt(root, path) == FoldLeft(ChildAt, root, path)

SchemaField(name, required, type, of) ==
  [name |-> name, required |-> required, type |-> type, of |-> of, ref |-> {}]
NamesIn(fields) == {f.name : f \in ToSet(fields)}
WrappedField(key, S) ==
  SchemaField(key, FALSE, SchemaOf[S].type, IF SchemaOf[S].type = "object" THEN <<S>> ELSE <<>>)

----------------------------------------------------------------------------
(* Constraints.  A group has several rules, each a set of paths.           *)

FieldsOf(c) == UNION c.rules
PredicateHolds(c, data) ==
  LET Same(rule) == Cardinality({ValueAt(data, p) : p \in rule}) = 1
  IN IF c.any THEN \E rule \in c.rules : Same(rule) ELSE \A rule \in c.rules : Same(rule)

TopLevelFor(S, at) ==
  {c \in SchemaOf[S].constraints : at # <<>> /\ \E p \in FieldsOf(c) : IsPrefix(at, p)}

(* What is more specific overrides by name: the top level, then the        *)
(* reference, then the nested schema.                                      *)
EffectiveConstraints(nested, ref, top) ==
  LET Over(high, low) == high \union {c \in low : \A d \in high : d.name # c.name}
  IN Over(top, Over(ref, nested))

----------------------------------------------------------------------------
(* Graphs: nodes in the order of their creation, the names of the          *)
(* constraints added, and the ids of the nodes the last call returned.     *)

GraphNode(kind, path, deps, about) ==
  [kind |-> kind, path |-> path, deps |-> deps, about |-> about]
EmptyGraph == [nodes |-> <<>>, names |-> {}, ids |-> {}]
WithIds(g, ids) == [g EXCEPT !.ids = ids]
AddNode(g, node) ==
  [g EXCEPT !.nodes = Append(@, node), !.ids = @ \union {Len(g.nodes) + 1}]
NewestId(g) == Len(g.nodes)

(* A name that has been added, wherever it was mounted, is not added again.*)
AddConstraint(g, c, at, deps) ==
  IF c.name \in g.names THEN g
  ELSE [AddNode(g, GraphNode("constraint", <<>>, deps, [c |-> c, at |-> at]))
          EXCEPT !.names = @ \union {c.name}]

RECURSIVE BuildSchema(_, _, _, _, _, _, _, _), BuildField(_, _, _, _, _, _, _)

SubGraph(field, top, building, lax) ==
  BuildSchema(EmptyGraph, <<field>>, {}, <<>>, top, building, FALSE, lax).nodes

BuildObject(g, field, path, top, building, lax) ==
  LET S == field.of[1]
      Mounted(nested) ==
        AddNode(WithIds(nested, g.ids), GraphNode("barrier", path, nested.ids, <<>>))
  IN IF S \in building
     THEN AddNode(g, GraphNode("recursion", path, {},
                               [field |-> field, top |-> top, building |-> building]))
     ELSE Mounted(BuildSchema(g, SchemaOf[S].fields,
                    EffectiveConstraints(SchemaOf[S].constraints, field.ref,
                                         TopLevelFor(top, path)),
                    path, top, building \union {S}, ~lax, FALSE))

VariantGraphs(Ss, top, building, lax) ==
  [i \in DOMAIN Ss |-> SubGraph(WrappedField(RootKey, Ss[i]), top, building, lax)]

ObjectParts(field) == SelectSeq(field.of, LAMBDA S : SchemaOf[S].type = "object")
UnionParts(field) == SelectSeq(field.of, LAMBDA S : SchemaOf[S].type = "union")
Vocabulary(field) ==
  LET Variants(S) == ToSet(SchemaOf[S].of)
  IN UNION {NamesIn(SchemaOf[S].fields) :
              S \in ToSet(ObjectParts(field))
                    \union UNION {Variants(U) : U \in ToSet(UnionParts(field))}}

(* The fields of the object parts do not wait for the vocabulary check,    *)
(* and objects below a composite accept fields they do not know.           *)
BuildComposite(g, field, path, top, building) ==
  LET g1 == AddNode(g, GraphNode("unexpected", path, {}, Vocabulary(field)))
      gate == NewestId(g1)
      Gated(h) == [h EXCEPT !.nodes = [i \in DOMAIN @ |->
                     IF i \in h.ids THEN [@[i] EXCEPT !.deps = @ \union {gate}] ELSE @[i]]]
      Added(h, built) == WithIds(built, h.ids \union built.ids)
      Part(h, S) ==
        Added(h, Gated(BuildSchema(h, SchemaOf[S].fields,
              EffectiveConstraints(SchemaOf[S].constraints, {}, TopLevelFor(top, path)),
              path, top, building \union {S}, FALSE, TRUE)))
      Union(h, U) == AddNode(h, GraphNode("union", path, {gate},
                       VariantGraphs(SchemaOf[U].of, top, building, TRUE)))
  IN FoldLeft(Union, FoldLeft(Part, g1, ObjectParts(field)), UnionParts(field))

BuildField(g, field, at, gate, top, building, lax) ==
  LET path == Append(at, field.name)
      g1 == IF field.required
            THEN AddNode(g, GraphNode("required", path, gate, field.name)) ELSE g
      deps1 == IF field.required THEN {NewestId(g1)} ELSE gate
      scalar == field.type \in {"string", "number"}
      g2 == IF scalar THEN AddNode(g1, GraphNode("type", path, deps1, field.type)) ELSE g1
      deps2 == IF scalar THEN {NewestId(g2)} ELSE deps1
  IN CASE scalar -> g2
       [] field.type = "enum" -> AddNode(g2, GraphNode("enum", path, deps2, field.of))
       [] field.type = "object" -> BuildObject(g2, field, path, top, building, lax)
       [] field.type \in {"array", "record"} ->
            AddNode(g2, GraphNode(field.type, path, deps2,
              SubGraph(WrappedField(ItemKey, field.of[1]), top, building, FALSE)))
       [] field.type = "union" ->
            AddNode(g2, GraphNode("union", path, deps2,
                                  VariantGraphs(field.of, top, building, FALSE)))
       [] field.type = "composite" -> BuildComposite(g2, field, path, top, building)

(* The constraints wait for the fields, and a barrier for the constraints. *)
BuildConstraints(g, constraints, at) ==
  FoldSet(LAMBDA c, h : AddConstraint(h, c, at, g.ids), WithIds(g, {}), constraints)

CloseSchema(g, at, gate) ==
  IF g.ids = {} THEN WithIds(g, gate)
  ELSE WithIds(AddNode(g, GraphNode("barrier", at, g.ids, <<>>)),
               gate \union {Len(g.nodes) + 1})

BuildFields(g, gate, fields, constraints, at, top, building, lax) ==
  CloseSchema(
    BuildConstraints(
      FoldLeft(LAMBDA h, f : BuildField(h, f, at, gate, top, building, lax), WithIds(g, {}), fields),
      constraints, at),
    at, gate)

BuildSchema(g, fields, constraints, at, top, building, sealed, lax) ==
  BuildFields(IF sealed THEN AddNode(g, GraphNode("unexpected", at, {}, NamesIn(fields))) ELSE g,
              IF sealed THEN {Len(g.nodes) + 1} ELSE {},
              fields, constraints, at, top, building, lax)

(* The graph of a validator, and the cached one of a recursive field.      *)
RootGraph(S) ==
  BuildSchema(EmptyGraph, SchemaOf[S].fields, SchemaOf[S].constraints, <<>>, S,
              {}, TRUE, FALSE).nodes
RecursiveGraph(marker) ==
  LET S == marker.field.of[1]
  IN BuildSchema(EmptyGraph, SchemaOf[S].fields,
                 EffectiveConstraints(SchemaOf[S].constraints, marker.field.ref, {}),
                 <<>>, marker.top, marker.building, TRUE, FALSE).nodes

----------------------------------------------------------------------------
(* Execution.                                                              *)

Issue(code, path) == [code |-> code, path |-> path]
Rebased(found, drop, path) ==
  {Issue(i.code, IF i.path = <<>> THEN (IF drop = 0 THEN path ELSE <<>>)
                 ELSE path \o SubSeq(i.path, drop + 1, Len(i.path))) : i \in found}

ReportedIn(mode, i) ==
  /\ i.code = "REQUIRED_FIELD_MISSING" => mode = "strict"
  /\ i.code = "UNEXPECTED_FIELD" => mode # "loose"

EvaluateWithPresenceCheck(c, data, mode, present) ==
  IF FieldsOf(c) \subseteq present
  THEN IF PredicateHolds(c, data) THEN {} ELSE {Issue("CONSTRAINT_VIOLATION", <<>>)}
  ELSE CASE mode = "strict" -> {Issue("CONSTRAINT_INCOMPLETE", <<>>)}
         [] mode = "partial" /\ FieldsOf(c) \intersect present # {} ->
              {Issue("CONSTRAINT_PARTIAL_UPDATE", <<>>)}
         [] OTHER -> {}

(* The mount of a rule is where its fields and its data are, a group's     *)
(* members look from the root of the traversal.                            *)
ExecuteConstraint(c, at, root, mode) ==
  LET mount == IF Cardinality(c.rules) > 1 THEN <<>> ELSE at
      present == {p \in FieldsOf(c) : ValueAt(root, mount \o p) # Missing}
  IN IF ValueAt(root, mount) = Missing THEN {}
     ELSE EvaluateWithPresenceCheck(c, ValueAt(root, mount), mode, present)

(* Mutant: required fields are not looked for where they are absent.       *)
SkippedAlsoRequired(node, root) ==
  node.path # <<>> /\ ValueAt(root, node.path) \in {Missing, Null}

SkippedAsAbsent(node, root) ==
  /\ node.kind # "required"
  /\ node.path # <<>>
  /\ ValueAt(root, node.path) \in {Missing, Null}

RECURSIVE Execute(_, _, _, _)

(* One iteration of traverse: a node whose dependency failed, or whose     *)
(* value is absent, counts as a success.                                   *)
Visit(graph, run, n, root, mode, depth) ==
  LET node == graph[n]
      gated == \E d \in node.deps : ~run.ok[d]
      Found(found) ==
        [ok |-> [m \in DOMAIN run.ok \union {n} |-> IF m = n THEN found = {} ELSE run.ok[m]],
         issues |-> run.issues \union {i \in found : ReportedIn(mode, i)}]
  IN Found(IF gated \/ SkippedAsAbsent(node, root) THEN {}
           ELSE Execute(node, root, mode, depth))

Run(graph, root, mode, depth) ==
  FoldLeft(LAMBDA run, n : Visit(graph, run, n, root, mode, depth),
           [ok |-> <<>>, issues |-> {}], [n \in DOMAIN graph |-> n])

(* The nodes that open a traversal copy its issues before the next one.    *)
Traverse(graph, root, mode, depth) == Run(graph, root, mode, depth).issues

(* Nodes that open traversals of their own.  What is left of the depth     *)
(* goes to the items of a container; variants and recursive graphs get the *)
(* whole of it.                                                            *)
TooDeep(node, depth) == Len(node.path) >= depth
DepthIssue(node) == {Issue("MAX_DEPTH_EXCEEDED", node.path)}

ExecuteItem(node, item, key, mode, depth) ==
  Rebased(Traverse(node.about, [k \in {ItemKey} |-> item], mode, depth - Len(node.path)),
          1, Append(node.path, key))

ExecuteArray(node, v, mode, depth) ==
  IF TooDeep(node, depth) THEN DepthIssue(node)
  ELSE UNION {ExecuteItem(node, v[Items][i], i, mode, depth) : i \in DOMAIN v[Items]}

ExecuteRecord(node, v, mode, depth) ==
  IF TooDeep(node, depth) THEN DepthIssue(node)
  ELSE UNION {ExecuteItem(node, v[k], k, mode, depth) : k \in DOMAIN v}

ExecuteRecursion(node, v, mode, depth) ==
  IF TooDeep(node, depth) THEN DepthIssue(node)
  ELSE Rebased(Traverse(RecursiveGraph(node.about), v, mode, depth), 0, node.path)

ExecuteUnion(node, v, mode, depth) ==
  LET AnyOf(variants) ==
        IF \E i \in DOMAIN variants : variants[i] = {} THEN {}
        ELSE {Issue("UNION_MISMATCH", node.path)}
               \union UNION {Rebased(variants[i], 1, node.path) : i \in DOMAIN variants}
  IN IF TooDeep(node, depth) THEN DepthIssue(node)
     ELSE AnyOf([i \in DOMAIN node.about |->
                   Traverse(node.about[i], [k \in {RootKey} |-> v], mode, depth)])

Execute(node, root, mode, depth) ==
  LET v == ValueAt(root, node.path)
      kind == KindOf(v)
      mismatch == {Issue("TYPE_MISMATCH", node.path)}
  IN CASE node.kind = "barrier" -> {}
       [] node.kind = "unexpected" ->
            IF kind # "object" THEN mismatch
            ELSE {Issue("UNEXPECTED_FIELD", Append(node.path, k)) : k \in DOMAIN v \ node.about}
       [] node.kind = "required" ->
            LET parent == ValueAt(root, Front(node.path))
            IN IF KindOf(parent) \in {"missing", "null"} THEN {}
               ELSE IF KindOf(parent) # "object"
               THEN {Issue("INVALID_DATA_STRUCTURE", Front(node.path))}
               ELSE IF v = Missing THEN {Issue("REQUIRED_FIELD_MISSING", node.path)} ELSE {}
       [] node.kind = "type" -> IF kind = node.about THEN {} ELSE mismatch
       [] node.kind = "enum" ->
            IF kind \notin {"string", "number"} THEN mismatch
            ELSE IF v \in ToSet(node.about) THEN {} ELSE {Issue("ENUM_VIOLATION", node.path)}
       [] node.kind = "constraint" -> ExecuteConstraint(node.about.c, node.about.at, root, mode)
       [] node.kind = "array" ->
            IF kind # "array" THEN mismatch ELSE ExecuteArray(node, v, mode, depth)
       [] node.kind = "record" ->
            IF kind # "object" THEN mismatch ELSE ExecuteRecord(node, v, mode, depth)
       [] node.kind = "recursion" ->
            IF kind # "object" THEN mismatch ELSE ExecuteRecursion(node, v, mode, depth)
       [] node.kind = "union" -> ExecuteUnion(node, v, mode, depth)

----------------------------------------------------------------------------
(* One validation: the nodes run in any topological order.  Then CreateMany *)
(* may give the validator another document, which runs in one step.        *)

GraphsOfRoots == [S \in RootSchemas |-> RootGraph(S)]

NoResult == [found |-> {}, holds |-> {}]

Validating(S, doc, mode) ==
  /\ validating = [schema |-> S, document |-> doc, mode |-> mode]
  /\ visitedNodes = <<>>
  /\ issues = {}
  /\ priorResult = NoResult
ValidationInit ==
  \E S \in RootSchemas : \E doc \in DocumentsOf[S], mode \in ValidationModes :
    Validating(S, doc, mode)

VisitNode(n) ==
  LET graph == GraphsOfRoots[validating.schema]
  IN /\ n \notin DOMAIN visitedNodes
     /\ graph[n].deps \subseteq DOMAIN visitedNodes
     /\ \E run \in {Visit(graph, [ok |-> visitedNodes, issues |-> issues], n,
                          validating.document, validating.mode, MaxDepth)} :
          visitedNodes' = run.ok /\ issues' = run.issues
     /\ UNCHANGED <<validating, priorResult>>

Validated == DOMAIN visitedNodes = DOMAIN GraphsOfRoots[validating.schema]

(* The issues a traversal returns are those of a context that is back in   *)
(* the pool: the next traversal that is given the same one writes its own  *)
(* over the first of them.                                                 *)
WrittenOver(held, next) ==
  ToSet(next) \union {held[i] : i \in DOMAIN held \ DOMAIN next}
HeldAfter(pooled, found, next) ==
  LET held == SetToSeq(found)
      fresh == SetToSeq(next)
      written == SubSeq(fresh, 1, Min({Len(held), Len(fresh)}))
  IN IF pooled THEN WrittenOver(held, written) ELSE found

ValidateAnother(doc) ==
  /\ Validated /\ priorResult = NoResult
  /\ \E run \in {Run(GraphsOfRoots[validating.schema], doc, validating.mode, MaxDepth)} :
       /\ visitedNodes' = run.ok /\ issues' = run.issues
       /\ \E pooled \in BOOLEAN :
            priorResult' = [found |-> issues, holds |-> HeldAfter(pooled, issues, run.issues)]
  /\ validating' = [validating EXCEPT !.document = doc]

ValidationNext ==
  \/ \E n \in DOMAIN GraphsOfRoots[validating.schema] : VisitNode(n)
  \/ \E doc \in FurtherOf[validating.schema] : ValidateAnother(doc)

ValidationSpec == ValidationInit /\ [][ValidationNext]_validationVars

----------------------------------------------------------------------------
(* What a document must be, by recursion over the schema.                  *)

Closed(mode, o, names) == mode = "loose" \/ DOMAIN o \subseteq names

RECURSIVE ValidValue(_, _, _, _)

ValidObject(S, constraints, o, mode, sealed, lax) ==
  LET fields == SchemaOf[S].fields
      Has(c) == {p \in FieldsOf(c) : ValueAt(o, p) # Missing}
  IN /\ KindOf(o) = "object"
     /\ sealed => Closed(mode, o, NamesIn(fields))
     /\ \A f \in ToSet(fields) :
          IF f.name \in DOMAIN o THEN ValidValue(f, o[f.name], mode, lax)
          ELSE f.required => mode # "strict"
     /\ \A c \in constraints :
          CASE Has(c) = FieldsOf(c) -> PredicateHolds(c, o)
            [] mode = "strict" -> FALSE
            [] mode = "partial" -> Has(c) = {}
            [] mode = "loose" -> TRUE

ValidValue(f, v, mode, lax) ==
  LET kind == KindOf(v)
      Variant(S, open) ==
        IF SchemaOf[S].type = "object"
        THEN ValidObject(S, SchemaOf[S].constraints, v, mode, ~open, FALSE)
        ELSE ValidValue(WrappedField(RootKey, S), v, mode, FALSE)
      Item(item) == ValidValue(WrappedField(ItemKey, f.of[1]), item, mode, FALSE)
  IN \/ kind = "null"
     \/ f.type \in {"string", "number"} /\ kind = f.type
     \/ f.type = "enum" /\ v \in ToSet(f.of)
     \/ f.type = "object" /\ ValidObject(f.of[1],
          EffectiveConstraints(SchemaOf[f.of[1]].constraints, f.ref, {}), v, mode, ~lax, FALSE)
     \/ f.type = "array" /\ kind = "array" /\ (\A i \in DOMAIN v[Items] : Item(v[Items][i]))
     \/ f.type = "record" /\ kind = "object" /\ (\A k \in DOMAIN v : Item(v[k]))
     \/ f.type = "union" /\ (\E i \in DOMAIN f.of : Variant(f.of[i], FALSE))
     \/ /\ f.type = "composite" /\ kind = "object"
        /\ Closed(mode, v, Vocabulary(f))
        /\ \A S \in ToSet(ObjectParts(f)) :
             ValidObject(S, SchemaOf[S].constraints, v, mode, FALSE, TRUE)
        /\ \A U \in ToSet(UnionParts(f)) :
             \E i \in DOMAIN SchemaOf[U].of : Variant(SchemaOf[U].of[i], TRUE)

ReferenceVerdict ==
  ValidObject(validating.schema, SchemaOf[validating.schema].constraints,
              validating.document, validating.mode, TRUE, FALSE)
StoppedByDepth == \E i \in issues : i.code = "MAX_DEPTH_EXCEEDED"

EveryNodeSucceeded == \A n \in DOMAIN visitedNodes : visitedNodes[n]

(* Whatever order the nodes run in, and although failed and absent nodes   *)
(* hide what depends on them, the verdict is the one the schema gives: in  *)
(* no mode is a valid document refused, and in the strict mode, or in the  *)
(* partial one with every required field there, no other one is accepted.  *)
(* Every issue names a place in the document, or a field missing from one. *)
(* Beyond MaxDepth containers are refused.                                 *)
VerdictFollowsSchema ==
  Validated =>
    /\ ReferenceVerdict => issues = {} \/ StoppedByDepth
    /\ (issues = {} /\ validating.mode # "loose"
         /\ (validating.mode = "partial" => EveryNodeSucceeded)) => ReferenceVerdict
    /\ \A i \in issues :
         \/ ValueAt(validating.document, i.path) # Missing
         \/ /\ i.code = "REQUIRED_FIELD_MISSING"
            /\ ValueAt(validating.document, Front(i.path)) # Missing

=============================================================================
