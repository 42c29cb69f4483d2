------------------------------ MODULE Documents ------------------------------
(***************************************************************************)
(* The documents of a schema (core/document) and what they are made of: a  *)
(* container of typed slices addressed by path (core/data/container),      *)
(* drawn from a pool and returned to it, with a container per element of   *)
(* an array of objects; and the two ways out and back in, the JSON codec   *)
(* (core/encoding/json) and the row of a table (document/scanner.go).      *)
(*                                                                         *)
(* A value is tagged: [leaf |-> x], [tree |-> name -> value] for objects,  *)
(* [list |-> sequence of trees] for arrays of objects.  The value of a     *)
(* record field is a map of the program's memory, and the container holds  *)
(* a reference to it, so that two documents may share one; the model keeps *)
(* one value per map.  _id_ and _metadata_ are one bit of the container:   *)
(* whether it has them.  The schema linked by definition/link.go mounts an *)
(* object schema once per field that refers to it, so that a stored field  *)
(* is known by its path.  Conversions between Go types are left out: a     *)
(* leaf either fits its field or does not.  So is the map a caller passes  *)
(* in and changes afterwards.                                              *)
(***************************************************************************)
EXTENDS Integers, Sequences, FiniteSets, SequencesExt, FiniteSetsExt, Functions

CONSTANTS
  ObjectSchemas,    \* name -> sequence of fields
  Roots,            \* the schemas documents are made of
  Handles,          \* variables of the program that hold a document
  Assignments,      \* root schema -> set of <<path, value>> a caller may set
  Leaves,           \* leaf values that fit their field
  Misfit,           \* a leaf value that fits no field
  ExplicitNull,     \* the explicit null
  Panic,            \* read of a slice past its end
  Unheld,           \* a handle without a document
  Containers,       \* identities of containers in memory
  Records,          \* identities of the maps of record fields
  MaxPooled,        \* containers the pool keeps (the runtime may drop others)
  MaxDocumentSteps  \* bound on the operations

ASSUME DocumentsAssumption ==
  /\ MaxPooled \in Nat
  /\ Misfit \notin Leaves /\ ExplicitNull \notin Leaves
  /\ Records \intersect Containers = {}

VARIABLES
  memory,        \* [at: container or map -> contents, pool: free containers]
  documents,     \* handle -> [schema, c] or Unheld
  meant,         \* handle -> what its document should read as
  documentSteps  \* the operations made

documentVars == <<memory, documents, meant, documentSteps>>

DocumentField(name, kind, type, of, required) ==
  [name |-> name, kind |-> kind, type |-> type, of |-> of, required |-> required]

Leaf(x) == [leaf |-> x]
Tree(map) == [tree |-> map]
List(elements) == [list |-> elements]
IsTree(v) == "tree" \in DOMAIN v
IsList(v) == "list" \in DOMAIN v
IsLeaf(v) == "leaf" \in DOMAIN v

-----------------------------------------------------------------------------
(* Paths and addresses (definition/address.go, link.go).                   *)

FieldNamed(s, n) ==
  LET fields == ObjectSchemas[s]
  IN fields[CHOOSE i \in DOMAIN fields : fields[i].name = n]

IndexOf(s, n) == CHOOSE i \in DOMAIN ObjectSchemas[s] : ObjectSchemas[s][i].name = n

RECURSIVE FieldAt(_, _)
FieldAt(s, path) ==
  LET f == FieldNamed(s, Head(path))
  IN IF Len(path) = 1 THEN f ELSE FieldAt(f.of, Tail(path))

(* Addresses of a block: one for a leaf, the block of its object for a     *)
(* field that has one.                                                     *)
RECURSIVE Footprint(_)
Footprint(s) ==
  LET fields == ObjectSchemas[s]
  IN FoldFunction(+, 0, [i \in DOMAIN fields |->
       CASE fields[i].kind = "leaf" -> 1
         [] fields[i].kind \in {"object", "array"} -> Footprint(fields[i].of)
         [] OTHER -> 0])

LocalOffset(s, i) ==
  FoldFunction(+, 0, [k \in 1..(i - 1) |->
    LET f == ObjectSchemas[s][k]
    IN CASE f.kind = "leaf" -> 1
         [] f.kind \in {"object", "array"} -> Footprint(f.of)
         [] OTHER -> 0])

MultiStepBase == 100   \* 2^14 in the code: above every root field

RECURSIVE OffsetSum(_, _)
OffsetSum(s, path) ==
  LET i == IndexOf(s, Head(path))
  IN LocalOffset(s, i)
     + IF Len(path) = 1 THEN 0 ELSE OffsetSum(ObjectSchemas[s][i].of, Tail(path))

Address(s, path) ==
  IF Len(path) = 1 THEN IndexOf(s, path[1]) ELSE MultiStepBase + OffsetSum(s, path)

RECURSIVE LeafPaths(_)
LeafPaths(s) ==
  UNION {LET f == ObjectSchemas[s][i]
         IN CASE f.kind = "leaf" -> {<<f.name>>}
              [] f.kind \in {"object", "array"} -> {<<f.name>> \o p : p \in LeafPaths(f.of)}
              [] OTHER -> {} : i \in DOMAIN ObjectSchemas[s]}

(* The name a stored value is serialized under: a leaf is looked up by its *)
(* address; arrays of objects and records have no address and are named by *)
(* their descriptor, which only knows the field within its own object.     *)
NameOfLeaf ==
  [s \in Roots |-> [key \in LeafPaths(s) |->
     CHOOSE p \in LeafPaths(s) : Address(s, p) = Address(s, key)]]

NameFor(s, key) ==
  IF key \in DOMAIN NameOfLeaf[s] THEN NameOfLeaf[s][key] ELSE <<Last(key)>>

-----------------------------------------------------------------------------
(* A container (container/data_container.go).                              *)

Types == {"array", "record"}
           \union UNION {{f.type : f \in Range(ObjectSchemas[s])} : s \in DOMAIN ObjectSchemas}

TypeOf(f) == IF f.kind \in {"array", "record"} THEN f.kind ELSE f.type

EmptyContainer ==
  [positions |-> <<>>, data |-> [t \in Types |-> <<>>], holes |-> <<>>,
   identified |-> FALSE]

HasKey(c, key) == key \in DOMAIN c.positions
HasSlot(c, key) == HasKey(c, key) /\ c.positions[key] > 0

(* The value of a key that is set; position 0 is the explicit null.        *)
SlotValue(c, key, t) ==
  LET i == c.positions[key]
  IN IF i = 0 THEN ExplicitNull ELSE IF i > Len(c.data[t]) THEN Panic ELSE c.data[t][i]

At(c, key, i) == [c EXCEPT !.positions = (key :> i) @@ @]

(* The freed position of a type that was freed last and the holes left     *)
(* once the last hole takes its place.                                     *)
HoleFor(c, t) == Max({i \in DOMAIN c.holes : c.holes[i][1] = t})
FillHole(holes, i) == Front([holes EXCEPT ![i] = Last(holes)])

StoreSlot(c, key, t, x) ==
  LET claimed == c.holes[HoleFor(c, t)][2]
  IN IF HasSlot(c, key) THEN [c EXCEPT !.data[t][c.positions[key]] = x]
     ELSE IF \E i \in DOMAIN c.holes : c.holes[i][1] = t
       THEN [At(c, key, claimed) EXCEPT
               !.data[t] = IF claimed \in DOMAIN @ THEN [@ EXCEPT ![claimed] = x] ELSE @,
               !.holes = FillHole(@, HoleFor(c, t))]
     ELSE [At(c, key, Len(c.data[t]) + 1) EXCEPT !.data[t] = Append(@, x)]

FreePosition(c, key, t) ==
  IF HasSlot(c, key) THEN [c EXCEPT !.holes = Append(@, <<t, c.positions[key]>>)] ELSE c

StoreNull(c, key, t) == At(FreePosition(c, key, t), key, 0)

UnsetSlot(c, key, t) ==
  [FreePosition(c, key, t) EXCEPT
     !.positions = [k \in DOMAIN @ \ {key} |-> @[k]]]

(* Mutant: a cleared container remembers its freed positions.              *)
ClearKeepsHoles(c) == [EmptyContainer EXCEPT !.holes = c.holes]

ClearContainer(c) ==
  [positions |-> <<>>, data |-> [t \in Types |-> <<>>], holes |-> <<>>,
   identified |-> FALSE]

-----------------------------------------------------------------------------
(* The pool (container/pool.go) and the containers in use.  m is the       *)
(* memory in the course of an operation: its containers, the pool, those   *)
(* taken and not linked yet, and whether the operation has failed.         *)

RECURSIVE Reachable(_, _)
Reachable(at, set) ==
  LET next == set \union UNION {UNION {Range(group) : group \in Range(at[c].data["array"])} : c \in set}
  IN IF next = set THEN set ELSE Reachable(at, next)

Live == {h \in Handles : documents[h] # Unheld}
InUse(at) == Reachable(at, {documents[h].c : h \in Live})

Working == [at |-> memory.at, pool |-> memory.pool, taken |-> {}, ok |-> TRUE]

NewContainer(m) ==
  LET held == InUse(m.at) \union Reachable(m.at, m.taken) \union Range(m.pool)
  IN CHOOSE c \in Containers : c \notin held

(* Get: one the pool keeps, else a new one.  c is the one taken last.      *)
Take(m, pooled) ==
  LET c == IF pooled /\ m.pool # <<>> THEN Last(m.pool) ELSE NewContainer(m)
  IN [at |-> IF pooled /\ m.pool # <<>> THEN m.at ELSE [m.at EXCEPT ![c] = EmptyContainer],
      pool |-> IF pooled /\ m.pool # <<>> THEN Front(m.pool) ELSE m.pool,
      taken |-> m.taken \union {c}, ok |-> m.ok, c |-> c]

Failed(m) == [m EXCEPT !.ok = FALSE]
Identified(m, c) == [m EXCEPT !.at[c].identified = TRUE]

(* The maps of the record fields, and a new one that holds x.              *)
HeldMaps(at) == UNION {Range(at[c].data["record"]) : c \in DOMAIN at \ Records}
Content(at, x) == IF x \in Records THEN at[x] ELSE x
StoreMap(m, c, path, x) ==
  LET r == CHOOSE r \in Records : r \notin HeldMaps(m.at)
  IN [m EXCEPT !.at = [@ EXCEPT ![r] = x, ![c] = StoreSlot(@, path, "record", r)]]

(* Put: the elements of every array it holds, then the container, cleared. *)
RECURSIVE PutBack(_, _)
PutBack(m, c) ==
  LET elements == FlattenSeq(m.at[c].data["array"])
      emptied == FoldLeft(PutBack, m, elements)
  IN [emptied EXCEPT
        !.at[c] = ClearContainer(@),
        !.pool = IF Len(@) < MaxPooled THEN Append(@, c) ELSE @]

-----------------------------------------------------------------------------
(* Writing a value (document/address.go, setInto and below).               *)

RECURSIVE SetInto(_, _, _, _, _, _)
RECURSIVE SetMapInto(_, _, _, _, _, _)

(* The fields a map names, in the order of the schema, until one fails.    *)
SetMapInto(m, c, s, base, v, pooled) ==
  FoldLeft(LAMBDA acc, f :
             IF ~acc.ok \/ f.name \notin DOMAIN v.tree THEN acc
             ELSE SetInto(acc, c, f, Append(base, f.name), v.tree[f.name], pooled),
           m, ObjectSchemas[s])

(* The array of the containers that were filled, unless one failed.        *)
StoreGroup(filled, c, path) ==
  IF filled.m.ok THEN [filled.m EXCEPT !.at[c] = StoreSlot(@, path, "array", filled.group)]
                 ELSE filled.m

(* One container per element, then the array that holds them.              *)
SetArrayObject(m, c, f, path, v, pooled) ==
  StoreGroup(FoldLeft(LAMBDA acc, e :
               IF ~acc.m.ok THEN acc
               ELSE LET got == Take(acc.m, pooled)
                    IN [m |-> SetMapInto(got, got.c, f.of, path, e, pooled),
                        group |-> Append(acc.group, got.c)],
               [m |-> m, group |-> <<>>], IF IsList(v) THEN v.list ELSE <<>>),
             c, path)

SetInto(m, c, f, path, v, pooled) ==
  CASE f.kind = "object" ->
         IF IsTree(v) THEN SetMapInto(m, c, f.of, path, v, pooled) ELSE Failed(m)
    [] f.kind = "array" ->
         IF IsList(v) \/ v = Leaf(ExplicitNull) THEN SetArrayObject(m, c, f, path, v, pooled) ELSE Failed(m)
    [] f.kind = "record" ->
         IF ~IsLeaf(v) \/ v.leaf \notin Leaves \union Records THEN Failed(m)
         ELSE IF v.leaf \in Records
           THEN [m EXCEPT !.at[c] = StoreSlot(@, path, "record", v.leaf)]
         ELSE StoreMap(m, c, path, v.leaf)
    [] f.kind = "leaf" ->
         IF v = Leaf(ExplicitNull) THEN [m EXCEPT !.at[c] = StoreNull(@, path, f.type)]
         ELSE IF IsLeaf(v) /\ v.leaf \in Leaves
           THEN [m EXCEPT !.at[c] = StoreSlot(@, path, f.type, v.leaf)] ELSE Failed(m)

(* Unset: a leaf, or everything below an object; the elements of an array  *)
(* are cleared, not returned.                                              *)
RECURSIVE UnsetPath(_, _, _, _)
UnsetPath(at, c, f, path) ==
  CASE f.kind = "object" ->
         FoldLeft(LAMBDA acc, g : UnsetPath(acc, c, g, Append(path, g.name)), at, ObjectSchemas[f.of])
    [] f.kind = "array" ->
         LET group == IF HasSlot(at[c], path)
                        THEN Range(SlotValue(at[c], path, "array")) ELSE {}
         IN [x \in DOMAIN at |-> IF x = c THEN UnsetSlot(at[x], path, "array")
                                 ELSE IF x \in group THEN ClearContainer(at[x]) ELSE at[x]]
    [] OTHER -> [at EXCEPT ![c] = UnsetSlot(@, path, TypeOf(f))]

-----------------------------------------------------------------------------
(* Reading (materializeSlot).                                              *)

RECURSIVE FieldPresent(_, _, _)
FieldPresent(c, f, path) ==
  IF f.kind = "object"
    THEN \E g \in Range(ObjectSchemas[f.of]) : FieldPresent(c, g, Append(path, g.name))
    ELSE HasKey(c, path)

RECURSIVE Materialize(_, _, _, _)
Materialize(at, c, s, path) ==
  LET fields == {f \in Range(ObjectSchemas[s]) : FieldPresent(at[c], f, Append(path, f.name))}
      Read(f) ==
        LET key == Append(path, f.name)
        IN CASE f.kind = "object" -> Materialize(at, c, f.of, key)
             [] f.kind = "array" ->
                  LET group == SlotValue(at[c], key, "array")
                  IN IF group = Panic THEN Leaf(Panic)
                     ELSE List([i \in DOMAIN group |-> Materialize(at, group[i], f.of, key)])
             [] OTHER -> Leaf(SlotValue(at[c], key, TypeOf(f)))
  IN Tree([n \in {f.name : f \in fields} |-> Read(FieldNamed(s, n))])

(* Data has the maps of the record fields themselves; a reader sees what   *)
(* they hold.                                                              *)
Data(h) == Materialize(memory.at, documents[h].c, documents[h].schema, <<>>)

RECURSIVE Shown(_, _)
Shown(at, v) ==
  CASE IsTree(v) -> Tree([n \in DOMAIN v.tree |-> Shown(at, v.tree[n])])
    [] IsList(v) -> List([i \in DOMAIN v.list |-> Shown(at, v.list[i])])
    [] OTHER -> Leaf(Content(at, v.leaf))

ReadsIn(at, h) == Shown(at, Materialize(at, documents[h].c, documents[h].schema, <<>>))
ReadsAs(h) == ReadsIn(memory.at, h)

-----------------------------------------------------------------------------
(* Copies (container/collection.go): the fields of keys, arrays with their *)
(* elements.                                                               *)

RECURSIVE CopyInto(_, _, _, _, _)
CopyInto(m, from, to, s, keys) ==
  FoldLeft(LAMBDA acc, key :
      LET f == FieldAt(s, key)
          x == SlotValue(acc.at[from], key, TypeOf(f))
      IN IF x = ExplicitNull THEN [acc EXCEPT !.at[to] = StoreNull(@, key, TypeOf(f))]
         ELSE IF f.kind = "array"
           THEN StoreGroup(FoldLeft(LAMBDA b, e :
                             LET got == Take(b.m, TRUE)
                             IN [m |-> CopyInto(got, e, got.c, s, DOMAIN got.at[e].positions),
                                 group |-> Append(b.group, got.c)],
                             [m |-> acc, group |-> <<>>], x), to, key)
         ELSE IF f.kind = "record" THEN StoreMap(acc, to, key, Content(acc.at, x))
         ELSE [acc EXCEPT !.at[to] = StoreSlot(@, key, TypeOf(f), x)],
    m, SetToSeq(keys \intersect DOMAIN m.at[from].positions))

-----------------------------------------------------------------------------
(* The JSON codec (encoding/json/encoder.go, decoder.go) and the columns   *)
(* of a row (document.go SerializeFieldString, scanner.go).                *)

NotWritten == [refused |-> TRUE]    \* serialization ends in an error
Endless == [endless |-> TRUE]    \* or never, until the stack is exhausted

Written(map, clash) ==
  IF Endless \in Range(map) THEN Endless
  ELSE IF NotWritten \in Range(map) \/ clash THEN NotWritten ELSE Tree(map)

WrittenList(elements) ==
  IF Endless \in Range(elements) THEN Endless
  ELSE IF NotWritten \in Range(elements) THEN NotWritten ELSE List(elements)

IsUnder(name, prefix) == Len(name) > Len(prefix) /\ SubSeq(name, 1, Len(prefix)) = prefix

(* What is left of a name below a prefix; other names are left whole.      *)
RelName(name, prefix) ==
  IF prefix # <<>> /\ IsUnder(name, prefix)
    THEN SubSeq(name, Len(prefix) + 1, Len(name)) ELSE name

(* One JSON object: entries whose names begin alike make an object of      *)
(* their own, an entry whose name ends there is the value.  A name that is *)
(* not below the prefix never will be below a longer one, and the          *)
(* recursion that should shorten it goes on.                               *)
RECURSIVE EmitObject(_, _, _, _, _)
RECURSIVE WriteValue(_, _, _, _, _)

WrittenNames(s, keys) == [key \in keys |-> NameFor(s, key)]

EmitRuns(at, c, s, names, prefix) ==
  LET Rel(key) == RelName(names[key], prefix)
      Run(n) == {key \in DOMAIN names : Head(Rel(key)) = n}
      Direct(n) == {key \in Run(n) : Len(Rel(key)) = 1}
      Stuck(n) == prefix # <<>> /\ \E key \in Run(n) : ~IsUnder(names[key], prefix)
      Value(n) == IF Direct(n) = {} /\ Stuck(n) THEN Endless
                  ELSE IF Direct(n) = {} THEN EmitObject(at, c, s, Run(n), Append(prefix, n))
                  ELSE WriteValue(at, c, s, CHOOSE key \in Direct(n) : TRUE, Append(prefix, n))
      heads == {Head(Rel(key)) : key \in DOMAIN names}
  IN Written([n \in heads |-> Value(n)],
             \E n \in heads : Direct(n) # {} /\ Cardinality(Run(n)) > 1)

EmitObject(at, c, s, keys, prefix) == EmitRuns(at, c, s, WrittenNames(s, keys), prefix)

WriteValue(at, c, s, key, prefix) ==
  LET f == FieldAt(s, key)
      x == SlotValue(at[c], key, TypeOf(f))
  IN IF f.kind # "array" THEN Leaf(Content(at, x))
     ELSE IF x \in {ExplicitNull, Panic} THEN Leaf(x)
     ELSE WrittenList([i \in DOMAIN x |-> EmitObject(at, x[i], s, DOMAIN at[x[i]].positions, prefix)])

SerializeJSON(at, c, s) == EmitObject(at, c, s, DOMAIN at[c].positions, <<>>)

(* The column of a root field: the values named by it or below it.         *)
SerializeNamed(d, f, names) ==
  LET named == {key \in DOMAIN names : names[key] = <<f.name>>}
      below == {key \in DOMAIN names : IsUnder(names[key], <<f.name>>)}
  IN IF ~FieldPresent(memory.at[d.c], f, <<f.name>>) \/ named \union below = {} THEN Leaf(ExplicitNull)
     ELSE IF named # {} /\ Cardinality(named \union below) > 1 THEN NotWritten
     ELSE IF named # {}
       THEN WriteValue(memory.at, d.c, d.schema, CHOOSE key \in named : TRUE, <<f.name>>)
     ELSE EmitObject(memory.at, d.c, d.schema, below, <<f.name>>)

SerializeField(d, f) ==
  SerializeNamed(d, f, WrittenNames(d.schema, DOMAIN memory.at[d.c].positions))

NotNull(map) == [n \in {n \in DOMAIN map : map[n] # Leaf(ExplicitNull)} |-> map[n]]

RowColumn(h, f) ==
  IF f.kind = "leaf" /\ HasKey(memory.at[documents[h].c], <<f.name>>)
    THEN Leaf(SlotValue(memory.at[documents[h].c], <<f.name>>, f.type))
    ELSE SerializeField(documents[h], f)

(* The row written for a document, keyed by the columns that are not NULL. *)
RowOf(h) ==
  LET s == documents[h].schema
  IN Written(NotNull([n \in {f.name : f \in Range(ObjectSchemas[s])} |-> RowColumn(h, FieldNamed(s, n))]),
             FALSE)

(* Decoding sets what the text has: a key the schema does not know is      *)
(* skipped, and so is null.  Of a whole document (strict) it then fails if *)
(* a required field is not in the text.                                    *)
RequiredSeen(m, s, v) ==
  IF \E f \in Range(ObjectSchemas[s]) : f.required /\ f.name \notin DOMAIN v.tree
  THEN Failed(m) ELSE m

RECURSIVE DecodeObject(_, _, _, _, _, _)
DecodeFields(m, c, s, base, v, strict) ==
  FoldLeft(LAMBDA acc, f :
      LET path == Append(base, f.name)
          x == v.tree[f.name]
      IN IF f.name \notin DOMAIN v.tree \/ ~acc.ok \/ x = Leaf(ExplicitNull) THEN acc
         ELSE CASE f.kind = "object" ->
                     IF IsTree(x) THEN DecodeObject(acc, c, f.of, path, x, strict) ELSE Failed(acc)
                [] f.kind = "array" ->
                     IF ~IsList(x) THEN Failed(acc)
                     ELSE StoreGroup(FoldLeft(LAMBDA b, e :
                            IF ~b.m.ok THEN b
                            ELSE LET got == Take(b.m, TRUE)
                                 IN [m |-> DecodeObject(got, got.c, f.of, path, e, strict),
                                     group |-> Append(b.group, got.c)],
                            [m |-> acc, group |-> <<>>], x.list), c, path)
                [] f.kind = "record" -> StoreMap(acc, c, path, x.leaf)
                [] OTHER -> [acc EXCEPT !.at[c] = StoreSlot(@, path, TypeOf(f), x.leaf)],
    m, ObjectSchemas[s])

DecodeObject(m, c, s, base, v, strict) ==
  LET decoded == DecodeFields(m, c, s, base, v, strict)
  IN IF decoded.ok /\ strict THEN RequiredSeen(decoded, s, v) ELSE decoded

-----------------------------------------------------------------------------
(* What a caller means: the same assignments on plain trees.               *)

Blank(v) == v = Tree(<<>>)

(* An object none of whose fields is present is not present itself.        *)
Update(tree, n, v) ==
  Tree([k \in (DOMAIN tree.tree \ {n}) \union (IF Blank(v) THEN {} ELSE {n}) |->
          IF k = n THEN v ELSE tree.tree[k]])

Child(tree, n) == IF n \in DOMAIN tree.tree THEN tree.tree[n] ELSE Tree(<<>>)

RECURSIVE Fits(_, _)
Fits(f, v) ==
  CASE f.kind = "object" ->
         IsTree(v) /\ \A g \in Range(ObjectSchemas[f.of]) :
                        g.name \in DOMAIN v.tree => Fits(g, v.tree[g.name])
    [] f.kind = "array" ->
         \/ v = Leaf(ExplicitNull)
         \/ IsList(v) /\ \A e \in Range(v.list) : Fits([f EXCEPT !.kind = "object"], e)
    [] f.kind = "record" -> IsLeaf(v) /\ v.leaf \in Leaves
    [] f.kind = "leaf" -> IsLeaf(v) /\ v.leaf \in Leaves \union {ExplicitNull}

(* Setting an object sets the fields it names, up to the first that does   *)
(* not fit; a null array is an empty one.                                  *)
RECURSIVE Overlay(_, _, _)
Overlay(f, old, v) ==
  IF f.kind = "object" /\ IsTree(v)
    THEN LET named == SelectSeq(ObjectSchemas[f.of], LAMBDA g : g.name \in DOMAIN v.tree)
             until == FoldLeft(LAMBDA n, g : IF n < 0 THEN n ELSE IF Fits(g, v.tree[g.name]) THEN n + 1 ELSE -1 - n,
                               0, named)
             last == IF until < 0 THEN -until ELSE Len(named)
         IN FoldLeft(LAMBDA t, g : Update(t, g.name, Overlay(g, Child(t, g.name), v.tree[g.name])),
                     old, SubSeq(named, 1, last))
  ELSE IF ~Fits(f, v) THEN old
  ELSE IF f.kind = "array"
    THEN List([i \in DOMAIN (IF IsList(v) THEN v.list ELSE <<>>) |->
                 Overlay([f EXCEPT !.kind = "object"], Tree(<<>>), v.list[i])])
  ELSE v

RECURSIVE OverlayAt(_, _, _, _)
OverlayAt(s, tree, path, v) ==
  LET n == Head(path)
      f == FieldNamed(s, n)
  IN Update(tree, n, IF Len(path) = 1 THEN Overlay(f, Child(tree, n), v)
                     ELSE OverlayAt(f.of, Child(tree, n), Tail(path), v))

RECURSIVE Without(_, _)
Without(tree, path) ==
  LET n == Head(path)
  IN IF n \notin DOMAIN tree.tree THEN tree
     ELSE Update(tree, n, IF Len(path) = 1 THEN Tree(<<>>) ELSE Without(tree.tree[n], Tail(path)))

(* What JSON and rows keep of a document: everything but explicit nulls.   *)
RECURSIVE WithoutNulls(_)
WithoutNulls(v) ==
  IF IsList(v) THEN List([i \in DOMAIN v.list |-> WithoutNulls(v.list[i])])
  ELSE IF IsLeaf(v) THEN v
  ELSE Tree([n \in {n \in DOMAIN v.tree : v.tree[n] # Leaf(ExplicitNull)
                                /\ ~(IsTree(v.tree[n]) /\ Blank(WithoutNulls(v.tree[n])))} |->
               WithoutNulls(v.tree[n])])

-----------------------------------------------------------------------------

NoDocuments(containers) ==
  /\ memory = [at |-> [x \in containers \union Records |->
                        IF x \in Records THEN Unheld ELSE EmptyContainer],
               pool |-> <<>>]
  /\ documents = [h \in Handles |-> Unheld]
  /\ meant = [h \in Handles |-> Tree(<<>>)]
  /\ documentSteps = 0
DocumentsInit == NoDocuments(Containers)

Step ==
  /\ documentSteps < MaxDocumentSteps
  /\ documentSteps' = documentSteps + 1

(* A map nothing refers to any more is gone.                               *)
Keep(m) ==
  memory' = [at |-> [x \in DOMAIN m.at |->
                       IF x \in Records \ HeldMaps(m.at) THEN Unheld ELSE m.at[x]],
             pool |-> m.pool]

Hold(h, s, c, tree) ==
  /\ documents' = [documents EXCEPT ![h] = [schema |-> s, c |-> c]]
  /\ meant' = [meant EXCEPT ![h] = tree]

(* FromMap: a document is made of the pool, filled, and its checksum taken *)
(* of its JSON; one that cannot be filled or written is dropped, container *)
(* and all.  Endless serialization ends the process: no step.              *)
FromMap(h, s) ==
  /\ Step
  /\ documents[h] = Unheld
  /\ \E input \in Assignments[s] : \E none \in BOOLEAN :
       LET taken == Take(Working, TRUE)
           got == Identified(taken, taken.c)
           map == IF none THEN Tree(<<>>) ELSE Tree(input[1][1] :> input[2])
       IN \E filled \in {SetMapInto(got, got.c, s, <<>>, map, TRUE)} :
          \E checked \in {SerializeJSON(filled.at, got.c, s)} :
          /\ filled.ok => checked # Endless
          /\ ~none => Len(input[1]) = 1
          /\ Keep(filled)
          /\ IF filled.ok /\ checked # NotWritten
               THEN Hold(h, s, got.c, IF none THEN map ELSE OverlayAt(s, Tree(<<>>), input[1], input[2]))
               ELSE UNCHANGED <<documents, meant>>

(* Set, on the document or through a view of one of the objects on the     *)
(* way: a view has no pool.                                                *)
SetValue(h) ==
  /\ Step
  /\ h \in Live
  /\ \E input \in Assignments[documents[h].schema], pooled \in BOOLEAN :
       LET d == documents[h]
           f == FieldAt(d.schema, input[1])
       IN /\ Len(input[1]) > 1 \/ pooled
          /\ Keep(SetInto(Working, d.c, f, input[1], input[2], pooled))
          /\ meant' = [meant EXCEPT ![h] = OverlayAt(d.schema, @, input[1], input[2])]
  /\ UNCHANGED documents

(* Set through the view of an element of an array (GetDocumentArray).      *)
SetElement(h) ==
  /\ Step
  /\ h \in Live
  /\ \E input \in Assignments[documents[h].schema] :
       LET d == documents[h]
           path == input[1]
           f == FieldAt(d.schema, path)
           container == memory.at[d.c]
       IN /\ Len(path) = 1 /\ f.kind = "array" /\ IsList(input[2])
          /\ HasSlot(container, path)
          /\ \E i \in DOMAIN SlotValue(container, path, "array"), e \in Range(input[2].list) :
               LET c == SlotValue(container, path, "array")[i]
               IN /\ Keep(SetMapInto(Working, c, f.of, path, e, FALSE))
                  /\ meant' = [meant EXCEPT ![h].tree[path[1]].list[i] =
                                 Overlay([f EXCEPT !.kind = "object"], @, e)]
  /\ UNCHANGED documents

Unset(h) ==
  /\ Step
  /\ h \in Live
  /\ \E input \in Assignments[documents[h].schema] :
       LET d == documents[h]
       IN /\ Keep([Working EXCEPT !.at = UnsetPath(@, d.c, FieldAt(d.schema, input[1]), input[1])])
          /\ meant' = [meant EXCEPT ![h] = Without(@, input[1])]
  /\ UNCHANGED documents

(* Set through the view of a record field, which is its map.               *)
SetInRecord(h) ==
  /\ Step
  /\ h \in Live
  /\ \E f \in Range(ObjectSchemas[documents[h].schema]), x \in Leaves :
       /\ f.kind = "record" /\ HasSlot(memory.at[documents[h].c], <<f.name>>)
       /\ \E r \in {SlotValue(memory.at[documents[h].c], <<f.name>>, "record")} :
            /\ Keep([Working EXCEPT !.at[r] = x])
            /\ meant' = [g \in Handles |->
                           IF g \in Live /\ r \in Range(memory.at[documents[g].c].data["record"])
                           THEN [meant[g] EXCEPT !.tree[f.name] = Leaf(x)] ELSE meant[g]]
  /\ UNCHANGED documents

(* Maps both documents have are merged into one; the others stay the maps  *)
(* they are.                                                               *)
IsMap(v) == IsLeaf(v) /\ v.leaf \in Records
RECURSIVE DeepMergeMaps(_, _, _)
DeepMergeMaps(at, base, overlay) ==
  LET names == DOMAIN base.tree \union DOMAIN overlay.tree
      Merged(old, v) ==
        IF IsTree(old) /\ IsTree(v) THEN DeepMergeMaps(at, old, v)
        ELSE IF IsMap(old) /\ IsMap(v) THEN Shown(at, v)
        ELSE v
  IN Tree([n \in names |->
       IF n \notin DOMAIN overlay.tree THEN base.tree[n]
       ELSE IF n \notin DOMAIN base.tree THEN overlay.tree[n]
       ELSE Merged(base.tree[n], overlay.tree[n])])

(* Merge sets every field the other document has, DeepMerge merges the     *)
(* trees, empties the container, with the system fields in it, and sets    *)
(* the result.  A map of the other document is set as it is.               *)
Merge(h, g, deep) ==
  /\ Step
  /\ {h, g} \subseteq Live /\ h # g /\ documents[h].schema = documents[g].schema
  /\ LET d == documents[h]
         s == d.schema
         entire == DocumentField("", "object", "", s, FALSE)
         merged == IF deep THEN DeepMergeMaps(memory.at, Data(h), Data(g)) ELSE Data(g)
         begun == IF deep THEN [Working EXCEPT !.at[d.c] = ClearContainer(@)] ELSE Working
     IN /\ Keep(SetMapInto(begun, d.c, s, <<>>, merged, TRUE))
        /\ meant' = [meant EXCEPT ![h] = Overlay(entire, @, meant[g])]
  /\ UNCHANGED documents

(* Clone, and Project onto the leaves of one root field, which leaves the  *)
(* system fields behind.                                                   *)
CloneDocument(h, g) ==
  /\ Step
  /\ h \in Live /\ g \notin Live
  /\ LET d == documents[h]
         got == Take(Working, TRUE)
         Roots1 == {f.name : f \in Range(ObjectSchemas[d.schema])}
     IN \E kept \in {Roots1} \union {{n} : n \in Roots1} :
          /\ Keep(CopyInto([got EXCEPT !.at[got.c].identified =
                                kept = Roots1 /\ memory.at[d.c].identified],
                           d.c, got.c, d.schema,
                           {key \in DOMAIN memory.at[d.c].positions : key[1] \in kept}))
          /\ Hold(g, d.schema, got.c,
                  Tree([n \in DOMAIN meant[h].tree \intersect kept |-> meant[h].tree[n]]))

Release(h) ==
  /\ Step
  /\ h \in Live
  /\ Keep(PutBack(Working, documents[h].c))
  /\ documents' = [documents EXCEPT ![h] = Unheld]
  /\ meant' = [meant EXCEPT ![h] = Tree(<<>>)]

(* Whether every value of a schema is serialized under its own path:       *)
(* arrays and records inside an object are not.                            *)
RECURSIVE NamesAll(_, _)
NamesAll(s, within) ==
  \A f \in Range(ObjectSchemas[s]) :
    /\ f.kind \in {"array", "record"} => ~within
    /\ f.kind = "object" => NamesAll(f.of, TRUE)
    /\ f.kind = "array" => NamesAll(f.of, FALSE)

(* What was decoded is kept, unless decoding a new document failed; into   *)
(* one that exists, it has gone as far as it could.                        *)
KeepDecoded(h, g, m, c) ==
  LET s == documents[h].schema
      entire == DocumentField("", "object", "", s, FALSE)
  IN IF ~m.ok /\ g \notin Live
       THEN Keep(PutBack(m, c)) /\ UNCHANGED <<documents, meant>>
       ELSE /\ Keep(m)
            /\ Hold(g, s, c, IF m.ok /\ NamesAll(s, FALSE)
                               THEN Overlay(entire, meant[g], WithoutNulls(meant[h]))
                               ELSE Shown(m.at, Materialize(m.at, c, s, <<>>)))

(* FromJSON gives a new document its system fields, ScanRow those of the   *)
(* row; UnmarshalJSON takes those of the text.                             *)
ReadBack(h, g, how, text, got) ==
  LET old == g \in Live
      c == IF old THEN documents[g].c ELSE got.c
      begun == IF old THEN Working ELSE got
      known == memory.at[documents[h].c].identified
      stamped == IF known \/ (how = "json" /\ ~old) THEN Identified(begun, c) ELSE begun
  IN \E m \in {DecodeObject(stamped, c, documents[h].schema, <<>>, text, how = "json")} :
       KeepDecoded(h, g, m, c)

(* A document written as JSON or as a row and read back, into a new        *)
(* document or, for JSON, over one that exists (UnmarshalJSON).            *)
Reload(h, g, how) ==
  /\ Step
  /\ h \in Live /\ h # g
  /\ g \in Live => how = "json" /\ documents[g].schema = documents[h].schema
  /\ \E text \in {IF how = "json" THEN SerializeJSON(memory.at, documents[h].c, documents[h].schema)
                 ELSE RowOf(h)} :
       /\ text # Endless
       /\ IF text = NotWritten THEN UNCHANGED <<memory, documents, meant>>
          ELSE ReadBack(h, g, how, text, Take(Working, TRUE))

DocumentsNext ==
  \E h \in Handles :
    \/ \E s \in Roots : FromMap(h, s)
    \/ SetValue(h)
    \/ SetElement(h)
    \/ SetInRecord(h)
    \/ Unset(h)
    \/ \E g \in Handles, deep \in BOOLEAN : Merge(h, g, deep)
    \/ \E g \in Handles : CloneDocument(h, g)
    \/ Release(h)
    \/ \E g \in Handles, how \in {"json", "row"} : Reload(h, g, how)

DocumentsSpec == DocumentsInit /\ [][DocumentsNext]_documentVars

-----------------------------------------------------------------------------

(* Every document reads as what was set into it, whatever the pool and the *)
(* freed positions of its containers have held before, and whichever       *)
(* document was copied, merged, released or decoded in between; a map that *)
(* a merge has made two documents share is written in both.                *)
DocumentsReadBack == \A h \in Live : ReadsAs(h) = meant[h]

(* The JSON of a document and the row written for it hold what the         *)
(* document holds, each value under its own path                           *)
(* (container_serialization.md 5.1, encoding/json/decode_test.go:320).     *)
WrittenWhole ==
  \A h \in Live :
    LET map == ReadsAs(h).tree
    IN /\ SerializeJSON(memory.at, documents[h].c, documents[h].schema) = Tree(map)
       /\ RowOf(h) = Tree(NotNull(map))

=============================================================================
