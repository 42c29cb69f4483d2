-------------------------- MODULE SchemaEvolution --------------------------
(***************************************************************************)
(* How a schema becomes its next version: the diff of two schemas, the     *)
(* version bump it asks for, the phase chosen for a backend and the        *)
(* statements that change the table in place                               *)
(* (core/schema/definition/diff.go, core/persistence/base/migration.go,    *)
(* basePersistence.Migrate, sqlite/query/collection.go and index.go, the   *)
(* schema manager of core/ephemeral/interactor.go).                        *)
(*                                                                         *)
(* A schema is a record of collections that map entity ids to records of   *)
(* properties; reading a Go map in any order is a choice of the next       *)
(* change.  The copy of documents is in Migration, its interleavings with  *)
(* writers too: here a copy only makes the new table.  A field refers to   *)
(* one nested schema.  The version a schema carries is left out: Migrate   *)
(* sets that of the target.                                                *)
(***************************************************************************)
EXTENDS Integers, Sequences, SequencesExt, FiniteSets, FiniteSetsExt, TLC

CONSTANTS
  SchemaRevisions,  \* the schemas a caller migrates to
  StoredDocuments,  \* sequences of documents a collection may hold
  MaxMigrations     \* bound on migrations started

VARIABLES
  engine,        \* "sqlite" or "ephemeral"
  activeSchema,  \* the active schema of the registry
  version,       \* its version, <<major, minor, patch>>
  table,         \* its columns, indexes and primary key in the backend
  untouched,     \* ids and names of what stands in the table as it stood before
  plan,          \* the migration being applied, <<>> when there is none
  partial,       \* an in-place migration stopped half way
  migrations

evolutionVars ==
  <<engine, activeSchema, version, table, untouched, plan, partial, migrations>>

(***************************************************************************)
(* Entities.  The union of a constraint is a rule or a group.              *)
(***************************************************************************)
EvolvingField(name, type) ==
  [name |-> name, description |-> "", required |-> FALSE, deprecated |-> FALSE,
   unique |-> FALSE, nullable |-> FALSE, type |-> type, default |-> "",
   schema |-> "", metadata |-> ""]

EvolvingIndex(name, fields) ==
  [name |-> name, description |-> "", type |-> "normal", order |-> "asc",
   unique |-> FALSE, fields |-> fields, condition |-> ""]

EvolvingRule(name, predicate, fields) ==
  [name |-> name, description |-> "",
   union |-> [kind |-> "rule", fields |-> fields, predicate |-> predicate,
              parameters |-> ""]]

EvolvingGroup(name, content) ==
  [name |-> name, description |-> "", union |-> [kind |-> "group", content |-> content]]

EmptyNested ==
  [name |-> "", description |-> "", concrete |-> FALSE, type |-> "", values |-> <<>>,
   schema |-> "", fields |-> <<>>, indexes |-> <<>>, constraints |-> <<>>]

EmptySchema ==
  [name |-> "", description |-> "", fields |-> <<>>, indexes |-> <<>>,
   constraints |-> <<>>, schemas |-> <<>>, metadata |-> <<>>]

(***************************************************************************)
(* The diff.  An operation adds, removes or sets what its path names: the  *)
(* id of an entity, the collection it is of (the Go type of the            *)
(* operation's value), the nested schema it lies within, if any, and the   *)
(* property set.                                                           *)
(***************************************************************************)
EvolutionPath(within, id, of, prop) ==
  [within |-> within, id |-> id, of |-> of, prop |-> prop]

IsNestedEntityPath(path) == path.within # {}

NoOps == [add |-> [p \in {} |-> p], remove |-> {}, set |-> [p \in {} |-> p]]

(* The operations of all parts, which have no path in common.              *)
JoinOps(parts) ==
  [add |-> [p \in UNION {DOMAIN ops.add : ops \in parts} |->
              (CHOOSE ops \in parts : p \in DOMAIN ops.add).add[p]],
   remove |-> UNION {ops.remove : ops \in parts},
   set |-> [p \in UNION {DOMAIN ops.set : ops \in parts} |->
              (CHOOSE ops \in parts : p \in DOMAIN ops.set).set[p]]]

(* Mutant: nullability is not compared.                                    *)
ComparedButNullable ==
  {"name", "description", "required", "deprecated", "unique", "type", "default",
   "schema", "metadata"}

ComparedOfField ==
  {"name", "description", "required", "deprecated", "unique", "nullable", "type",
   "default", "schema", "metadata"}

ComparedProperties(of, old, new) ==
  CASE of = "fields" -> ComparedOfField
    [] of = "indexes" ->
         {"name", "description", "type", "order", "unique", "fields", "condition"}
    [] of = "constraints" ->
         {"name", "description"} \union
         (IF old.union.kind # new.union.kind THEN {"union"}
          ELSE IF old.union.kind = "rule" THEN {"fields", "predicate", "parameters"}
          ELSE {})
    [] of = "schemas" -> {"name", "description", "concrete", "type", "values"}
    [] OTHER -> {"value"}

PropertyOf(entity, prop) ==
  IF prop \in DOMAIN entity THEN entity[prop] ELSE entity.union[prop]

Changed(of, old, new) ==
  {p \in ComparedProperties(of, old, new) : PropertyOf(old, p) # PropertyOf(new, p)}

(* What turns the collection old into new.                                 *)
EntityOps(within, of, old, new) ==
  LET Paths(ids) == {EvolutionPath(within, id, of, "") : id \in ids}
  IN [add |-> [p \in Paths(DOMAIN new \ DOMAIN old) |-> new[p.id]],
      remove |-> Paths(DOMAIN old \ DOMAIN new),
      set |-> [p \in UNION {{EvolutionPath(within, id, of, q) : q \in Changed(of, old[id], new[id])} :
                              id \in DOMAIN old \intersect DOMAIN new}
                 |-> PropertyOf(new[p.id], p.prop)]]

(* What turns the entity id of old into that of new, a nested schema with  *)
(* its contents.                                                           *)
NestedCollections == {"fields", "indexes", "constraints"}

OpsOf(of, old, new, id) ==
  LET Only(c) == [i \in {id} \intersect DOMAIN c |-> c[i]]
      inner == IF of = "schemas" /\ id \in DOMAIN old \intersect DOMAIN new
               THEN NestedCollections ELSE {}
  IN JoinOps({EntityOps({}, of, Only(old), Only(new))}
             \union {EntityOps({id}, part, old[id][part], new[id][part]) : part \in inner})

IsSystemEntityName(name) == name \in {"_id_", "_metadata_", "pk_id"}

ChangeOf(of, ending, entity, forward, backward) ==
  [of |-> of, kind |-> ending, entity |-> entity, forward |-> forward, backward |-> backward]

EntityName(of, old, new, id) ==
  IF of \in {"schemas", "metadata"} THEN id
  ELSE IF id \in DOMAIN new THEN new[id].name ELSE old[id].name

(* Nested schemas a backend injects stay invisible.                        *)
IsHiddenSchema(of, old, new, id) ==
  of = "schemas" /\ IsSystemEntityName((IF id \in DOMAIN new THEN new ELSE old)[id].name)

(* The changes of one collection: each entity added, removed or modified   *)
(* is a change; the operations back are those forward, read the other way. *)
EntityChange(of, old, new, id) ==
  ChangeOf(of,
           IF id \notin DOMAIN old THEN "added"
           ELSE IF id \notin DOMAIN new THEN "removed" ELSE "modified",
           EntityName(of, old, new, id), OpsOf(of, old, new, id), OpsOf(of, new, old, id))

CollectionDiff(of, old, new) ==
  {EntityChange(of, old, new, id) :
     id \in {i \in DOMAIN old \union DOMAIN new :
               ~IsHiddenSchema(of, old, new, i) /\ OpsOf(of, old, new, i) # NoOps}}

RootOps(old, new) ==
  [NoOps EXCEPT
     !.set = [path \in {EvolutionPath({}, "", "root", p) :
                          p \in {q \in {"name", "description"} : old[q] # new[q]}} |->
                new[path.prop]]]

RootDiff(old, new) ==
  IF RootOps(old, new) = NoOps THEN {}
  ELSE {ChangeOf("root", "modified", "root", RootOps(old, new), RootOps(new, old))}

IsSystemChange(change) ==
  \/ IsSystemEntityName(change.entity)
  \/ \E ops \in {change.forward, change.backward} : \E path \in DOMAIN ops.add :
       path.of \in {"fields", "schemas"} /\ IsSystemEntityName(ops.add[path].name)

Collections == NestedCollections \union {"schemas", "metadata"}

SchemaDiff(old, new) ==
  {c \in RootDiff(old, new) \union UNION {CollectionDiff(of, old[of], new[of]) : of \in Collections} :
     ~IsSystemChange(c)}

(* A revision is what an author writes.  What EnrichSchema injects is the  *)
(* same in every version and left out.                                     *)
IsRecord(r, props) == DOMAIN r = props /\ r = [p \in props |-> r[p]]

Shaped(of, e) ==
  CASE of = "fields" ->
         /\ IsRecord(e, DOMAIN EvolvingField("", ""))
         /\ {e.required, e.unique, e.nullable} \subseteq BOOLEAN
    [] of = "indexes" -> IsRecord(e, DOMAIN EvolvingIndex("", <<>>)) /\ e.unique \in BOOLEAN
    [] of = "constraints" ->
         /\ IsRecord(e, {"name", "description", "union"})
         /\ \/ /\ IsRecord(e.union, {"kind", "fields", "predicate", "parameters"})
               /\ e.union.kind = "rule"
            \/ IsRecord(e.union, {"kind", "content"}) /\ e.union.kind = "group"
    [] of = "schemas" -> IsRecord(e, DOMAIN EmptyNested)
    [] OTHER -> IsRecord(e, {"value"})

ShapedCollection(of, coll) ==
  coll = [id \in DOMAIN coll |-> coll[id]] /\ \A id \in DOMAIN coll : Shaped(of, coll[id])

Authored(s) ==
  /\ IsRecord(s, DOMAIN EmptySchema)
  /\ \A of \in Collections : ShapedCollection(of, s[of])
  /\ \A id \in DOMAIN s.schemas :
       \A of \in NestedCollections : ShapedCollection(of, s.schemas[id][of])
  /\ \A of \in Collections \ {"metadata"} : \A id \in DOMAIN s[of] :
       ~IsSystemEntityName(s[of][id].name)
  /\ \A id \in DOMAIN s.schemas \union DOMAIN s.metadata : ~IsSystemEntityName(id)
  /\ \A id \in DOMAIN s.schemas : \A f \in DOMAIN s.schemas[id].fields :
       ~IsSystemEntityName(s.schemas[id].fields[f].name)

ASSUME RevisionsAssumption == \A s \in SchemaRevisions : Authored(s)

(***************************************************************************)
(* The bump a diff asks for: 1 patch, 2 minor, 3 major.                    *)
(***************************************************************************)
(* Mutant: an added field is minor, required or not.                       *)
AddImpactOptional(of, entity) ==
  CASE of = "fields" -> 2
    [] of = "indexes" -> IF entity.unique THEN 3 ELSE 1
    [] of \in {"constraints", "schemas"} -> 3
    [] OTHER -> 1

AddImpact(of, entity) ==
  CASE of = "fields" -> IF entity.required THEN 3 ELSE 2
    [] of = "indexes" -> IF entity.unique THEN 3 ELSE 1
    [] of \in {"constraints", "schemas"} -> 3
    [] OTHER -> 1

RemoveImpact(of, entity) ==
  CASE of \in {"fields", "schemas"} -> 3
    [] of = "indexes" -> IF entity.unique THEN 2 ELSE 1
    [] OTHER -> 1

SetImpact(path, value) ==
  LET nested == IsNestedEntityPath(path)
      p == path.prop
  IN CASE p \in {"required", "unique"} -> IF value THEN 3 ELSE 2
       [] p = "deprecated" -> 2
       [] path.of = "fields" /\ p \in {"name", "type", "default", "schema"} -> 3
       [] path.of = "indexes" /\ (p = "fields" \/ (nested /\ p \in {"name", "type"})) -> 3
       [] path.of = "constraints" /\ (\/ p \in {"fields", "predicate", "parameters"}
                                      \/ (nested /\ p \in {"name", "union"})) -> 3
       [] path.of = "schemas" /\ p \in {"type", "values"} -> 3
       [] OTHER -> 1

ChangeImpact(change) ==
  LET RemovedBump(path) == IF IsNestedEntityPath(path) THEN 3
                       ELSE RemoveImpact(path.of, change.backward.add[path])
  IN Max({1} \union {AddImpact(p.of, change.forward.add[p]) : p \in DOMAIN change.forward.add}
             \union {RemovedBump(p) : p \in change.forward.remove}
             \union {SetImpact(p, change.forward.set[p]) : p \in DOMAIN change.forward.set})

VersionImpact(diff) == Max({1} \union {ChangeImpact(c) : c \in diff})

BumpVersion(bump, v) ==
  CASE bump = 3 -> <<v[1] + 1, 0, 0>>
    [] bump = 2 -> <<v[1], v[2] + 1, 0>>
    [] bump = 1 -> <<v[1], v[2], v[3] + 1>>

(***************************************************************************)
(* Backends.  SQLite's answers to a statement are external; the ephemeral  *)
(* backend keeps the columns as a schema of its own.                       *)
(***************************************************************************)
Evolves(b) ==
  IF b = "sqlite" THEN {"add column", "drop column"}
  ELSE {"add column", "drop column", "rename column", "alter column type",
        "add constraint", "drop constraint"}

ColumnType(type) ==
  CASE type \in {"string", "enum", "object", "array", "record", "union"} -> "TEXT"
    [] type \in {"number", "decimal"} -> "REAL"
    [] type \in {"integer", "boolean"} -> "INTEGER"
    [] OTHER -> "BLOB"

(* The values of an enum are checked by its column, unless the column was  *)
(* added to a table that stands: ADD COLUMN knows of no schema.            *)
CheckedValues(schema, field) ==
  IF field.type = "enum" /\ field.schema \in DOMAIN schema.schemas
  THEN Range(schema.schemas[field.schema].values) ELSE {}

ColumnDefinition(schema, field) ==
  [type |-> ColumnType(field.type), notNull |-> field.required,
   default |-> field.default, unique |-> field.unique,
   check |-> CheckedValues(schema, field)]

TableColumns(schema) ==
  [n \in {schema.fields[id].name : id \in DOMAIN schema.fields} |->
     ColumnDefinition(schema, schema.fields[CHOOSE id \in DOMAIN schema.fields :
                                              schema.fields[id].name = n])]

(* SQLite makes no index of a primary one: the first it meets in the map,  *)
(* the one EnrichSchema injects among them, is the key of the table.       *)
IsIndexed(kind, index) == kind = "sqlite" => index.type # "primary"

IndexDefinition(index) == [unique |-> index.unique \/ index.type = "unique",
                           fields |-> index.fields, order |-> index.order]

IndexesOf(kind, schema) ==
  LET made == {id \in DOMAIN schema.indexes : IsIndexed(kind, schema.indexes[id])}
  IN [n \in {schema.indexes[id].name : id \in made} |->
        IndexDefinition(schema.indexes[CHOOSE id \in made : schema.indexes[id].name = n])]

PrimaryKeys(kind, schema) ==
  {<<"_id_">>} \union
  {schema.indexes[id].fields :
     id \in {i \in DOMAIN schema.indexes :
              ~IsIndexed(kind, schema.indexes[i]) /\ schema.indexes[i].fields # <<>>}}

CreatedTables(kind, schema) ==
  {[columns |-> TableColumns(schema), indexes |-> IndexesOf(kind, schema), key |-> key] :
     key \in PrimaryKeys(kind, schema)}

AddColumnFails(t, field) ==
  /\ engine = "sqlite"
  /\ \/ field.name \in DOMAIN t.columns
     \/ field.unique
     \/ field.required /\ field.default = ""

(* The SQLite factory builds no such statement.                            *)
DropColumnFails == engine = "sqlite"

CreateIndexFails(t, index) ==
  \/ engine = "ephemeral" /\ index.name \in DOMAIN t.indexes
  \/ engine = "sqlite" /\ ~(Range(index.fields) \subseteq DOMAIN t.columns)

DropIndexFails(t, name) == engine = "ephemeral" /\ name \notin DOMAIN t.indexes

Drop(named, name) == [n \in DOMAIN named \ {name} |-> named[n]]

WithColumn(columns, field) ==
  [n \in DOMAIN columns \union {field.name} |->
     IF n = field.name THEN ColumnDefinition(EmptySchema, field) ELSE columns[n]]

(* CREATE INDEX IF NOT EXISTS.                                             *)
WithIndex(indexes, index) ==
  [n \in DOMAIN indexes \union {index.name} |->
     IF n \in DOMAIN indexes THEN indexes[n] ELSE IndexDefinition(index)]

(***************************************************************************)
(* What a change needs of the backend (canApplyAllInPlace and the early    *)
(* returns of applyDDLInPlace agree), and what its statement does.         *)
(***************************************************************************)
(* The entities a change adds, or removes: one, but in a nested schema.    *)
Added(change) == {change.forward.add[p] : p \in DOMAIN change.forward.add}
Removed(change) == {change.backward.add[p] : p \in DOMAIN change.backward.add}

ChangeNeeds(change) ==
  LET props == {p.prop : p \in DOMAIN change.forward.set}
      all == DOMAIN change.forward.add \union change.forward.remove
             \union DOMAIN change.forward.set
  IN CASE change.of = "fields" /\ change.kind = "added" -> {"add column"}
       [] change.of = "fields" /\ change.kind = "removed" -> {"drop column"}
       [] change.of = "fields" /\ change.kind = "modified" ->
            (IF "name" \in props THEN {"rename column"} ELSE {})
            \union (IF "type" \in props THEN {"alter column type"} ELSE {})
       [] change.of = "constraints" /\ change.kind = "added" -> {"add constraint"}
       [] change.of = "constraints" /\ change.kind = "removed" -> {"drop constraint"}
       [] change.of = "schemas" /\ (change.kind = "modified" => \E p \in all : IsNestedEntityPath(p)) ->
            {"a table of its own"}
       [] OTHER -> {}

AllInPlace(diff) == \A c \in diff : ChangeNeeds(c) \subseteq Evolves(engine)

StatementFails(t, change) ==
  \/ ~(ChangeNeeds(change) \subseteq Evolves(engine))
  \/ change.of = "fields" /\ change.kind = "added"
     /\ \E f \in Added(change) : AddColumnFails(t, f)
  \/ change.of = "fields" /\ change.kind = "removed" /\ DropColumnFails
  \/ change.of = "indexes" /\ change.kind = "added"
     /\ \E i \in Added(change) : CreateIndexFails(t, i)
  \/ change.of = "indexes" /\ change.kind = "removed" /\ DropIndexFails(t, change.entity)

(* Mutant: a removed index is taken for metadata.                          *)
StatementKeepsIndex(t, change) ==
  LET added == CHOOSE e \in Added(change) : TRUE
  IN CASE change.of = "fields" /\ change.kind = "added" ->
            [t EXCEPT !.columns = WithColumn(@, added)]
       [] change.of = "fields" /\ change.kind = "removed" ->
            [t EXCEPT !.columns = Drop(@, change.entity)]
       [] change.of = "indexes" /\ change.kind = "added" ->
            [t EXCEPT !.indexes = WithIndex(@, added)]
       [] OTHER -> t

StatementResult(t, change) ==
  LET added == CHOOSE e \in Added(change) : TRUE
  IN CASE change.of = "fields" /\ change.kind = "added" ->
            [t EXCEPT !.columns = WithColumn(@, added)]
       [] change.of = "fields" /\ change.kind = "removed" ->
            [t EXCEPT !.columns = Drop(@, change.entity)]
       [] change.of = "indexes" /\ change.kind = "added" ->
            [t EXCEPT !.indexes = WithIndex(@, added)]
       [] change.of = "indexes" /\ change.kind = "removed" ->
            [t EXCEPT !.indexes = Drop(@, change.entity)]
       [] OTHER -> t

(* The diff lists fields before indexes, and what the new schema has       *)
(* before what it has no more; within these the order is that of a Go map. *)
ChangeRank(change) ==
  CASE change.of = "fields" -> IF change.kind = "removed" THEN 2 ELSE 1
    [] change.of = "indexes" -> IF change.kind = "removed" THEN 4 ELSE 3
    [] OTHER -> 5

(***************************************************************************)
(* A migration.                                                            *)
(***************************************************************************)
EvolvingFrom(kind, schema) ==
  /\ engine = kind
  /\ activeSchema = schema
  /\ version = <<1, 0, 0>>
  /\ table \in CreatedTables(kind, activeSchema)
  /\ untouched = {} /\ plan = <<>> /\ partial = FALSE /\ migrations = 0
EvolutionInit ==
  \E kind \in {"sqlite", "ephemeral"}, schema \in SchemaRevisions :
    EvolvingFrom(kind, schema)

(* Migrate: diff, bump and phase.  The caller sets the phase or leaves it  *)
(* to ResolvePhase.                                                        *)
StartMigration(target, asked) ==
  LET diff == SchemaDiff(activeSchema, target)
      resolved == IF AllInPlace(diff) THEN "schema_only" ELSE "ddl"
  IN /\ plan = <<>> /\ ~partial /\ migrations < MaxMigrations /\ target # activeSchema
     /\ migrations' = migrations + 1
     /\ plan' = [target |-> target, diff |-> diff, left |-> diff,
                 bump |-> VersionImpact(diff),
                 phase |-> IF asked = "" THEN resolved ELSE asked]
     /\ UNCHANGED <<engine, activeSchema, version, table, untouched, partial>>

InPlace == plan # <<>> /\ plan.phase # "full"

NextChange(change) ==
  change \in plan.left /\ \A c \in plan.left : ChangeRank(change) <= ChangeRank(c)

(* What is modified, or created under a name that is in use, is left as it *)
(* is: SQLite creates an index IF NOT EXISTS.  So are the key of a table,  *)
(* whatever becomes of its primary indexes, and the checks of its enums.   *)
KeyNames(indexes) == {i.name : i \in {k \in indexes : ~IsIndexed(engine, k)}}

Renamed(change) ==
  UNION {{ops.set[p] : p \in {q \in DOMAIN ops.set : q.prop = "name"}} :
           ops \in {change.forward, change.backward}}
Retyped(change) == {change.entity : p \in {q \in DOMAIN change.forward.set : q.prop = "type"}}

LeftAsItIs(t, change) ==
  CASE change.of = "indexes" /\ change.kind = "added" ->
         ({i.name : i \in Added(change)} \intersect DOMAIN t.indexes) \union KeyNames(Added(change))
    [] change.of = "indexes" /\ change.kind = "removed" -> KeyNames(Removed(change))
    [] change.of = "fields" /\ change.kind = "added" ->
         {p.id : p \in {q \in DOMAIN change.forward.add : change.forward.add[q].type = "enum"}}
    [] change.of \in {"fields", "indexes"} /\ change.kind = "modified" ->
         {p.id : p \in DOMAIN change.forward.set} \union Renamed(change) \union Retyped(change)
    [] change.of = "schemas" ->
         {p.id : p \in {q \in DOMAIN change.forward.set : q.prop = "values"}}
    [] OTHER -> {}

RunStatement(change) ==
  /\ InPlace /\ NextChange(change) /\ ~StatementFails(table, change)
  /\ table' = StatementResult(table, change)
  /\ untouched' = untouched \union LeftAsItIs(table, change)
  /\ plan' = [plan EXCEPT !.left = @ \ {change}]
  /\ UNCHANGED <<engine, activeSchema, version, partial, migrations>>

(* A unique index may meet documents it does not allow.                    *)
MayStop(change) ==
  \/ StatementFails(table, change)
  \/ /\ change.of = "indexes" /\ change.kind = "added"
     /\ \E i \in Added(change) : IndexDefinition(i).unique

(* A statement that fails ends a schema-only migration with an error and   *)
(* what is applied stays; a migration in phase ddl falls back to the copy. *)
StatementStops(change) ==
  /\ InPlace /\ NextChange(change) /\ MayStop(change)
  /\ IF plan.phase = "schema_only"
     THEN /\ plan' = <<>>
          /\ partial' = (plan.left # plan.diff)
     ELSE /\ plan' = [plan EXCEPT !.phase = "full"]
          /\ UNCHANGED partial
  /\ UNCHANGED <<engine, activeSchema, version, table, untouched, migrations>>

(* AddSchemaVersion and SetActiveVersion.                                  *)
Activate(newTable, modified) ==
  /\ activeSchema' = plan.target
  /\ version' = BumpVersion(plan.bump, version)
  /\ table' = newTable
  /\ untouched' = modified
  /\ plan' = <<>>
  /\ UNCHANGED <<engine, partial, migrations>>

FinishInPlace == InPlace /\ plan.left = {} /\ Activate(table, untouched)

MigrateWithCopy ==
  /\ plan # <<>> /\ plan.phase = "full"
  /\ \E created \in CreatedTables(engine, plan.target) : Activate(created, {})

EvolutionNext ==
  \/ \E target \in SchemaRevisions, asked \in {"", "full", "ddl"} : StartMigration(target, asked)
  \/ InPlace /\ \E change \in plan.left : RunStatement(change) \/ StatementStops(change)
  \/ FinishInPlace
  \/ MigrateWithCopy

EvolutionSpec == EvolutionInit /\ [][EvolutionNext]_evolutionVars

(***************************************************************************)
(* Properties                                                              *)
(***************************************************************************)

(* What operations make of a record of properties, an entity, a            *)
(* collection, a nested schema and a schema.                               *)
Overridden(r, id, of, within, ops) ==
  [p \in DOMAIN r |-> LET path == EvolutionPath(within, id, of, p)
                      IN IF path \in DOMAIN ops.set THEN ops.set[path] ELSE r[p]]

PatchedEntity(entity, id, of, within, ops) ==
  LET e == Overridden(entity, id, of, within, ops)
  IN IF of = "constraints" /\ e.union = entity.union
     THEN [e EXCEPT !.union = Overridden(@, id, of, within, ops)] ELSE e

Patched(coll, of, within, ops) ==
  LET Path(id) == EvolutionPath(within, id, of, "")
      kept == {id \in DOMAIN coll : Path(id) \notin ops.remove}
      fresh == {p.id : p \in {q \in DOMAIN ops.add : q.of = of /\ q.within = within}}
  IN [id \in kept \union fresh |-> IF id \in fresh THEN ops.add[Path(id)]
                                   ELSE PatchedEntity(coll[id], id, of, within, ops)]

PatchedNested(part, id, ops) ==
  [part EXCEPT !.fields = Patched(@, "fields", {id}, ops),
               !.indexes = Patched(@, "indexes", {id}, ops),
               !.constraints = Patched(@, "constraints", {id}, ops)]

PatchedSchema(s, ops) ==
  LET root == Overridden([name |-> s.name, description |-> s.description], "", "root", {}, ops)
      schemas == Patched(s.schemas, "schemas", {}, ops)
  IN [name |-> root.name, description |-> root.description,
      fields |-> Patched(s.fields, "fields", {}, ops),
      indexes |-> Patched(s.indexes, "indexes", {}, ops),
      constraints |-> Patched(s.constraints, "constraints", {}, ops),
      metadata |-> Patched(s.metadata, "metadata", {}, ops),
      schemas |-> [id \in DOMAIN schemas |-> PatchedNested(schemas[id], id, ops)]]

(* What no diff compares: the rules of a group that stays one, and the     *)
(* schema a nested schema refers to.                                       *)
UncomparedRules(old, new) ==
  \E id \in DOMAIN old \intersect DOMAIN new :
    /\ old[id].union.kind = "group" /\ new[id].union.kind = "group"
    /\ old[id].union # new[id].union

Uncompared(old, new) ==
  \/ UncomparedRules(old.constraints, new.constraints)
  \/ \E id \in DOMAIN old.schemas \intersect DOMAIN new.schemas :
       LET a == old.schemas[id]  b == new.schemas[id]
       IN a.schema # b.schema \/ UncomparedRules(a.constraints, b.constraints)

(* The operations of a diff lead from the old schema to the new one, and   *)
(* those it records for the way back lead back: nothing that differs is    *)
(* forgotten but what Uncompared names.                                    *)
DiffInverts ==
  plan # <<>> /\ ~Uncompared(activeSchema, plan.target) =>
    /\ PatchedSchema(activeSchema, JoinOps({c.forward : c \in plan.diff})) = plan.target
    /\ PatchedSchema(plan.target, JoinOps({c.backward : c \in plan.diff})) = activeSchema

(* A document maps the names of its fields to a type, a null or an object. *)
RuleHolds(constraint, doc) ==
  constraint.union.kind = "rule" =>
    CASE constraint.union.predicate = "both" ->
           \A n \in Range(constraint.union.fields) : n \in DOMAIN doc
      [] OTHER -> TRUE

TypeFits(schema, field, value) ==
  CASE value.is = "null" -> field.nullable
    [] value.is = "object" ->
         /\ field.type = "object"
         /\ \A sid \in {field.schema} \intersect DOMAIN schema.schemas :
              LET inner == schema.schemas[sid].fields
              IN \A id \in DOMAIN inner : inner[id].required => inner[id].name \in value.keys
    [] OTHER -> value.is = field.type

AcceptsDocument(schema, doc) ==
  /\ \A id \in DOMAIN schema.fields :
       LET f == schema.fields[id]
       IN IF f.name \in DOMAIN doc THEN TypeFits(schema, f, doc[f.name]) ELSE ~f.required
  /\ \A n \in DOMAIN doc : \E id \in DOMAIN schema.fields : schema.fields[id].name = n
  /\ \A id \in DOMAIN schema.constraints : RuleHolds(schema.constraints[id], doc)

(* A tuple of fields no two documents share: SQLite makes a unique index   *)
(* of one whose type says so as well, and ignores its condition.           *)
IsUnique(index) == index.unique \/ index.type \in {"unique", "primary"}

UniqueTuples(schema) ==
  {<<schema.fields[id].name>> : id \in {i \in DOMAIN schema.fields : schema.fields[i].unique}}
  \union {schema.indexes[id].fields : id \in {i \in DOMAIN schema.indexes : IsUnique(schema.indexes[i])}}

HeldApart(schema, docs) ==
  \A tuple \in UniqueTuples(schema), i, j \in DOMAIN docs :
    i # j /\ Range(tuple) \subseteq DOMAIN docs[i] \intersect DOMAIN docs[j]
      => \E n \in Range(tuple) : docs[i][n] # docs[j][n]

AcceptsAll(schema, docs) ==
  (\A i \in DOMAIN docs : AcceptsDocument(schema, docs[i])) /\ HeldApart(schema, docs)

(* Tightenings the bump does not count: a null forbidden, a rule in place  *)
(* of a group, a second field of a name, an index that is unique or        *)
(* primary by its type alone.                                              *)
Uncounted(old, new) ==
  \/ \E id \in DOMAIN old.fields, other \in DOMAIN new.fields \ DOMAIN old.fields :
       old.fields[id].name = new.fields[other].name
  \/ \E id \in DOMAIN old.fields \intersect DOMAIN new.fields :
       old.fields[id].nullable /\ ~new.fields[id].nullable
  \/ \E id \in DOMAIN old.constraints \intersect DOMAIN new.constraints :
       old.constraints[id].union.kind # new.constraints[id].union.kind
  \/ \E id \in DOMAIN new.indexes :
       /\ IsUnique(new.indexes[id]) /\ ~new.indexes[id].unique
       /\ ~(id \in DOMAIN old.indexes /\ IsUnique(old.indexes[id]))

(* A migration whose bump is not major leaves every collection that is     *)
(* valid in the active schema valid: the rules of VersionImpact over       *)
(* single operations add up to a promise about whole schemas, fields,      *)
(* indexes, constraints and nested schemas together.                       *)
MinorKeepsDocuments ==
  plan # <<>> /\ plan.bump < 3 /\ ~Uncompared(activeSchema, plan.target)
              /\ ~Uncounted(activeSchema, plan.target) =>
    \A docs \in StoredDocuments : AcceptsAll(activeSchema, docs) => AcceptsAll(plan.target, docs)

(* Between migrations, none of them stopped half way, the columns, the     *)
(* indexes and the key of the active schema are in the table as CREATE     *)
(* TABLE would make them, and nothing else is, but for what was left as it *)
(* is: whatever statements and copies led to the version.  (The ephemeral  *)
(* backend may drop either of two columns of one name.)                    *)
StandsAs(named, entity, definition) ==
  entity.name \in DOMAIN named /\ named[entity.name] = definition

TableFitsVersion ==
  plan = <<>> /\ ~partial =>
    /\ \A id \in DOMAIN activeSchema.indexes \ untouched :
         LET i == activeSchema.indexes[id]
         IN IsIndexed(engine, i) /\ i.name \notin untouched
              => StandsAs(table.indexes, i, IndexDefinition(i))
    /\ engine = "sqlite" =>
         /\ \A id \in DOMAIN activeSchema.fields \ untouched :
              LET f == activeSchema.fields[id]
              IN f.schema \notin untouched
                   => StandsAs(table.columns, f, ColumnDefinition(activeSchema, f))
         /\ untouched = {} => table \in CreatedTables("sqlite", activeSchema)

=============================================================================
